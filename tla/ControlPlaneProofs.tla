-------------------------- MODULE ControlPlaneProofs --------------------------
(***************************************************************************)
(* Safety of the control plane: what is stored of requests, runs and       *)
(* optimizations, whoever prunes, repairs, measures and deletes at once.   *)
(***************************************************************************)
EXTENDS McpServer, FiniteSetTheorems, SequenceTheorems, WellFoundedInduction, TLAPS

Outcomes == {"none", "started", "in_progress"} \cup TerminalOutcomes
Row == [event : {"request_received", "client_response_completed", "debug_error_context"},
        at : Nat, outcome : Outcomes]
Summary ==
    [started_at : Nat, completed_at : Nat, outcome : Outcomes, failed : BOOLEAN, observation_count : Nat,
     milestones : [{"request_received", "client_response_completed"} -> Nat]]
Summaries == Summary \cup {NoExecution}

LEMMA SummaryIsOne == NoExecution \notin Summary
BY DEF NoExecution, Summary

LEMMA MilestoneSet == ToSet(Milestones) = {"request_received", "client_response_completed"}
BY DEF ToSet, Milestones

LEMMA InitialTyped ==
    ASSUME NEW o \in Row
    PROVE  /\ createInitialRequestExecution(o) \in Summary
           /\ createInitialRequestExecution(o).started_at = o.at
<1>1. initialOutcomeForEvent(o) \in Outcomes
  BY DEF initialOutcomeForEvent, Row, Outcomes, TerminalOutcomes
<1>2. Null \in Nat
  BY TraceStoreAssumption DEF Null
<1>. DEFINE ms == [e \in ToSet(Milestones) |-> IF e \in {o.event, "request_received"} THEN o.at ELSE Null]
<1>3. o.at \in Nat
  BY DEF Row
<1>4. ms \in [{"request_received", "client_response_completed"} -> Nat]
  BY <1>2, <1>3, MilestoneSet, Zenon
<1>5. createInitialRequestExecution(o) =
        [started_at |-> o.at, completed_at |-> Null, outcome |-> initialOutcomeForEvent(o),
         failed |-> FALSE, observation_count |-> 0, milestones |-> ms]
  BY Zenon DEF createInitialRequestExecution
<1>. HIDE DEF ms
<1>. QED BY <1>1, <1>2, <1>3, <1>4, <1>5 DEF Summary

LEMMA AppliedTyped ==
    ASSUME NEW x \in Summary, NEW o \in Row
    PROVE  /\ applyObservationToExecution(x, o) \in Summary
           /\ applyObservationToExecution(x, o).started_at = x.started_at
<1>. DEFINE terminal == o.outcome \in TerminalOutcomes
           error    == o.event = "debug_error_context"
           closes   == o.event = "client_response_completed" /\ ~terminal /\ x.completed_at = Null
           ms == [e \in DOMAIN x.milestones |-> IF e = o.event /\ x.milestones[e] = Null THEN o.at ELSE x.milestones[e]]
           fl == x.failed \/ error
           ca == IF terminal \/ error \/ closes THEN o.at ELSE x.completed_at
           oc == IF terminal THEN o.outcome
                 ELSE IF error THEN "failed"
                 ELSE IF closes /\ ~x.failed THEN "succeeded"
                 ELSE IF x.outcome = "started" /\ o.event # "request_received" THEN "in_progress"
                 ELSE x.outcome
           n == x.observation_count + 1
<1>1. applyObservationToExecution(x, o) =
        [x EXCEPT !.observation_count = n, !.milestones = ms, !.failed = fl, !.completed_at = ca, !.outcome = oc]
  BY Zenon DEF applyObservationToExecution
<1>2. ms \in [{"request_received", "client_response_completed"} -> Nat]
  <2>1. o.at \in Nat
    BY DEF Row
  <2>2. x.milestones \in [{"request_received", "client_response_completed"} -> Nat]
    BY DEF Summary
  <2>. QED BY <2>1, <2>2, Zenon
<1>3. fl \in BOOLEAN
  <2>1. fl = TRUE \/ fl = FALSE
    BY Zenon
  <2>. QED BY <2>1, Zenon
<1>4. ca \in Nat
  BY DEF Row, Summary
<1>5. oc \in Outcomes
  BY DEF Row, Summary, Outcomes, TerminalOutcomes
<1>6. n \in Nat
  BY DEF Summary
<1>. HIDE DEF ms, fl, ca, oc, n
<1>. QED BY <1>1, <1>2, <1>3, <1>4, <1>5, <1>6 DEF Summary

LEMMA MaterializedTyped ==
    ASSUME NEW x \in Summaries, NEW o \in Row
    PROVE  /\ materialized(x, o) \in Summary
           /\ materialized(x, o).started_at = IF x = NoExecution THEN o.at ELSE x.started_at
BY InitialTyped, AppliedTyped, SummaryIsOne DEF materialized, Summaries

LEMMA LeastNatural ==
    ASSUME NEW K \in SUBSET Nat, K # {}
    PROVE  \E m \in K : \A k \in K : m <= k
<1>1. PICK m \in K : \A k \in K : <<k, m>> \notin OpToRel(<, Nat)
  BY WFMin, NatLessThanWellFounded, Zenon
<1>2. \A k \in K : ~(k < m)
  BY <1>1, Zenon DEF OpToRel
<1>. QED BY <1>2

\* Induction, as it can be cited: of a set of naturals.
LEMMA NaturalsInduct ==
    ASSUME NEW G \in SUBSET Nat, 0 \in G, \A k \in Nat : k \in G => k + 1 \in G
    PROVE  G = Nat
<1>1. SUFFICES ASSUME Nat \ G # {} PROVE FALSE
  BY Zenon
<1>2. PICK m \in Nat \ G : \A k \in Nat \ G : m <= k
  BY <1>1, LeastNatural, Zenon
<1>3. m # 0 /\ m \in Nat
  BY Zenon
<1>4. m - 1 \in Nat /\ ~(m <= m - 1) /\ (m - 1) + 1 = m
  BY <1>3
<1>5. m - 1 \in G
  BY <1>2, <1>4, Zenon
<1>6. m \in G
  BY <1>4, <1>5
<1>. QED BY <1>6

LEMMA MaxOfSet ==
    ASSUME NEW n \in Nat, NEW S \in SUBSET (1 .. n), S # {}
    PROVE  Max(S) \in S /\ \A y \in S : Max(S) >= y
<1> DEFINE Up == {m \in Nat : \A y \in S : m >= y}
<1>1. n \in Up
  OBVIOUS
<1>2. PICK m \in Up : \A k \in Up : m <= k
  BY <1>1, LeastNatural
<1>4. m \in S
  <2>1. SUFFICES ASSUME m \notin S PROVE FALSE
    OBVIOUS
  <2>2. PICK y \in S : TRUE
    OBVIOUS
  <2>3. m >= y /\ m # y /\ y >= 1
    BY <2>1
  <2>4. m - 1 \in Up
    BY <2>1, <2>3
  <2>. QED BY <1>2, <2>4
<1>. QED BY <1>2, <1>4 DEF Max

\* The two steps that are folded: a summary takes up a row, a prune keeps it or not.
Folded(kind, x, o) ==
    IF kind.op = "summary" THEN materialized(x, o)
    ELSE IF o.at >= kind.cutoff THEN Append(x, o) ELSE x

\* The function that FoldLeft computes.
IsFold(f, kind, x, rows) ==
    f = [s \in SUBSET (DOMAIN rows) |-> IF s = {} THEN x ELSE Folded(kind, f[s \ {Max(s)}], rows[Max(s)])]

LEMMA FoldExists ==
    ASSUME NEW kind, NEW x, NEW rows \in Seq(Row)
    PROVE  \E f : IsFold(f, kind, x, rows)
<1> DEFINE n == Len(rows)
           Upto(k) == SUBSET (1 .. k)
           Is(f, k) == f = [s \in Upto(k) |-> IF s = {} THEN x ELSE Folded(kind, f[s \ {Max(s)}], rows[Max(s)])]
           P(k) == \E f : Is(f, k)
<1>1. n \in Nat /\ DOMAIN rows = 1 .. n
  OBVIOUS
<1>2. P(0)
  <2>. DEFINE f == [s \in Upto(0) |-> x]
  <2>1. \A s \in Upto(0) : s = {}
    OBVIOUS
  <2>2. Is(f, 0)
    BY <2>1
  <2>. QED BY <2>2
<1>3. ASSUME NEW k \in Nat, P(k) PROVE P(k + 1)
  <2>1. PICK f : Is(f, k)
    BY <1>3
  <2>. DEFINE g == [s \in Upto(k + 1) |-> IF s = {} THEN x ELSE Folded(kind, f[s \ {Max(s)}], rows[Max(s)])]
  <2>2. ASSUME NEW s \in Upto(k + 1), s # {}
        PROVE  s \ {Max(s)} \in Upto(k)
    <3>0. k + 1 \in Nat /\ s \in SUBSET (1 .. k + 1)
      OBVIOUS
    <3>1. Max(s) \in s /\ \A y \in s : Max(s) >= y
      BY <2>2, <3>0, MaxOfSet, Zenon
    <3>2. ASSUME NEW y \in s \ {Max(s)} PROVE y \in 1 .. k
      <4>1. y \in 1 .. k + 1 /\ Max(s) \in 1 .. k + 1 /\ Max(s) >= y /\ Max(s) # y
        BY <3>1, <3>2, Zenon
      <4>. QED BY <4>1
    <3>. QED BY <3>2
  <2>3. ASSUME NEW s \in Upto(k) PROVE g[s] = f[s]
    <3>1. s \in Upto(k + 1)
      OBVIOUS
    <3>. QED BY <3>1, <2>1, Zenon
  <2>4. \A s \in Upto(k + 1) : s # {} => g[s \ {Max(s)}] = f[s \ {Max(s)}]
    BY <2>2, <2>3, Zenon
  <2>. HIDE DEF Upto
  <2>5. Is(g, k + 1)
    BY <2>4, Zenon
  <2>. QED BY <2>5, Zenon
<1>. HIDE DEF P
<1>4. {k \in Nat : P(k)} = Nat
  <2>. DEFINE G == {k \in Nat : P(k)}
  <2>1. 0 \in G /\ \A k \in Nat : k \in G => k + 1 \in G
    BY <1>2, <1>3
  <2>. HIDE DEF G
  <2>2. G \in SUBSET Nat
    BY DEF G
  <2>3. G = Nat
    BY <2>1, <2>2, NaturalsInduct, Zenon
  <2>. QED BY <2>3 DEF G
<1>5. P(n)
  BY <1>1, <1>4
<1>. QED BY <1>1, <1>5 DEF P, IsFold

\* The two values, to which FoldLeft brings x.
Summarised(x, rows) == FoldLeft(materialized, x, rows)
Filtered(cutoff, x, rows) == FoldLeft(LAMBDA kept, o : IF o.at >= cutoff THEN Append(kept, o) ELSE kept, x, rows)
Total(kind, x, rows) == IF kind.op = "summary" THEN Summarised(x, rows) ELSE Filtered(kind.cutoff, x, rows)

\* The summaries after each of the rows.
Trace(g, kind, x, rows) ==
    /\ g[0] = x
    /\ \A k \in 1 .. Len(rows) : g[k] = Folded(kind, g[k - 1], rows[k])
    /\ Total(kind, x, rows) = g[Len(rows)]

LEMMA FoldUnfolds ==
    ASSUME NEW kind, NEW x, NEW rows \in Seq(Row)
    PROVE  \E g : Trace(g, kind, x, rows)
<1>0. PICK h : IsFold(h, kind, x, rows)
  BY FoldExists, Zenon
<1>1. \E f : IsFold(f, kind, x, rows) /\ Total(kind, x, rows) = f[DOMAIN rows]
  <2>1. CASE kind.op = "summary"
    <3>. DEFINE Is(f) == f = [s \in SUBSET (DOMAIN rows) |->
                               IF s = {} THEN x ELSE materialized(f[s \ {Max(s)}], rows[Max(s)])]
    <3>1. \A f, s : Folded(kind, f, s) = materialized(f, s)
      BY <2>1, Zenon DEF Folded
    <3>2. ASSUME NEW f PROVE IsFold(f, kind, x, rows) <=> Is(f)
      BY <3>1, Zenon DEF IsFold
    <3>3. Total(kind, x, rows) = (CHOOSE f : Is(f))[DOMAIN rows]
      BY <2>1, Zenon DEF Total, Summarised, FoldLeft, MapThenFoldSet
    <3>. HIDE DEF Is
    <3>. QED BY <1>0, <3>2, <3>3, Zenon
  <2>2. CASE kind.op # "summary"
    <3>. DEFINE Is(f) == f = [s \in SUBSET (DOMAIN rows) |->
                               IF s = {} THEN x
                               ELSE IF rows[Max(s)].at >= kind.cutoff THEN Append(f[s \ {Max(s)}], rows[Max(s)])
                               ELSE f[s \ {Max(s)}]]
    <3>1. \A f, s : Folded(kind, f, s) = IF s.at >= kind.cutoff THEN Append(f, s) ELSE f
      BY <2>2, Zenon DEF Folded
    <3>2. ASSUME NEW f PROVE IsFold(f, kind, x, rows) <=> Is(f)
      BY <3>1, Zenon DEF IsFold
    <3>3. Total(kind, x, rows) = (CHOOSE f : Is(f))[DOMAIN rows]
      BY <2>2, Zenon DEF Total, Filtered, FoldLeft, MapThenFoldSet
    <3>. HIDE DEF Is
    <3>. QED BY <1>0, <3>2, <3>3, Zenon
  <2>. QED BY <2>1, <2>2
<1>2. PICK iter : IsFold(iter, kind, x, rows) /\ Total(kind, x, rows) = iter[DOMAIN rows]
  BY <1>1, Zenon
<1>. DEFINE n == Len(rows)
            g == [k \in 0 .. n |-> iter[1 .. k]]
<1>3. n \in Nat /\ DOMAIN rows = 1 .. n
  OBVIOUS
<1>4. ASSUME NEW s \in SUBSET (DOMAIN rows)
      PROVE  iter[s] = IF s = {} THEN x ELSE Folded(kind, iter[s \ {Max(s)}], rows[Max(s)])
  BY <1>2, Zenon DEF IsFold
<1>5. g[0] = x
  <2>1. 1 .. 0 = {} /\ 0 \in 0 .. n
    BY <1>3
  <2>. QED BY <1>4, <2>1, Zenon
<1>6. ASSUME NEW k \in 1 .. n PROVE g[k] = Folded(kind, g[k - 1], rows[k])
  <2>1. /\ k \in Nat /\ 1 .. k \in SUBSET (1 .. k) /\ 1 .. k # {} /\ 1 .. k \in SUBSET (DOMAIN rows)
        /\ k \in 0 .. n /\ k - 1 \in 0 .. n
    BY <1>3
  <2>2. Max(1 .. k) \in 1 .. k /\ \A y \in 1 .. k : Max(1 .. k) >= y
    BY <2>1, MaxOfSet, Zenon
  <2>3. Max(1 .. k) = k /\ (1 .. k) \ {k} = 1 .. (k - 1)
    BY <2>2
  <2>4. iter[1 .. k] = Folded(kind, iter[1 .. (k - 1)], rows[k])
    BY <1>4, <2>1, <2>3, Zenon
  <2>. QED BY <2>1, <2>4, Zenon
<1>7. Total(kind, x, rows) = g[n]
  BY <1>2, <1>3
<1>. QED BY <1>5, <1>6, <1>7, Zenon DEF Trace

LEMMA FoldTyped ==
    ASSUME NEW x \in Summaries, NEW rows \in Seq(Row)
    PROVE  /\ rows = <<>> => Summarised(x, rows) = x
           /\ rows # <<>> => /\ Summarised(x, rows) \in Summary
                            /\ Summarised(x, rows).started_at =
                                  IF x = NoExecution THEN rows[1].at ELSE x.started_at
<1>. DEFINE n == Len(rows)
            y == Summarised(x, rows)
            kind == [op |-> "summary", cutoff |-> 0]
<1>0. PICK g : Trace(g, kind, x, rows)
  BY FoldUnfolds, Zenon
<1>1. /\ g[0] = x
      /\ \A k \in 1 .. n : g[k] = materialized(g[k - 1], rows[k])
      /\ y = g[n]
  BY <1>0 DEF Trace, Total, Folded
<1>2. n \in Nat /\ \A k \in 1 .. n : rows[k] \in Row
  OBVIOUS
<1>3. CASE rows = <<>>
  <2>1. n = 0
    BY <1>3
  <2>2. y = x
    BY <1>1, <2>1, Zenon
  <2>. QED BY <1>3, <2>2, Zenon
<1>4. CASE rows # <<>>
  <2>. DEFINE start == IF x = NoExecution THEN rows[1].at ELSE x.started_at
              Good(k) == g[k] \in Summary /\ g[k].started_at = start
              G == {k \in Nat : k + 1 <= n => Good(k + 1)}
  <2>1. n >= 1 /\ 1 \in 1 .. n
    BY <1>2, <1>4
  <2>2. Good(1)
    <3>1. g[1] = materialized(x, rows[1]) /\ rows[1] \in Row
      BY <1>1, <1>2, <2>1
    <3>. QED BY <3>1, MaterializedTyped, Zenon
  <2>3. ASSUME NEW k \in 1 .. n, k # 1, Good(k - 1) PROVE Good(k)
    <3>1. g[k] = materialized(g[k - 1], rows[k]) /\ rows[k] \in Row
      BY <1>1, <1>2
    <3>2. g[k - 1] \in Summaries /\ g[k - 1] # NoExecution
      BY <2>3, SummaryIsOne, Zenon DEF Summaries
    <3>3. g[k] \in Summary /\ g[k].started_at = g[k - 1].started_at
      BY <3>1, <3>2, MaterializedTyped, Zenon
    <3>. QED BY <2>3, <3>3, Zenon
  <2>. HIDE DEF Good
  <2>4. G = Nat
    <3>1. 0 \in G
      BY <2>2
    <3>2. ASSUME NEW k \in G PROVE k + 1 \in G
      <4>1. SUFFICES ASSUME k + 2 <= n PROVE Good(k + 2)
        OBVIOUS
      <4>2. k + 2 \in 1 .. n /\ k + 2 # 1 /\ (k + 2) - 1 = k + 1 /\ k + 1 <= n
        BY <4>1, <1>2
      <4>3. Good(k + 1)
        BY <3>2, <4>2
      <4>. QED BY <2>3, <4>2, <4>3
    <3>3. G \in SUBSET Nat
      OBVIOUS
    <3>. HIDE DEF G
    <3>. QED BY <3>1, <3>2, <3>3, NaturalsInduct
  <2>5. Good(n)
    <3>1. n - 1 \in Nat /\ (n - 1) + 1 = n /\ n <= n
      BY <2>1, <1>2
    <3>2. n - 1 \in G
      BY <2>4, <3>1
    <3>. QED BY <3>1, <3>2
  <2>. QED BY <1>1, <1>4, <2>5, Zenon DEF Good
<1>. QED BY <1>3, <1>4, Zenon

LEMMA FilterTyped ==
    ASSUME NEW cutoff \in Nat, NEW rows \in Seq(Row)
    PROVE  /\ rowsFrom(cutoff, rows) \in Seq(Row)
           /\ \A j \in DOMAIN rowsFrom(cutoff, rows) : \E i \in DOMAIN rows : rowsFrom(cutoff, rows)[j] = rows[i]
           /\ \A i \in DOMAIN rows : rows[i].at >= cutoff =>
                \E j \in DOMAIN rowsFrom(cutoff, rows) : rowsFrom(cutoff, rows)[j] = rows[i]
<1>. DEFINE n == Len(rows)
            kind == [op |-> "filter", cutoff |-> cutoff]
<1>0. PICK g : Trace(g, kind, <<>>, rows)
  BY FoldUnfolds, Zenon
<1>1. /\ g[0] = <<>>
      /\ \A k \in 1 .. n : g[k] = IF rows[k].at >= cutoff THEN Append(g[k - 1], rows[k]) ELSE g[k - 1]
      /\ rowsFrom(cutoff, rows) = g[n]
  <2>1. rowsFrom(cutoff, rows) = Filtered(cutoff, <<>>, rows)
    BY Zenon DEF rowsFrom, Filtered
  <2>. QED BY <1>0, <2>1 DEF Trace, Total, Folded
<1>2. n \in Nat /\ DOMAIN rows = 1 .. n /\ \A k \in 1 .. n : rows[k] \in Row
  OBVIOUS
<1>. DEFINE Good(k) ==
              /\ g[k] \in Seq(Row)
              /\ \A j \in DOMAIN g[k] : \E i \in 1 .. k : g[k][j] = rows[i]
              /\ \A i \in 1 .. k : rows[i].at >= cutoff => \E j \in DOMAIN g[k] : g[k][j] = rows[i]
            G == {k \in Nat : k <= n => Good(k)}
<1>3. Good(0)
  <2>1. 1 .. 0 = {} /\ <<>> \in Seq(Row) /\ DOMAIN <<>> = {}
    OBVIOUS
  <2>. QED BY <1>1, <2>1, Zenon
<1>4. ASSUME NEW k \in Nat, k + 1 <= n, Good(k) PROVE Good(k + 1)
  <2>1. k + 1 \in 1 .. n /\ (k + 1) - 1 = k /\ rows[k + 1] \in Row
    BY <1>2, <1>4
  <2>2. 1 .. k + 1 = (1 .. k) \cup {k + 1}
    OBVIOUS
  <2>3. CASE rows[k + 1].at >= cutoff
    <3>1. g[k + 1] = Append(g[k], rows[k + 1])
      BY <1>1, <2>1, <2>3
    <3>. DEFINE s == g[k]
                o == rows[k + 1]
    <3>2. s \in Seq(Row) /\ o \in Row
      BY <1>4, <2>1
    <3>. HIDE DEF s, o
    <3>3. /\ Append(s, o) \in Seq(Row)
          /\ DOMAIN Append(s, o) = 1 .. Len(s) + 1 /\ DOMAIN s = 1 .. Len(s) /\ Len(s) \in Nat
          /\ \A j \in 1 .. Len(s) : Append(s, o)[j] = s[j]
          /\ Append(s, o)[Len(s) + 1] = o
      BY <3>2
    <3>4. 1 .. Len(s) + 1 = (1 .. Len(s)) \cup {Len(s) + 1}
      BY <3>3
    <3>. USE DEF s, o
    <3>5. ASSUME NEW j \in DOMAIN g[k + 1] PROVE \E i \in 1 .. k + 1 : g[k + 1][j] = rows[i]
      <4>1. j \in 1 .. Len(s) \/ j = Len(s) + 1
        BY <3>1, <3>3, <3>4, <3>5, Zenon
      <4>2. CASE j \in 1 .. Len(s)
        <5>1. g[k + 1][j] = g[k][j] /\ j \in DOMAIN g[k]
          BY <3>1, <3>3, <4>2, Zenon
        <5>2. PICK i \in 1 .. k : g[k][j] = rows[i]
          BY <1>4, <5>1, Zenon
        <5>3. i \in 1 .. k + 1
          BY <2>2
        <5>. QED BY <5>1, <5>2, <5>3, Zenon
      <4>3. CASE j = Len(s) + 1
        <5>1. g[k + 1][j] = rows[k + 1] /\ k + 1 \in 1 .. k + 1
          BY <3>1, <3>3, <4>3, <2>2, Zenon
        <5>. QED BY <5>1, Zenon
      <4>. QED BY <4>1, <4>2, <4>3
    <3>6. ASSUME NEW i \in 1 .. k + 1, rows[i].at >= cutoff PROVE \E j \in DOMAIN g[k + 1] : g[k + 1][j] = rows[i]
      BY <1>4, <2>2, <3>1, <3>3, <3>4, <3>6, Zenon
    <3>. QED BY <3>1, <3>3, <3>5, <3>6, Zenon
  <2>4. CASE ~(rows[k + 1].at >= cutoff)
    <3>1. g[k + 1] = g[k]
      BY <1>1, <2>1, <2>4
    <3>. QED BY <1>4, <2>2, <2>4, <3>1, Zenon
  <2>. QED BY <2>3, <2>4
<1>. HIDE DEF Good
<1>5. G = Nat
  <2>1. 0 \in G
    BY <1>3
  <2>2. ASSUME NEW k \in G PROVE k + 1 \in G
    <3>1. SUFFICES ASSUME k + 1 <= n PROVE Good(k + 1)
      OBVIOUS
    <3>2. k \in Nat /\ k <= n
      BY <3>1, <1>2
    <3>. QED BY <1>4, <3>1, <3>2
  <2>3. G \in SUBSET Nat
    OBVIOUS
  <2>. HIDE DEF G
  <2>. QED BY <2>1, <2>2, <2>3, NaturalsInduct
<1>6. Good(n)
  BY <1>2, <1>5
<1>. DEFINE kept == rowsFrom(cutoff, rows)
<1>7. /\ kept \in Seq(Row)
      /\ \A j \in DOMAIN kept : \E i \in DOMAIN rows : kept[j] = rows[i]
      /\ \A i \in DOMAIN rows : rows[i].at >= cutoff => \E j \in DOMAIN kept : kept[j] = rows[i]
  <2>1. kept = g[n] /\ DOMAIN rows = 1 .. n
    BY <1>1, <1>2, Zenon
  <2>. HIDE DEF kept, n
  <2>. QED BY <1>6, <2>1, Zenon DEF Good
<1>. QED BY <1>7, Zenon

-----------------------------------------------------------------------------
(***************************************************************************)
(* The types of the variables that the properties speak of.                *)
(***************************************************************************)
Statuses == {"none", "running", "completed", "failed", "cancelled"}
Phases == {"idle", "planning", "refused", "running", "error", "reporting", "reported", "optimized"}
Steps ==
    {"unplanned", "waiting", "fetching", "polling", "recording", "completing", "reading", "sampling",
     "sampled", "rejected"}

PlanRow == [route : Nat, path : {"gateway", "direct"}, is_warmup : BOOLEAN]
Sample == [execution : Nat, outcome : Outcomes, latency : Int]
Task ==
    [step : Steps, attempt : {1, 2}, started : Nat, completed : Nat, outcome : TerminalOutcomes, sample : Sample]
Benches ==
    [by : {"none", "mcp", "cli"}, objective : {"none", "route_benchmark", "route_optimization"}, phase : Phases,
     plan : Seq(PlanRow), aborted : {"no", "failed", "cancelled"}, closed : BOOLEAN, busy : Nat]
Repairs == UNION {[S -> Summaries] : S \in SUBSET Requests}

StoreTyped ==
    /\ now \in Nat
    /\ emitted \in [GatewayRequests -> [rank : 0 .. 3, at : Nat]]
    /\ observations \in [Requests -> Seq(Row)]
    /\ executions \in [Requests -> Summaries]
    /\ run \in [status : Statuses, created_at : Nat]
    /\ samples \in [Tasks -> Sample]
    /\ \A t \in Tasks : samples[t] # NoSample => samples[t].execution \in Requests
    /\ untouched \in SUBSET Requests
    /\ changed \in BOOLEAN

ScanTyped ==
    /\ scan \in [kind : {"none", "verify_all", "repair_all", "repair_one"}, by : {"none", "mcp", "cli"},
                 step : {"idle", "list", "open", "write", "done", "failed"}, after : Nat, offset : Nat,
                 batch : SUBSET Requests, plan : Repairs]
    /\ DOMAIN scan.plan \subseteq scan.batch
    /\ scan.step # "write" => scan.plan = <<>>

BenchTyped ==
    /\ bench \in Benches
    /\ DOMAIN bench.plan \subseteq Tasks
    /\ tasks \in [Tasks -> Task]
    /\ \A t \in Tasks : tasks[t].step = "sampling" => tasks[t].sample.execution \in Requests

Typed == StoreTyped /\ ScanTyped /\ BenchTyped


-----------------------------------------------------------------------------
(***************************************************************************)
(* What a step does to the store, to the scan and to the benchmark: the    *)
(* server itself, its input and its queue do not matter here.              *)
(***************************************************************************)
Quiet == UNCHANGED <<storeVars, scan, benchVars, optimization>>

Observes(r) == recordTerminalOnly(r) /\ (r <= GatewayTasks => Requested(r) /\ emitted'[r].at >= run.created_at)

StoreActs ==
    /\ UNCHANGED <<scan, benchVars, optimization>>
    /\ \/ Tick
       \/ \E cutoff \in 0 .. now : pruneOlderThan(cutoff) /\ UNCHANGED <<now, emitted, cast>>
       \/ deleteBenchmarkRun /\ UNCHANGED <<now, emitted, cast>>
       \/ \E r \in GatewayRequests : Observes(r)

ScanActs ==
    /\ UNCHANGED <<benchVars, optimization>>
    /\ \/ \E by \in {"mcp", "cli"} : verifyAll(by) \/ repairAll(by) \/ repairOne(by)
       \/ EndScan
       \/ ScanStep

Starts ==
    \E by \in {"mcp", "cli"}, objective \in {"route_benchmark", "route_optimization"}, aborted \in {"no", "failed"} :
        StartBench(by, objective, aborted)

\* abortMcpSessionContext
Stops ==
    /\ bench' = [bench EXCEPT !.aborted = IF Aborted THEN @ ELSE "failed"]
    /\ UNCHANGED <<storeVars, tasks>>

BenchActs ==
    /\ UNCHANGED scan
    /\ \/ UNCHANGED optimization /\ (Starts \/ Stops \/ AbortBench \/ DrainTimeout \/ BenchStep)
       \/ OptimizeStep
       \/ persistCost

LEMMA EveryStep == ASSUME [Next]_vars PROVE Quiet \/ StoreActs \/ ScanActs \/ BenchActs
<1>. USE DEF Quiet
<1>1. CASE UNCHANGED vars
  BY <1>1, Zenon DEF vars, storeVars, benchVars
<1>2. CASE ReceiveChunk
  BY <1>2, Zenon DEF ReceiveChunk
<1>3. CASE EndInput
  <2>1. CASE UNCHANGED <<session, bench>>
    BY <1>3, <2>1, Zenon DEF EndInput, benchVars
  <2>2. CASE AbortSession
    BY <1>3, <2>2, Zenon DEF EndInput, AbortSession, BenchActs, Stops, benchVars
  <2>. QED BY <1>3, <2>1, <2>2, Zenon DEF EndInput
<1>4. CASE Serve
  <2>1. CASE FinishAfterQueue \/ HandleFramingError \/ HandleMessage \/ CallStoreTool \/ CallFindsNoStore
             \/ ReadTool \/ HistoryTool \/ BenchToolEnds
    BY <2>1, Zenon DEF FinishAfterQueue, HandleFramingError, HandleMessage, CallStoreTool, CallFindsNoStore,
       ReadTool, HistoryTool, BenchToolEnds
  <2>2. CASE PruneTool
    BY <2>2, Zenon DEF PruneTool, StoreActs
  <2>3. CASE ScanTool
    BY <2>3, Zenon DEF ScanTool, ScanActs
  <2>4. CASE ScanToolEnds
    BY <2>4, Zenon DEF ScanToolEnds, ScanActs
  <2>5. CASE BenchTool \/ OptimizeTool
    <3>1. PICK objective \in {"route_benchmark", "route_optimization"} :
            StartBench("mcp", objective, IF session.aborted THEN "failed" ELSE "no") /\ UNCHANGED <<scan, optimization>>
      BY <2>5, Zenon DEF BenchTool, OptimizeTool, StartsRun
    <3>2. (IF session.aborted THEN "failed" ELSE "no") \in {"no", "failed"}
      BY Zenon
    <3>. QED BY <3>1, <3>2, Zenon DEF BenchActs, Starts
  <2>6. CASE OptimizeCostTool
    BY <2>6, Zenon DEF OptimizeCostTool, BenchActs
  <2>. QED BY <1>4, <2>1, <2>2, <2>3, <2>4, <2>5, <2>6, Zenon DEF Serve
<1>5. CASE StoreStep
  <2>1. CASE created /\ Delete /\ created' = created
    <3>1. ASSUME NEW cutoff \in 1 .. now PROVE cutoff \in 0 .. now
      OBVIOUS
    <3>. QED BY <1>5, <2>1, <3>1, Zenon DEF StoreStep, StoreActs, Delete
  <2>2. CASE Tick
    BY <1>5, <2>2, Zenon DEF StoreStep, StoreActs
  <2>3. ASSUME NEW r \in GatewayRequests,
               IF r > GatewayTasks THEN "traffic" \in cast ELSE "gateway" \in cast /\ Requested(r),
               recordTerminalOnly(r), r <= GatewayTasks => emitted'[r].at >= run.created_at
        PROVE  StoreActs
    <3>1. r <= GatewayTasks => ~(r > GatewayTasks)
      BY BenchAssumption, TraceStoreAssumption DEF GatewayRequests
    <3>. QED BY <1>5, <2>3, <3>1, Zenon DEF StoreStep, StoreActs, Observes
  <2>. QED BY <1>5, <2>1, <2>2, <2>3, Zenon DEF StoreStep
<1>6. CASE CliScan
  BY <1>6, Zenon DEF CliScan, ScanActs
<1>7. CASE CliBench
  BY <1>7, Zenon DEF CliBench, BenchActs, Starts
<1>8. CASE CliOptimize
  BY <1>8, Zenon DEF CliOptimize, BenchActs, Starts
<1>9. CASE RunScan
  BY <1>9, Zenon DEF RunScan, ScanActs
<1>10. CASE RunBench
  BY <1>10, Zenon DEF RunBench, BenchActs
<1>11. CASE StopBench
  BY <1>11, Zenon DEF StopBench, BenchActs
<1>. QED BY <1>1, <1>2, <1>3, <1>4, <1>5, <1>6, <1>7, <1>8, <1>9, <1>10, <1>11, Zenon DEF Next

LEMMA BuildTyped ==
    ASSUME NEW rows \in Seq(Row)
    PROVE  /\ rows = <<>> => buildFromObservations(rows) = NoExecution
           /\ rows # <<>> => /\ buildFromObservations(rows) \in Summary
                            /\ buildFromObservations(rows).started_at = rows[1].at
           /\ buildFromObservations(rows) \in Summaries
<1>1. buildFromObservations(rows) = Summarised(NoExecution, rows)
  BY Zenon DEF buildFromObservations, Summarised
<1>2. NoExecution \in Summaries /\ Summary \subseteq Summaries
  BY Zenon DEF Summaries
<1>. QED BY <1>1, <1>2, FoldTyped, Zenon

(***************************************************************************)
(* The plan of a benchmark.                                                *)
(***************************************************************************)
Covered(p) ==
    \A t \in DOMAIN p : \E u \in DOMAIN p : p[u].route = p[t].route /\ ~p[u].is_warmup

GoodPlan(p) == p \in Seq(PlanRow) /\ Covered(p)

LEMMA PlansConcatenate ==
    ASSUME NEW p, NEW q, GoodPlan(p), GoodPlan(q)
    PROVE  GoodPlan(p \o q)
<1>1. p \in Seq(PlanRow) /\ q \in Seq(PlanRow)
  BY DEF GoodPlan
<1>. DEFINE pq == p \o q
<1>2. /\ pq \in Seq(PlanRow)
      /\ Len(p) \in Nat /\ Len(q) \in Nat
      /\ DOMAIN pq = 1 .. Len(p) + Len(q)
      /\ DOMAIN p = 1 .. Len(p) /\ DOMAIN q = 1 .. Len(q)
      /\ \A i \in 1 .. Len(p) : pq[i] = p[i]
      /\ \A i \in 1 .. Len(q) : pq[Len(p) + i] = q[i]
  BY <1>1
<1>. HIDE DEF pq
<1>3. ASSUME NEW t \in DOMAIN pq PROVE \E u \in DOMAIN pq : pq[u].route = pq[t].route /\ ~pq[u].is_warmup
  <2>1. CASE t \in 1 .. Len(p)
    <3>1. PICK u \in DOMAIN p : p[u].route = p[t].route /\ ~p[u].is_warmup
      BY <1>2, <2>1, Zenon DEF GoodPlan, Covered
    <3>2. u \in DOMAIN pq /\ pq[u] = p[u] /\ pq[t] = p[t]
      BY <1>2, <2>1
    <3>. QED BY <3>1, <3>2, Zenon
  <2>2. CASE t \notin 1 .. Len(p)
    <3>1. t - Len(p) \in 1 .. Len(q) /\ t = Len(p) + (t - Len(p))
      BY <1>2, <2>2
    <3>2. PICK u \in DOMAIN q : q[u].route = q[t - Len(p)].route /\ ~q[u].is_warmup
      BY <1>2, <3>1, Zenon DEF GoodPlan, Covered
    <3>3. Len(p) + u \in DOMAIN pq /\ pq[Len(p) + u] = q[u] /\ pq[t] = q[t - Len(p)]
      BY <1>2, <3>1
    <3>. QED BY <3>2, <3>3, Zenon
  <2>. QED BY <2>1, <2>2
<1>. QED BY <1>2, <1>3, Zenon DEF GoodPlan, Covered, pq

\* A list of one or two plans.
LEMMA PlansFlatten ==
    ASSUME NEW n \in {1, 2}, NEW plans, DOMAIN plans = 1 .. n, Len(plans) = n,
           \A i \in 1 .. n : GoodPlan(plans[i])
    PROVE  GoodPlan(FlattenSeq(plans))
<1>. DEFINE Is(f) == f = [i \in 1 .. Len(plans) |-> IF i = 1 THEN plans[i] ELSE f[i - 1] \o plans[i]]
            g == CHOOSE f : Is(f)
            h == [i \in 1 .. n |-> IF i = 1 THEN plans[1] ELSE plans[1] \o plans[2]]
<1>1. Is(h)
  <2>1. h = [i \in 1 .. n |-> IF i = 1 THEN plans[i] ELSE h[i - 1] \o plans[i]]
    <3>1. ASSUME NEW i \in 1 .. n
          PROVE  h[i] = IF i = 1 THEN plans[i] ELSE h[i - 1] \o plans[i]
      <4>1. (i = 1 /\ h[i] = plans[1]) \/ (i = 2 /\ h[i] = plans[1] \o plans[2] /\ h[i - 1] = plans[1])
        <5>1. i = 1 \/ (i = 2 /\ i # 1 /\ i - 1 = 1 /\ 1 \in 1 .. n)
          OBVIOUS
        <5>. QED BY <5>1, Zenon
      <4>. QED BY <4>1, Zenon
    <3>. QED BY <3>1, Zenon
  <2>. QED BY <2>1, Zenon
<1>2. Is(g)
  <2>1. \E f : Is(f)
    BY <1>1, Zenon
  <2>. HIDE DEF Is
  <2>. QED BY <2>1, Zenon
<1>3. FlattenSeq(plans) = g[n]
  <2>1. Len(plans) # 0
    OBVIOUS
  <2>. QED BY <2>1, Zenon DEF FlattenSeq
<1>. HIDE DEF g, h
<1>4. CASE n = 1
  <2>1. g[1] = plans[1] /\ 1 \in 1 .. 1
    BY <1>2, <1>4
  <2>. QED BY <1>3, <1>4, <2>1, Zenon
<1>5. CASE n = 2
  <2>1. g[1] = plans[1] /\ g[2] = g[1] \o plans[2] /\ 1 \in 1 .. 2 /\ 2 \in 1 .. 2
    BY <1>2, <1>5
  <2>. QED BY <1>3, <1>5, <2>1, PlansConcatenate, Zenon
<1>. QED BY <1>4, <1>5

LEMMA Compares == ASSUME NEW a \in Int, NEW b \in Int PROVE (a <= b) \in BOOLEAN
BY SMT

LEMMA PlanRowTyped ==
    ASSUME NEW route \in Nat, NEW path \in {"gateway", "direct"}, NEW a \in Int, NEW b \in Int,
           NEW x, x = [route |-> route, path |-> path, is_warmup |-> a <= b]
    PROVE  x \in PlanRow /\ x.route = route /\ (x.is_warmup <=> a <= b)
<1>1. x \in PlanRow
  BY Compares, Zenon DEF PlanRow
<1>2. x.route = route /\ (x.is_warmup <=> a <= b)
  BY Zenon
<1>. QED BY <1>1, <1>2, Zenon

LEMMA PlansAreGood ==
    ASSUME NEW routes \in {<< 1 >>, <<1, 2>>}, NEW warmup \in {0, 1}, NEW iterations \in {1, 2},
           NEW paths \in {<<"direct">>, <<"gateway">>, <<"gateway", "direct">>}
    PROVE  GoodPlan(buildBenchTasks(routes, paths, warmup, iterations))
<1>. DEFINE requests(route, path) ==
              [i \in 1 .. warmup + iterations |-> [route |-> route, path |-> path, is_warmup |-> i <= warmup]]
            onPaths(route) == FlattenSeq([i \in DOMAIN paths |-> requests(route, paths[i])])
            all == [i \in DOMAIN routes |-> onPaths(routes[i])]
<1>1. ASSUME NEW route \in {1, 2}, NEW path \in {"gateway", "direct"} PROVE GoodPlan(requests(route, path))
  <2>. DEFINE p == requests(route, path)
              last == warmup + iterations
  <2>1. /\ last \in Nat /\ last \in 1 .. last /\ ~(last <= warmup)
    OBVIOUS
  <2>2. ASSUME NEW i \in 1 .. last
        PROVE  p[i] \in PlanRow /\ p[i].route = route /\ (p[i].is_warmup <=> i <= warmup)
    <3>1. route \in Nat /\ i \in Int /\ warmup \in Int
      OBVIOUS
    <3>2. p[i] = [route |-> route, path |-> path, is_warmup |-> i <= warmup]
      BY <2>2, Zenon
    <3>. HIDE DEF p
    <3>3. p[i] \in PlanRow /\ p[i].route = route /\ (p[i].is_warmup <=> i <= warmup)
      <4>. DEFINE x == p[i]
      <4>1. x = [route |-> route, path |-> path, is_warmup |-> i <= warmup]
        BY <3>2, Zenon
      <4>. HIDE DEF x
      <4>2. x \in PlanRow /\ x.route = route /\ (x.is_warmup <=> i <= warmup)
        BY <3>1, <4>1, PlanRowTyped
      <4>. QED BY <4>2, Zenon DEF x
    <3>. QED BY <3>3
  <2>3. p \in Seq(PlanRow) /\ DOMAIN p = 1 .. last
    BY <2>1, <2>2
  <2>4. Covered(p)
    BY <2>1, <2>2, <2>3, Zenon DEF Covered
  <2>. QED BY <2>3, <2>4, Zenon DEF GoodPlan
<1>. HIDE DEF requests
<1>2. ASSUME NEW route \in {1, 2} PROVE GoodPlan(onPaths(route))
  <2>. DEFINE plans == [i \in DOMAIN paths |-> requests(route, paths[i])]
  <2>1. PICK n \in {1, 2} : DOMAIN paths = 1 .. n /\ \A i \in 1 .. n : paths[i] \in {"gateway", "direct"}
    <3>1. CASE paths = <<"gateway", "direct">>
      <4>1. DOMAIN paths = 1 .. 2 /\ \A i \in 1 .. 2 : paths[i] \in {"gateway", "direct"}
        BY <3>1
      <4>. QED BY <4>1, Zenon
    <3>2. CASE paths # <<"gateway", "direct">>
      <4>1. DOMAIN paths = 1 .. 1 /\ \A i \in 1 .. 1 : paths[i] \in {"gateway", "direct"}
        BY <3>2
      <4>. QED BY <4>1, Zenon
    <3>. QED BY <3>1, <3>2
  <2>2. DOMAIN plans = 1 .. n /\ Len(plans) = n /\ \A i \in 1 .. n : plans[i] = requests(route, paths[i])
    BY <2>1
  <2>3. \A i \in 1 .. n : GoodPlan(plans[i])
    BY <1>1, <2>1, <2>2, Zenon
  <2>. HIDE DEF plans
  <2>4. GoodPlan(FlattenSeq(plans))
    BY <2>2, <2>3, PlansFlatten, Zenon
  <2>. QED BY <2>4, Zenon DEF plans
<1>. HIDE DEF onPaths
<1>3. GoodPlan(FlattenSeq(all))
  <2>1. PICK n \in {1, 2} : DOMAIN routes = 1 .. n /\ \A i \in 1 .. n : routes[i] \in {1, 2}
    OBVIOUS
  <2>2. DOMAIN all = 1 .. n /\ Len(all) = n /\ \A i \in 1 .. n : all[i] = onPaths(routes[i])
    BY <2>1
  <2>3. \A i \in 1 .. n : GoodPlan(all[i])
    BY <1>2, <2>1, <2>2, Zenon
  <2>. HIDE DEF all
  <2>. QED BY <2>2, <2>3, PlansFlatten, Zenon
<1>. QED BY <1>3, Zenon DEF buildBenchTasks, onPaths, requests

\* The requests only the benchmark makes.
OfBench == {r \in Requests : r <= GatewayTasks \/ r > RequestCount}

-----------------------------------------------------------------------------
(***************************************************************************)
(* Every variable keeps its type.                                          *)
(***************************************************************************)
LEMMA NoSampleTyped == NoSample \in Sample /\ NoSample.execution \notin Requests /\ Null \in Nat
<1>1. Null \in Nat
  BY TraceStoreAssumption DEF Null
<1>2. 0 \notin Requests
  BY TraceStoreAssumption DEF Requests
<1>. QED BY <1>1, <1>2 DEF NoSample, Sample, Outcomes

LEMMA EventsTyped ==
    /\ Len(Events) = 3
    /\ \A k \in 1 .. 3 : Events[k] \in {"request_received", "client_response_completed", "debug_error_context"}
BY DEF Events, Milestones

LEMMA SyntheticTyped ==
    ASSUME NEW t \in Tasks, NEW a \in {1, 2}
    PROVE  Synthetic(t, a) \in Requests /\ Synthetic(t, a) \in OfBench
<1>1. Synthetic(t, a) \in Requests /\ Synthetic(t, a) > RequestCount
  BY TraceStoreAssumption DEF Synthetic, Requests, Tasks
<1>. QED BY <1>1, Zenon DEF OfBench

LEMMA SampleTyped ==
    ASSUME NEW r \in Requests, executions[r] \in Summary
    PROVE  SampleOf(r) \in Sample /\ SampleOf(r).execution = r
<1>1. Latency(executions[r]) \in Int
  BY NoSampleTyped DEF Latency, Summary
<1>2. executions[r].outcome \in Outcomes
  BY DEF Summary
<1>3. r \in Nat
  BY TraceStoreAssumption DEF Requests
<1>4. SampleOf(r) = [execution |-> r, outcome |-> executions[r].outcome, latency |-> Latency(executions[r])]
  BY Zenon DEF SampleOf
<1>. DEFINE o == executions[r].outcome
            l == Latency(executions[r])
<1>5. o \in Outcomes /\ l \in Int /\ SampleOf(r) = [execution |-> r, outcome |-> o, latency |-> l]
  BY <1>1, <1>2, <1>4, Zenon
<1>. HIDE DEF o, l
<1>. QED BY <1>3, <1>5 DEF Sample

LEMMA SamplesTyped ==
    ASSUME StoreTyped, NEW kept, NEW b, NEW s, s = SamplesOf(kept, b)
    PROVE  /\ s \in [Tasks -> Sample]
           /\ \A t \in Tasks : s[t] # NoSample =>
                /\ b /\ s[t] = samples[t] /\ samples[t] # NoSample
                /\ s[t].execution \in Requests /\ kept[samples[t].execution] # NoExecution
           /\ \A t \in Tasks : b /\ samples[t] # NoSample /\ kept[samples[t].execution] # NoExecution =>
                s[t] = samples[t]
<1>1. \A t \in Tasks : s[t] = IF b /\ samples[t] # NoSample /\ kept[samples[t].execution] # NoExecution
                             THEN samples[t] ELSE NoSample
  BY Zenon DEF SamplesOf
<1>2. DOMAIN s = Tasks /\ s = [t \in Tasks |-> s[t]]
  BY Zenon DEF SamplesOf
<1>3. \A t \in Tasks : samples[t] \in Sample /\ (samples[t] # NoSample => samples[t].execution \in Requests)
  BY Zenon DEF StoreTyped
<1>4. ASSUME NEW t \in Tasks
      PROVE  /\ s[t] \in Sample
             /\ s[t] # NoSample =>
                  /\ b /\ s[t] = samples[t] /\ samples[t] # NoSample
                  /\ s[t].execution \in Requests /\ kept[samples[t].execution] # NoExecution
  <2>1. CASE b /\ samples[t] # NoSample /\ kept[samples[t].execution] # NoExecution
    <3>1. s[t] = samples[t]
      BY <1>1, <2>1, Zenon
    <3>. QED BY <1>3, <2>1, <3>1, Zenon
  <2>2. CASE ~(b /\ samples[t] # NoSample /\ kept[samples[t].execution] # NoExecution)
    <3>1. s[t] = NoSample
      BY <1>1, <2>2, Zenon
    <3>. QED BY <3>1, NoSampleTyped, Zenon
  <2>. QED BY <2>1, <2>2
<1>5. s \in [Tasks -> Sample]
  BY <1>2, <1>4, Zenon
<1>. QED BY <1>1, <1>4, <1>5, Zenon

LEMMA RecordTyped ==
    ASSUME StoreTyped, NEW r \in Requests, NEW rows \in Seq(Row), rows # <<>>, recordIncremental(r, rows)
    PROVE  /\ observations' \in [Requests -> Seq(Row)]
           /\ executions' \in [Requests -> Summaries]
           /\ observations'[r] = observations[r] \o rows
           /\ executions'[r] \in Summary
           /\ executions'[r].started_at = IF executions[r] = NoExecution THEN rows[1].at ELSE executions[r].started_at
           /\ \A q \in Requests \ {r} : observations'[q] = observations[q] /\ executions'[q] = executions[q]
           /\ changed' = TRUE /\ untouched' = untouched \ {r}
<1>1. /\ executions' = [executions EXCEPT ![r] = Summarised(executions[r], rows)]
      /\ observations' = [observations EXCEPT ![r] = observations[r] \o rows]
      /\ changed' = TRUE /\ untouched' = untouched \ {r}
  BY Zenon DEF recordIncremental, Summarised, Committed
<1>2. executions[r] \in Summaries /\ observations[r] \in Seq(Row)
  BY DEF StoreTyped
<1>3. /\ Summarised(executions[r], rows) \in Summary
      /\ Summarised(executions[r], rows).started_at =
           IF executions[r] = NoExecution THEN rows[1].at ELSE executions[r].started_at
  BY <1>2, FoldTyped, Zenon
<1>4. observations[r] \o rows \in Seq(Row)
  BY <1>2
<1>. DEFINE y == Summarised(executions[r], rows)
            s == observations[r] \o rows
<1>5. y \in Summaries /\ s \in Seq(Row)
  BY <1>3, <1>4, Zenon DEF Summaries
<1>. HIDE DEF y, s
<1>6. executions' = [executions EXCEPT ![r] = y] /\ observations' = [observations EXCEPT ![r] = s]
  BY <1>1, Zenon DEF y, s
<1>7. executions \in [Requests -> Summaries] /\ observations \in [Requests -> Seq(Row)]
  BY Zenon DEF StoreTyped
<1>8. /\ executions' \in [Requests -> Summaries] /\ observations' \in [Requests -> Seq(Row)]
      /\ executions'[r] = y /\ observations'[r] = s
      /\ \A q \in Requests \ {r} : observations'[q] = observations[q] /\ executions'[q] = executions[q]
  BY <1>5, <1>6, <1>7, Zenon
<1>. QED BY <1>1, <1>3, <1>8, Zenon DEF y, s

LEMMA TypedInit == ASSUME ControlInit PROVE Typed
<1>1. StoreTyped
  <2>1. \A r \in Requests : <<>> \in Seq(Row)
    OBVIOUS
  <2>2. NoExecution \in Summaries
    BY DEF Summaries
  <2>3. samples \in [Tasks -> Sample] /\ \A t \in Tasks : samples[t] = NoSample
    BY NoSampleTyped, Zenon DEF ControlInit, Init
  <2>4. run \in [status : Statuses, created_at : Nat]
    BY DEF ControlInit, Init, Statuses
  <2>5. emitted \in [GatewayRequests -> [rank : 0 .. 3, at : Nat]]
    BY DEF ControlInit, Init
  <2>. QED BY <2>1, <2>2, <2>3, <2>4, <2>5 DEF ControlInit, Init, StoreTyped
<1>2. ScanTyped
  <2>1. <<>> \in [{} -> Summaries] /\ DOMAIN <<>> = {}
    OBVIOUS
  <2>2. {} \in SUBSET Requests
    OBVIOUS
  <2>3. <<>> \in Repairs
    BY <2>1, <2>2, Zenon DEF Repairs
  <2>. QED BY <2>1, <2>3 DEF ControlInit, InitScan, NoScan, Scan, ScanTyped
<1>3. BenchTyped
  <2>1. Idle \in Task /\ Idle.step = "unplanned"
    BY NoSampleTyped DEF Idle, Task, Steps, TerminalOutcomes
  <2>2. tasks \in [Tasks -> Task] /\ \A t \in Tasks : tasks[t].step # "sampling"
    BY <2>1 DEF ControlInit, InitBench
  <2>3. <<>> \in Seq(PlanRow) /\ DOMAIN <<>> = {}
    OBVIOUS
  <2>. QED BY <2>2, <2>3 DEF ControlInit, InitBench, BenchTyped, Benches, Phases
<1>. QED BY <1>1, <1>2, <1>3 DEF Typed

-----------------------------------------------------------------------------
(***************************************************************************)
(* What the steps do to the rows and the summaries.                        *)
(***************************************************************************)
\* Rows from a time on are added to those of a request; its summary is kept, follows
\* or is built anew.
Grows(r, from) ==
    /\ observations' \in [Requests -> Seq(Row)]
    /\ executions' \in [Requests -> Summaries]
    /\ DOMAIN observations[r] \subseteq DOMAIN observations'[r]
    /\ \A i \in DOMAIN observations[r] : observations'[r][i] = observations[r][i]
    /\ \A i \in DOMAIN observations'[r] \ DOMAIN observations[r] : observations'[r][i].at >= from
    /\ executions[r] # NoExecution => executions'[r] # NoExecution
    /\ executions'[r] # NoExecution =>
         \/ executions[r] # NoExecution /\ executions'[r].started_at = executions[r].started_at
         \/ \E i \in DOMAIN observations'[r] : observations'[r][i].at = executions'[r].started_at
    /\ \A q \in Requests \ {r} : observations'[q] = observations[q] /\ executions'[q] = executions[q]
    /\ changed' = TRUE /\ untouched' = untouched \ {r}

LEMMA Concatenates ==
    ASSUME NEW s \in Seq(Row), NEW rows \in Seq(Row)
    PROVE  /\ s \o rows \in Seq(Row)
           /\ DOMAIN s \subseteq DOMAIN (s \o rows)
           /\ \A i \in DOMAIN s : (s \o rows)[i] = s[i]
           /\ \A i \in DOMAIN (s \o rows) \ DOMAIN s : \E k \in DOMAIN rows : (s \o rows)[i] = rows[k]
           /\ \A k \in DOMAIN rows : Len(s) + k \in DOMAIN (s \o rows) /\ (s \o rows)[Len(s) + k] = rows[k]
<1>1. /\ s \o rows \in Seq(Row) /\ Len(s) \in Nat /\ Len(rows) \in Nat
      /\ DOMAIN s = 1 .. Len(s) /\ DOMAIN rows = 1 .. Len(rows) /\ DOMAIN (s \o rows) = 1 .. Len(s) + Len(rows)
      /\ \A i \in 1 .. Len(s) : (s \o rows)[i] = s[i]
      /\ \A k \in 1 .. Len(rows) : (s \o rows)[Len(s) + k] = rows[k]
  OBVIOUS
<1>. DEFINE c == s \o rows
<1>. HIDE DEF c
<1>2. ASSUME NEW i \in DOMAIN c \ DOMAIN s PROVE \E k \in DOMAIN rows : c[i] = rows[k]
  <2>1. i - Len(s) \in 1 .. Len(rows) /\ Len(s) + (i - Len(s)) = i
    BY <1>1, <1>2 DEF c
  <2>2. c[i] = rows[i - Len(s)]
    <3>1. c[Len(s) + (i - Len(s))] = rows[i - Len(s)]
      BY <1>1, <2>1, Zenon DEF c
    <3>. QED BY <2>1, <3>1
  <2>. QED BY <1>1, <2>1, <2>2, Zenon
<1>3. DOMAIN s \subseteq DOMAIN c /\ \A k \in DOMAIN rows : Len(s) + k \in DOMAIN c
  BY <1>1 DEF c
<1>. QED BY <1>1, <1>2, <1>3, Zenon DEF c

LEMMA RecordGrows ==
    ASSUME StoreTyped, NEW r \in Requests, NEW rows \in Seq(Row), rows # <<>>, recordIncremental(r, rows),
           NEW from, \A k \in DOMAIN rows : rows[k].at >= from
    PROVE  Grows(r, from)
<1>. DEFINE s == observations[r]
            c == s \o rows
<1>1. /\ observations' \in [Requests -> Seq(Row)] /\ executions' \in [Requests -> Summaries]
      /\ observations'[r] = c
      /\ executions'[r] \in Summary
      /\ executions'[r].started_at = IF executions[r] = NoExecution THEN rows[1].at ELSE executions[r].started_at
      /\ \A q \in Requests \ {r} : observations'[q] = observations[q] /\ executions'[q] = executions[q]
      /\ changed' = TRUE /\ untouched' = untouched \ {r}
  BY RecordTyped, Zenon
<1>2. s \in Seq(Row) /\ 1 \in DOMAIN rows
  BY DEF StoreTyped
<1>. HIDE DEF s
<1>3. /\ c \in Seq(Row) /\ DOMAIN s \subseteq DOMAIN c
      /\ \A i \in DOMAIN s : c[i] = s[i]
      /\ \A i \in DOMAIN c \ DOMAIN s : \E k \in DOMAIN rows : c[i] = rows[k]
      /\ Len(s) + 1 \in DOMAIN c /\ c[Len(s) + 1] = rows[1]
  BY <1>2, Concatenates, Zenon
<1>. HIDE DEF c
<1>4. \A i \in DOMAIN c \ DOMAIN s : c[i].at >= from
  BY <1>3, Zenon
<1>5. \/ executions[r] # NoExecution /\ executions'[r].started_at = executions[r].started_at
      \/ \E i \in DOMAIN c : c[i].at = executions'[r].started_at
  BY <1>1, <1>3, Zenon
<1>6. executions'[r] # NoExecution
  BY <1>1, SummaryIsOne, Zenon
<1>. QED BY <1>1, <1>3, <1>4, <1>5, <1>6, Zenon DEF Grows, s

LEMMA ObserveGrows ==
    ASSUME StoreTyped, NEW r \in GatewayRequests, recordTerminalOnly(r)
    PROVE  /\ Grows(r, emitted'[r].at)
           /\ emitted' \in [GatewayRequests -> [rank : 0 .. 3, at : Nat]]
           /\ UNCHANGED <<now, run, samples, deletions, cast>>
<1>. DEFINE row(rank, at) == Observation(Events[rank], at, IF rank = Len(Events) THEN "failed" ELSE "none")
<1>1. PICK rank \in emitted[r].rank + 1 .. Len(Events), at \in emitted[r].at .. now :
        /\ emitted' = [emitted EXCEPT ![r] = [rank |-> rank, at |-> at]]
        /\ observations' = [observations EXCEPT ![r] = Append(observations[r], row(rank, at))]
        /\ executions' = [executions EXCEPT ![r] =
              IF isTerminalRequestObservation(row(rank, at))
              THEN buildFromObservations(Append(observations[r], row(rank, at))) ELSE executions[r]]
        /\ changed' = TRUE /\ untouched' = untouched \ {r}
        /\ UNCHANGED <<now, run, samples, deletions, cast>>
  BY Zenon DEF recordTerminalOnly, Committed
<1>2. emitted[r].rank \in 0 .. 3 /\ emitted[r].at \in Nat /\ now \in Nat
  BY DEF StoreTyped
<1>3. rank \in 1 .. 3 /\ rank \in 0 .. 3 /\ at \in Nat
  BY <1>2, EventsTyped
<1>. DEFINE o == row(rank, at)
            s == observations[r]
            c == Append(s, o)
            y == IF isTerminalRequestObservation(o) THEN buildFromObservations(c) ELSE executions[r]
<1>4. o \in Row /\ o.at = at
  BY <1>3, EventsTyped DEF Observation, Row, Outcomes, TerminalOutcomes
<1>5. r \in Requests
  BY TraceStoreAssumption DEF GatewayRequests, Requests
<1>6. /\ executions \in [Requests -> Summaries] /\ observations \in [Requests -> Seq(Row)] /\ s \in Seq(Row)
      /\ emitted \in [GatewayRequests -> [rank : 0 .. 3, at : Nat]]
  BY <1>5, Zenon DEF StoreTyped
<1>. HIDE DEF o, s
<1>7. /\ c \in Seq(Row) /\ c # <<>> /\ Len(s) + 1 \in DOMAIN c
      /\ DOMAIN s \subseteq DOMAIN c
      /\ \A i \in DOMAIN s : c[i] = s[i]
      /\ \A i \in DOMAIN c \ DOMAIN s : c[i] = o
      /\ 1 \in DOMAIN c
  BY <1>4, <1>6
<1>. HIDE DEF c
<1>8. /\ y \in Summaries
      /\ executions[r] # NoExecution => y # NoExecution
      /\ y # NoExecution => \/ executions[r] # NoExecution /\ y.started_at = executions[r].started_at
                            \/ \E i \in DOMAIN c : c[i].at = y.started_at
  <2>1. CASE isTerminalRequestObservation(o)
    <3>1. y \in Summary /\ y.started_at = c[1].at
      BY <1>7, <2>1, BuildTyped, Zenon
    <3>2. y \in Summaries /\ y # NoExecution
      BY <3>1, SummaryIsOne, Zenon DEF Summaries
    <3>. HIDE DEF y
    <3>. QED BY <1>7, <3>1, <3>2, Zenon
  <2>2. CASE ~isTerminalRequestObservation(o)
    <3>1. y = executions[r] /\ executions[r] \in Summaries
      BY <1>5, <1>6, <2>2, Zenon
    <3>. HIDE DEF y
    <3>. QED BY <3>1, Zenon
  <2>. QED BY <2>1, <2>2
<1>9. /\ emitted' = [emitted EXCEPT ![r] = [rank |-> rank, at |-> at]]
      /\ observations' = [observations EXCEPT ![r] = c]
      /\ executions' = [executions EXCEPT ![r] = y]
      /\ changed' = TRUE /\ untouched' = untouched \ {r}
      /\ UNCHANGED <<now, run, samples, deletions, cast>>
  BY <1>1, Zenon DEF o, s, c
<1>. HIDE DEF y
<1>10. /\ observations' \in [Requests -> Seq(Row)] /\ executions' \in [Requests -> Summaries]
       /\ observations'[r] = c /\ executions'[r] = y
       /\ \A q \in Requests \ {r} : observations'[q] = observations[q] /\ executions'[q] = executions[q]
  BY <1>5, <1>6, <1>7, <1>8, <1>9, Zenon
<1>11. emitted'[r].at = at /\ emitted' \in [GatewayRequests -> [rank : 0 .. 3, at : Nat]]
  BY <1>3, <1>6, <1>9
<1>12. \A i \in DOMAIN c \ DOMAIN s : c[i].at >= at
  BY <1>3, <1>4, <1>7
<1>13. Grows(r, emitted'[r].at)
  BY <1>7, <1>8, <1>9, <1>10, <1>11, <1>12, Zenon DEF Grows, s
<1>. QED BY <1>9, <1>11, <1>13, Zenon

LEMMA TaskGrows ==
    ASSUME StoreTyped, BenchTyped, NEW t \in Tasks
    PROVE  /\ RecordStart(t) => Grows(Synthetic(t, tasks[t].attempt), tasks[t].started)
           /\ RecordCompletion(t) => Grows(Synthetic(t, tasks[t].attempt), tasks[t].completed)
<1>. DEFINE k == tasks[t]
            r == Synthetic(t, k.attempt)
            row(event) == Observation(event, k.completed, k.outcome)
            first == <<Observation("request_received", k.started, "started")>>
            last == <<row("client_response_completed")>>
                      \o (IF k.outcome = "succeeded" THEN <<>> ELSE <<row("debug_error_context")>>)
<1>1. k.attempt \in {1, 2} /\ k.started \in Nat /\ k.completed \in Nat /\ k.outcome \in TerminalOutcomes
  BY DEF BenchTyped, Task
<1>2. r \in Requests
  BY <1>1, SyntheticTyped, Zenon
<1>3. first \in Seq(Row) /\ first # <<>> /\ \A i \in DOMAIN first : first[i].at >= k.started
  BY <1>1 DEF Row, Observation, Outcomes, TerminalOutcomes
<1>4. last \in Seq(Row) /\ last # <<>> /\ \A i \in DOMAIN last : last[i].at >= k.completed
  <2>. DEFINE a == row("client_response_completed")
              b == row("debug_error_context")
  <2>1. a \in Row /\ b \in Row /\ a.at = k.completed /\ b.at = k.completed
    BY <1>1 DEF Row, Observation, Outcomes
  <2>. HIDE DEF a, b, row
  <2>2. CASE k.outcome = "succeeded"
    <3>0. last = <<a>> \o <<>>
      BY <2>2, Zenon DEF a
    <3>. HIDE DEF last
    <3>1. last = <<a>>
      BY <3>0
    <3>. QED BY <1>1, <2>1, <3>1
  <2>3. CASE k.outcome # "succeeded"
    <3>0. last = <<a>> \o <<b>>
      BY <2>3, Zenon DEF a, b
    <3>. HIDE DEF last
    <3>. DEFINE sa == <<a>>
                sb == <<b>>
    <3>1. /\ sa \in Seq(Row) /\ sb \in Seq(Row) /\ DOMAIN sa = {1} /\ DOMAIN sb = {1}
          /\ sa[1] = a /\ sb[1] = b /\ last = sa \o sb
      BY <2>1, <3>0
    <3>. HIDE DEF sa, sb
    <3>2. /\ last \in Seq(Row) /\ 1 \in DOMAIN last
          /\ \A i \in DOMAIN last : last[i] = a \/ last[i] = b
      <4>. DEFINE c == sa \o sb
      <4>1. /\ c \in Seq(Row) /\ DOMAIN sa \subseteq DOMAIN c
            /\ \A i \in DOMAIN sa : c[i] = sa[i]
            /\ \A i \in DOMAIN c \ DOMAIN sa : \E n \in DOMAIN sb : c[i] = sb[n]
        BY <3>1, Concatenates, Zenon
      <4>2. last = c
        BY <3>1, Zenon
      <4>. HIDE DEF c
      <4>3. 1 \in DOMAIN c
        BY <3>1, <4>1, Zenon
      <4>4. ASSUME NEW i \in DOMAIN c PROVE c[i] = a \/ c[i] = b
        BY <3>1, <4>1, Zenon
      <4>. QED BY <4>1, <4>2, <4>3, <4>4, Zenon
    <3>3. last # <<>>
      BY <3>2
    <3>. QED BY <1>1, <2>1, <3>2, <3>3
  <2>. QED BY <2>2, <2>3
<1>5. RecordStart(t) => recordIncremental(r, first)
  BY Zenon DEF RecordStart
<1>6. RecordCompletion(t) => recordIncremental(r, last)
  BY Zenon DEF RecordCompletion
<1>. HIDE DEF first, last, r
<1>7. RecordStart(t) => Grows(r, k.started)
  BY <1>2, <1>3, <1>5, RecordGrows, Zenon
<1>8. RecordCompletion(t) => Grows(r, k.completed)
  BY <1>2, <1>4, <1>6, RecordGrows, Zenon
<1>. QED BY <1>7, <1>8, Zenon DEF r

-----------------------------------------------------------------------------
(***************************************************************************)
(* What a step of a task does, to the task x it makes of t.                *)
(***************************************************************************)
BenchStays == bench' = bench \/ bench' = [bench EXCEPT !.busy = bench.busy + 1]

\* What the store has after it.
TaskStores(t, x) ==
    \/ UNCHANGED storeVars /\ x.step # "sampled"
    \/ /\ \/ x.step = "completing" /\ Grows(Synthetic(t, tasks[t].attempt), tasks[t].started)
          \/ x.step = "reading" /\ Grows(Synthetic(t, tasks[t].attempt), tasks[t].completed)
       /\ UNCHANGED <<now, emitted, run, samples, deletions, cast>>
    \/ /\ x.step = "sampled"
       /\ run.status # "none" /\ executions[tasks[t].sample.execution] # NoExecution
       /\ samples' = [samples EXCEPT ![t] = tasks[t].sample]
       /\ changed' = TRUE /\ untouched' = untouched
       /\ UNCHANGED <<now, emitted, observations, executions, run, deletions, cast>>

TaskGoes(t, x) ==
    /\ tasks[t].step \in {"fetching", "polling"} \cup Recording
    /\ x.step \in {"polling", "sampled", "rejected"} \cup Recording
    /\ x.step = "polling" => tasks[t].step = "fetching" /\ PathOf(t) = "gateway"
    /\ x.step = "completing" => tasks[t].step = "recording" /\ ~bench.closed
    /\ x.step = "reading" => tasks[t].step = "completing"
    /\ x.step \in {"polling", "recording", "completing", "reading"} =>
         x.started = tasks[t].started /\ tasks[t].step # "sampling"
    /\ x.step \in {"polling", "recording", "completing"} =>
         \/ x.completed = now
         \/ x.completed = tasks[t].completed /\ tasks[t].step \in {"polling", "recording"}
    /\ x.step = "sampling" =>
         \/ /\ tasks[t].step = "polling" /\ ~Aborted
            /\ executions[t] # NoExecution /\ x.sample = SampleOf(t)
         \/ /\ tasks[t].step = "reading"
            /\ executions[Synthetic(t, tasks[t].attempt)] # NoExecution
            /\ x.sample = SampleOf(Synthetic(t, tasks[t].attempt))
    /\ x.step = "sampled" => tasks[t].step = "sampling" /\ x.sample = tasks[t].sample
    /\ TaskStores(t, x)
    /\ BenchStays

LEMMA TaskMoves ==
    ASSUME StoreTyped, BenchTyped, NEW t \in Tasks, TaskStep(t)
    PROVE  \E x \in Task : tasks' = [tasks EXCEPT ![t] = x] /\ TaskGoes(t, x)
<1>. DEFINE k == tasks[t]
<1>1. k \in Task /\ now \in Nat
  BY DEF BenchTyped, StoreTyped
<1>2. t \in Requests
  BY TraceStoreAssumption DEF Tasks, Requests
<1>3. k.attempt \in {1, 2} /\ Synthetic(t, k.attempt) \in Requests
  <2>1. k.attempt \in {1, 2}
    BY <1>1 DEF Task
  <2>. QED BY <2>1, SyntheticTyped, Zenon
<1>4. \A r \in Requests : executions[r] # NoExecution => SampleOf(r) \in Sample
  BY SampleTyped, Zenon DEF StoreTyped, Summaries
<1>5. Idle \in Task
  BY NoSampleTyped DEF Idle, Task, Steps, TerminalOutcomes
<1>. USE DEF TaskGoes, TaskStores, BenchStays, Recording
<1>6. CASE FetchEnds(t)
  <2>1. PICK outcome \in {"succeeded", "failed"},
             step \in {"recording"} \cup (IF PathOf(t) = "gateway" THEN {"polling"} ELSE {}) :
          tasks' = [tasks EXCEPT ![t] = [k EXCEPT !.step = step, !.completed = now, !.outcome = outcome]]
    BY <1>6, Zenon DEF FetchEnds
  <2>. DEFINE x == [k EXCEPT !.step = step, !.completed = now, !.outcome = outcome]
  <2>2. step = "recording" \/ (step = "polling" /\ PathOf(t) = "gateway")
    BY Zenon
  <2>3. x \in Task /\ x.step = step /\ x.completed = now /\ x.started = k.started
    BY <1>1, <2>2 DEF Task, Steps, TerminalOutcomes
  <2>4. k.step = "fetching" /\ UNCHANGED <<storeVars, bench>> /\ tasks' = [tasks EXCEPT ![t] = x]
    BY <1>6, <2>1, Zenon DEF FetchEnds
  <2>. HIDE DEF x
  <2>5. TaskGoes(t, x)
    BY <2>2, <2>3, <2>4
  <2>. QED BY <2>3, <2>4, <2>5, Zenon
<1>7. ASSUME NEW outcome \in TerminalOutcomes, Caught(t, outcome), UNCHANGED storeVars, BenchStays,
             k.step \in {"fetching", "polling", "recording", "completing", "reading"}
      PROVE  \E x \in Task : tasks' = [tasks EXCEPT ![t] = x] /\ TaskGoes(t, x)
  <2>. DEFINE x == [k EXCEPT !.step = "recording", !.attempt = 2, !.completed = now, !.outcome = outcome]
  <2>1. x \in Task /\ x.step = "recording" /\ x.completed = now /\ x.started = k.started
    BY <1>1 DEF Task, Steps
  <2>2. tasks' = [tasks EXCEPT ![t] = x]
    BY <1>7, Zenon DEF Caught
  <2>. HIDE DEF x
  <2>3. TaskGoes(t, x)
    BY <1>7, <2>1
  <2>. QED BY <2>1, <2>2, <2>3, Zenon
<1>8. ASSUME NEW r \in Requests, executions[r] # NoExecution, Found(t, r), UNCHANGED <<storeVars, bench>>,
             \/ k.step = "polling" /\ ~Aborted /\ r = t
             \/ k.step = "reading" /\ r = Synthetic(t, k.attempt)
      PROVE  \E x \in Task : tasks' = [tasks EXCEPT ![t] = x] /\ TaskGoes(t, x)
  <2>. DEFINE s == SampleOf(r)
              x == [k EXCEPT !.step = "sampling", !.sample = s]
  <2>0. s \in Sample
    BY <1>4, <1>8, Zenon
  <2>. HIDE DEF s
  <2>1. x \in Task /\ x.step = "sampling" /\ x.sample = s
    BY <1>1, <2>0 DEF Task, Steps
  <2>2. tasks' = [tasks EXCEPT ![t] = x]
    BY <1>8, Zenon DEF Found, s
  <2>. HIDE DEF x
  <2>3. TaskGoes(t, x)
    BY <1>8, <2>1, Zenon DEF s
  <2>. QED BY <2>1, <2>2, <2>3, Zenon
<1>9. ASSUME NEW step \in {"recording", "completing", "reading"}, Goes(t, step), BenchStays, TaskStores(t, [k EXCEPT !.step = step]),
             \/ step = "recording" /\ k.step = "polling"
             \/ step = "completing" /\ k.step = "recording" /\ ~bench.closed
             \/ step = "reading" /\ k.step = "completing"
      PROVE  \E x \in Task : tasks' = [tasks EXCEPT ![t] = x] /\ TaskGoes(t, x)
  <2>. DEFINE x == [k EXCEPT !.step = step]
  <2>1. x \in Task /\ x.step = step /\ x.started = k.started /\ x.completed = k.completed
    BY <1>1 DEF Task, Steps
  <2>2. tasks' = [tasks EXCEPT ![t] = x]
    BY <1>9, Zenon DEF Goes
  <2>3. TaskStores(t, x)
    BY <1>9, Zenon
  <2>. HIDE DEF x
  <2>4. TaskGoes(t, x)
    <3>. HIDE DEF TaskStores, BenchStays
    <3>. QED BY <1>9, <2>1, <2>3
  <2>. QED BY <2>1, <2>2, <2>4, Zenon
<1>10. ASSUME NEW step \in {"sampled", "rejected"}, Ends(t, step), BenchStays,
              k.step \in Recording, step = "sampled" => k.step = "sampling",
              \A x \in Task : x.step = step => TaskStores(t, x)
       PROVE  \E x \in Task : tasks' = [tasks EXCEPT ![t] = x] /\ TaskGoes(t, x)
  <2>. DEFINE x == [Idle EXCEPT !.step = step, !.sample = k.sample]
  <2>1. x \in Task /\ x.step = step /\ x.sample = k.sample
    BY <1>1, <1>5 DEF Task, Steps
  <2>2. tasks' = [tasks EXCEPT ![t] = x]
    BY <1>10, Zenon DEF Ends
  <2>. HIDE DEF x, TaskStores, BenchStays
  <2>3. TaskGoes(t, x)
    BY <1>10, <2>1
  <2>. QED BY <2>1, <2>2, <2>3, Zenon
<1>11. CASE FetchThrows(t)
  <2>1. PICK outcome \in {"failed", "cancelled"} : Caught(t, outcome)
    BY <1>11, Zenon DEF FetchThrows
  <2>2. outcome \in TerminalOutcomes /\ k.step = "fetching" /\ UNCHANGED storeVars /\ BenchStays
    BY <1>11, Zenon DEF FetchThrows, TerminalOutcomes
  <2>. QED BY <1>7, <2>1, <2>2, Zenon
<1>12. CASE Poll(t)
  <2>1. k.step = "polling" /\ UNCHANGED <<storeVars, bench>>
    BY <1>12, Zenon DEF Poll
  <2>2. CASE ~Aborted /\ executions[t] # NoExecution /\ Found(t, t)
    BY <1>2, <1>8, <2>1, <2>2, Zenon
  <2>3. CASE Goes(t, "recording")
    <3>1. BenchStays /\ TaskStores(t, [k EXCEPT !.step = "recording"])
      <4>1. [k EXCEPT !.step = "recording"].step = "recording"
        BY <1>1 DEF Task
      <4>. DEFINE x == [k EXCEPT !.step = "recording"]
      <4>. HIDE DEF x
      <4>2. x.step = "recording" => TaskStores(t, x)
        BY <2>1, Zenon
      <4>. QED BY <2>1, <4>1, <4>2, Zenon DEF x
    <3>. QED BY <1>9, <2>1, <2>3, <3>1, Zenon
  <2>4. CASE Caught(t, "cancelled")
    BY <1>7, <2>1, <2>4, Zenon DEF TerminalOutcomes
  <2>. QED BY <1>12, <2>2, <2>3, <2>4, Zenon DEF Poll
<1>13. CASE RecordStart(t)
  <2>1. /\ k.step = "recording" /\ ~bench.closed /\ Goes(t, "completing")
        /\ UNCHANGED <<now, emitted, run, samples, deletions, cast>> /\ BenchStays
    BY <1>13, Zenon DEF RecordStart
  <2>2. Grows(Synthetic(t, k.attempt), k.started)
    BY <1>13, TaskGrows, Zenon
  <2>3. TaskStores(t, [k EXCEPT !.step = "completing"])
    <3>1. [k EXCEPT !.step = "completing"].step = "completing"
      BY <1>1 DEF Task
    <3>. QED BY <2>1, <2>2, <3>1, Zenon
  <2>. QED BY <1>9, <2>1, <2>3, Zenon
<1>14. CASE RecordCompletion(t)
  <2>1. /\ k.step = "completing" /\ Goes(t, "reading")
        /\ UNCHANGED <<now, emitted, run, samples, deletions, cast>> /\ BenchStays
    BY <1>14, Zenon DEF RecordCompletion
  <2>2. Grows(Synthetic(t, k.attempt), k.completed)
    BY <1>14, TaskGrows, Zenon
  <2>3. TaskStores(t, [k EXCEPT !.step = "reading"])
    <3>1. [k EXCEPT !.step = "reading"].step = "reading"
      BY <1>1 DEF Task
    <3>. QED BY <2>1, <2>2, <3>1, Zenon
  <2>. QED BY <1>9, <2>1, <2>3, Zenon
<1>15. CASE ReadExecution(t)
  <2>1. k.step = "reading" /\ UNCHANGED <<storeVars, bench>>
    BY <1>15, Zenon DEF ReadExecution
  <2>2. CASE executions[Synthetic(t, k.attempt)] # NoExecution /\ Found(t, Synthetic(t, k.attempt))
    BY <1>3, <1>8, <2>1, <2>2, Zenon
  <2>3. CASE Caught(t, "failed")
    BY <1>7, <2>1, <2>3, Zenon DEF TerminalOutcomes
  <2>4. CASE Ends(t, "rejected")
    BY <1>10, <2>1, <2>4, Zenon
  <2>. QED BY <1>15, <2>2, <2>3, <2>4, Zenon DEF ReadExecution
<1>16. CASE insertSample(t)
  <2>1. k.step = "sampling" /\ UNCHANGED bench
    BY <1>16, Zenon DEF insertSample
  <2>2. CASE /\ run.status # "none" /\ executions[k.sample.execution] # NoExecution
             /\ samples' = [samples EXCEPT ![t] = k.sample]
             /\ Ends(t, "sampled") /\ Committed({})
             /\ UNCHANGED <<now, emitted, observations, executions, run, deletions, cast>>
    <3>1. changed' = TRUE /\ untouched' = untouched
      BY <2>2, Zenon DEF Committed
    <3>. QED BY <1>10, <2>1, <2>2, <3>1, Zenon
  <2>3. CASE Ends(t, "rejected") /\ UNCHANGED storeVars
    BY <1>10, <2>1, <2>3, Zenon
  <2>. QED BY <1>16, <2>2, <2>3, Zenon DEF insertSample
<1>17. CASE StoreThrows(t)
  <2>1. k.step \in {"recording", "completing", "sampling"} /\ UNCHANGED storeVars /\ BenchStays
    BY <1>17, Zenon DEF StoreThrows
  <2>2. CASE k.step # "sampling" /\ Caught(t, "failed")
    BY <1>7, <2>1, <2>2, Zenon DEF TerminalOutcomes
  <2>3. CASE Ends(t, "rejected")
    BY <1>10, <2>1, <2>3, Zenon
  <2>. QED BY <1>17, <2>2, <2>3, Zenon DEF StoreThrows
<1>. QED BY <1>6, <1>11, <1>12, <1>13, <1>14, <1>15, <1>16, <1>17, Zenon DEF TaskStep

-----------------------------------------------------------------------------
(***************************************************************************)
(* What the steps of a benchmark as a whole do.                            *)
(***************************************************************************)
LEMMA PlanMoves ==
    ASSUME Plan
    PROVE  /\ bench.phase = "planning"
           /\ \/ bench' = [bench EXCEPT !.phase = "refused"] /\ UNCHANGED <<storeVars, tasks>>
              \/ \E plan :
                   /\ GoodPlan(plan) /\ DOMAIN plan \subseteq Tasks
                   /\ \A t \in DOMAIN plan : plan[t].path = "gateway" => t <= GatewayTasks
                   /\ bench' = [bench EXCEPT !.phase = "running", !.plan = plan]
                   /\ tasks' = [t \in Tasks |-> IF t \in DOMAIN plan THEN [Idle EXCEPT !.step = "waiting"] ELSE Idle]
                   /\ run' = [status |-> "running", created_at |-> now]
                   /\ changed' = TRUE /\ untouched' = untouched
                   /\ UNCHANGED <<now, emitted, observations, executions, samples, deletions, cast>>
<1>1. bench.phase = "planning"
  BY Zenon DEF Plan
<1>2. PICK pathMode \in {"direct", "gateway", "both"}, gatewayUp \in preflightGatewayBench, shape \in Shapes(bench.objective) :
        \/ bench' = [bench EXCEPT !.phase = "refused"] /\ UNCHANGED <<storeVars, tasks>>
        \/ LET paths == effectivePaths(pathMode, gatewayUp)
               plan  == buildBenchTasks(shape[1], paths, shape[2], shape[3])
           IN  /\ paths # <<>> /\ FitsBounds(plan)
               /\ bench' = [bench EXCEPT !.phase = "running", !.plan = plan]
               /\ tasks' = [t \in Tasks |-> IF t \in DOMAIN plan THEN [Idle EXCEPT !.step = "waiting"] ELSE Idle]
               /\ run' = [status |-> "running", created_at |-> now]
               /\ Committed({})
               /\ UNCHANGED <<now, emitted, observations, executions, samples, deletions, cast>>
  BY Zenon DEF Plan
<1>. DEFINE paths == effectivePaths(pathMode, gatewayUp)
            plan  == buildBenchTasks(shape[1], paths, shape[2], shape[3])
<1>3. CASE /\ paths # <<>> /\ FitsBounds(plan)
           /\ bench' = [bench EXCEPT !.phase = "running", !.plan = plan]
           /\ tasks' = [t \in Tasks |-> IF t \in DOMAIN plan THEN [Idle EXCEPT !.step = "waiting"] ELSE Idle]
           /\ run' = [status |-> "running", created_at |-> now]
           /\ Committed({})
           /\ UNCHANGED <<now, emitted, observations, executions, samples, deletions, cast>>
  <2>1. shape[1] \in {<<1>>, <<1, 2>>} /\ shape[2] \in {0, 1} /\ shape[3] \in {1, 2}
    <3>1. shape \in {<<<<1>>, 0, 1>>, <<<<1, 2>>, 0, 1>>, <<<<1, 2>>, 0, 2>>, <<<<1, 2>>, 1, 1>>}
      BY Zenon DEF Shapes
    <3>. QED BY <3>1
  <2>2. paths \in {<<"direct">>, <<"gateway">>, <<"gateway", "direct">>}
    <3>1. effectivePaths(pathMode, gatewayUp) \in {<<>>, <<"direct">>, <<"gateway">>, <<"gateway", "direct">>}
      BY DEF effectivePaths
    <3>. QED BY <1>3, <3>1, Zenon
  <2>. HIDE DEF paths
  <2>3. GoodPlan(plan)
    BY <2>1, <2>2, PlansAreGood, Zenon
  <2>4. Len(plan) <= TaskCount /\ \A t \in DOMAIN plan : plan[t].path = "gateway" => t <= GatewayTasks
    BY <1>3, Zenon DEF FitsBounds
  <2>. HIDE DEF plan
  <2>5. DOMAIN plan \subseteq Tasks
    BY <2>3, <2>4, TraceStoreAssumption DEF GoodPlan, Tasks
  <2>6. changed' = TRUE /\ untouched' = untouched
    BY <1>3, Zenon DEF Committed
  <2>. QED BY <1>1, <1>3, <2>3, <2>4, <2>5, <2>6, Zenon DEF plan
<1>. QED BY <1>1, <1>2, <1>3, Zenon

LEMMA TakeMoves ==
    ASSUME TakeTask
    PROVE  /\ bench.phase = "running"
           /\ UNCHANGED <<storeVars, bench>>
           /\ \E t \in Tasks : /\ tasks[t].step = "waiting"
                               /\ tasks' = [tasks EXCEPT ![t] = [tasks[t] EXCEPT !.step = "fetching", !.started = now]]
<1>. DEFINE W == At({"waiting"})
<1>1. W \in SUBSET Nat /\ W # {} /\ W \in SUBSET Tasks
  <2>1. Tasks \in SUBSET Nat
    BY TraceStoreAssumption DEF Tasks
  <2>. QED BY <2>1, Zenon DEF TakeTask, At
<1>2. Min(W) \in W
  <2>. HIDE DEF W
  <2>1. \E m \in W : \A k \in W : m <= k
    BY <1>1, LeastNatural, Zenon
  <2>. QED BY <2>1, Zenon DEF Min
<1>3. tasks[Min(W)].step = "waiting" /\ Min(W) \in Tasks
  BY <1>2, Zenon DEF At
<1>. QED BY <1>3, Zenon DEF TakeTask

\* The status is written, and nothing else changes in the store.
Updates(status) ==
    /\ run' = IF run.status = "none" THEN run ELSE [run EXCEPT !.status = status]
    /\ changed' = TRUE /\ untouched' = untouched
    /\ UNCHANGED <<now, emitted, observations, executions, samples, deletions, cast>>

LEMMA SettleMoves ==
    /\ Settle =>
         /\ bench.phase = "running" /\ AllSettled /\ UNCHANGED tasks
         /\ \/ /\ Aborted \/ At({"rejected"}) # {}
               /\ Updates(statusForError)
               /\ bench' = [bench EXCEPT !.phase = "error", !.closed = bench.by = "cli"]
            \/ /\ ~Aborted /\ At({"rejected"}) = {}
               /\ Updates("completed")
               /\ bench' = [bench EXCEPT !.phase = "reporting", !.closed = FALSE]
    /\ DrainTimeout =>
         /\ bench.phase = "running" /\ Aborted /\ Awaiting /\ UNCHANGED tasks
         /\ Updates(statusForError)
         /\ bench' = [bench EXCEPT !.phase = "error", !.closed = TRUE]
<1>1. ASSUME NEW s, updateRunStatus(s) PROVE Updates(s)
  BY <1>1, Zenon DEF updateRunStatus, Updates, Committed
<1>2. ASSUME Settle PROVE bench.phase = "running" /\ AllSettled /\ UNCHANGED tasks
  BY <1>2, Zenon DEF Settle
<1>3. ASSUME Settle, Aborted \/ At({"rejected"}) # {}
      PROVE  Updates(statusForError) /\ bench' = [bench EXCEPT !.phase = "error", !.closed = bench.by = "cli"]
  <2>1. updateRunStatus(statusForError)
    BY <1>3, Zenon DEF Settle
  <2>2. bench' = [bench EXCEPT !.phase = "error", !.closed = bench.by = "cli"]
    BY <1>3 DEF Settle
  <2>. QED BY <1>1, <2>1, <2>2
<1>4. ASSUME Settle, ~Aborted, At({"rejected"}) = {}
      PROVE  Updates("completed") /\ bench' = [bench EXCEPT !.phase = "reporting", !.closed = FALSE]
  <2>1. updateRunStatus("completed")
    BY <1>4, Zenon DEF Settle
  <2>2. bench' = [bench EXCEPT !.phase = "reporting", !.closed = FALSE]
    BY <1>4 DEF Settle
  <2>. QED BY <1>1, <2>1, <2>2
<1>5. ASSUME DrainTimeout
      PROVE  /\ bench.phase = "running" /\ Aborted /\ Awaiting /\ UNCHANGED tasks
             /\ Updates(statusForError)
             /\ bench' = [bench EXCEPT !.phase = "error", !.closed = TRUE]
  BY <1>1, <1>5, Zenon DEF DrainTimeout
<1>. QED BY <1>2, <1>3, <1>4, <1>5, Zenon

-----------------------------------------------------------------------------
(***************************************************************************)
(* What the other steps do to the store.                                   *)
(***************************************************************************)
\* Rows of the requests still untouched are as they were, and so are all rows when
\* nobody has committed.
LeavesUntouched ==
    /\ untouched' \subseteq untouched
    /\ \A r \in untouched' : executions'[r] = executions[r] /\ observations'[r] = observations[r]
    /\ ~changed' => ~changed /\ observations' = observations

Prunes(cutoff) ==
    /\ observations' = [r \in Requests |-> rowsFrom(cutoff, observations[r])]
    /\ executions' \in [Requests -> Summaries]
    /\ \A r \in Requests : executions'[r] # NoExecution =>
         executions'[r] = executions[r] /\ executions[r].started_at >= cutoff
    /\ \A r \in Requests : executions[r] # NoExecution /\ executions[r].started_at >= cutoff =>
         executions'[r] = executions[r]
    /\ samples' = SamplesOf(executions', ~RunExpired(cutoff))
    /\ run' = IF RunExpired(cutoff) THEN [run EXCEPT !.status = "none"] ELSE run
    /\ changed' = TRUE /\ LeavesUntouched

LEMMA PruneMoves ==
    ASSUME StoreTyped, NEW cutoff \in Nat, pruneOlderThan(cutoff)
    PROVE  Prunes(cutoff)
<1>. DEFINE kept == [r \in Requests |-> IF Expired(executions[r], cutoff) THEN NoExecution ELSE executions[r]]
            rows == [r \in Requests |-> rowsFrom(cutoff, observations[r])]
            S == {r \in Requests : kept[r] # executions[r] \/ rows[r] # observations[r]}
<1>1. /\ executions' = kept /\ observations' = rows
      /\ samples' = SamplesOf(kept, ~RunExpired(cutoff))
      /\ run' = IF RunExpired(cutoff) THEN [run EXCEPT !.status = "none"] ELSE run
      /\ changed' = TRUE /\ untouched' = untouched \ S
  BY Zenon DEF pruneOlderThan, Committed
<1>2. executions \in [Requests -> Summaries] /\ untouched \in SUBSET Requests
  BY Zenon DEF StoreTyped
<1>3. NoExecution \in Summaries
  BY Zenon DEF Summaries
<1>4. kept \in [Requests -> Summaries]
  BY <1>2, <1>3, Zenon
<1>5. ASSUME NEW r \in Requests, kept[r] # NoExecution
      PROVE  kept[r] = executions[r] /\ executions[r].started_at >= cutoff
  <2>1. kept[r] = executions[r] /\ ~Expired(executions[r], cutoff)
    BY <1>5, Zenon
  <2>2. executions[r] \in Summary
    BY <1>2, <1>5, <2>1, Zenon DEF Summaries
  <2>3. executions[r].started_at \in Nat /\ ~(executions[r].started_at < cutoff)
    BY <1>5, <2>1, <2>2 DEF Expired, Summary
  <2>. HIDE DEF kept
  <2>. QED BY <2>1, <2>3
<1>6. ASSUME NEW r \in Requests, executions[r] # NoExecution, executions[r].started_at >= cutoff
      PROVE  kept[r] = executions[r]
  <2>1. executions[r] \in Summary
    BY <1>2, <1>6, Zenon DEF Summaries
  <2>2. executions[r].started_at \in Nat
    BY <2>1 DEF Summary
  <2>3. ~Expired(executions[r], cutoff)
    BY <1>6, <2>2 DEF Expired
  <2>. QED BY <2>3, Zenon
<1>7. untouched' \subseteq untouched /\ \A r \in untouched' : r \in Requests /\ kept[r] = executions[r] /\ rows[r] = observations[r]
  BY <1>1, <1>2, Zenon
<1>. HIDE DEF kept, rows, S
<1>8. LeavesUntouched
  BY <1>1, <1>7, Zenon DEF LeavesUntouched
<1>. QED BY <1>1, <1>4, <1>5, <1>6, <1>8, Zenon DEF Prunes, rows

LEMMA PrunedRows ==
    ASSUME StoreTyped, NEW cutoff \in Nat, NEW r \in Requests, Prunes(cutoff)
    PROVE  /\ observations'[r] \in Seq(Row)
           /\ \A j \in DOMAIN observations'[r] : \E i \in DOMAIN observations[r] : observations'[r][j] = observations[r][i]
           /\ \A i \in DOMAIN observations[r] : observations[r][i].at >= cutoff =>
                \E j \in DOMAIN observations'[r] : observations'[r][j] = observations[r][i]
<1>1. observations'[r] = rowsFrom(cutoff, observations[r])
  BY Zenon DEF Prunes
<1>2. observations[r] \in Seq(Row)
  BY Zenon DEF StoreTyped
<1>. DEFINE kept == rowsFrom(cutoff, observations[r])
<1>3. /\ kept \in Seq(Row)
      /\ \A j \in DOMAIN kept : \E i \in DOMAIN observations[r] : kept[j] = observations[r][i]
      /\ \A i \in DOMAIN observations[r] : observations[r][i].at >= cutoff =>
           \E j \in DOMAIN kept : kept[j] = observations[r][i]
  BY <1>2, FilterTyped, Zenon
<1>4. observations'[r] = kept
  BY <1>1, Zenon
<1>. HIDE DEF kept
<1>. QED BY <1>3, <1>4, Zenon

LEMMA CutoffIsTime == ASSUME NEW cutoff \in 0 .. now PROVE cutoff \in Nat
OBVIOUS

LEMMA RepairTyped ==
    ASSUME StoreTyped, ScanTyped
    PROVE  /\ Repaired \in [Requests -> Summaries]
           /\ \A r \in DOMAIN scan.plan : r \in Requests /\ Repaired[r] = scan.plan[r] /\ scan.plan[r] \in Summaries
           /\ \A r \in Requests \ DOMAIN scan.plan : Repaired[r] = executions[r]
<1>1. scan.plan \in Repairs /\ DOMAIN scan.plan \subseteq scan.batch /\ scan.batch \in SUBSET Requests
  BY DEF ScanTyped
<1>2. PICK S \in SUBSET Requests : scan.plan \in [S -> Summaries]
  BY <1>1, Zenon DEF Repairs
<1>3. DOMAIN scan.plan = S /\ \A r \in S : scan.plan[r] \in Summaries
  BY <1>2, Zenon
<1>4. executions \in [Requests -> Summaries]
  BY Zenon DEF StoreTyped
<1>. QED BY <1>1, <1>3, <1>4, Zenon DEF Repaired

LEMMA StatusTyped ==
    ASSUME StoreTyped, BenchTyped
    PROVE  /\ statusForError \in {"failed", "cancelled"}
           /\ \A s \in Statuses : Updates(s) => StoreTyped'
<1>1. statusForError \in {"failed", "cancelled"}
  BY DEF statusForError, Aborted, BenchTyped, Benches
<1>2. ASSUME NEW s \in Statuses, Updates(s) PROVE StoreTyped'
  <2>1. run' \in [status : Statuses, created_at : Nat]
    BY <1>2 DEF Updates, StoreTyped
  <2>. QED BY <1>2, <2>1 DEF Updates, StoreTyped
<1>. QED BY <1>1, <1>2

LEMMA GrowthTyped ==
    ASSUME StoreTyped, NEW r \in Requests, NEW from, Grows(r, from),
           emitted' \in [GatewayRequests -> [rank : 0 .. 3, at : Nat]], UNCHANGED <<now, run, samples>>
    PROVE  StoreTyped'
<1>1. untouched' \in SUBSET Requests /\ changed' \in BOOLEAN
  BY Zenon DEF Grows, StoreTyped
<1>2. observations' \in [Requests -> Seq(Row)] /\ executions' \in [Requests -> Summaries]
  BY Zenon DEF Grows
<1>. QED BY <1>1, <1>2, Zenon DEF StoreTyped

LEMMA StoreKeepsTypes ==
    ASSUME StoreTyped, ScanTyped, BenchTyped, Quiet \/ StoreActs \/ ScanActs \/ BenchActs
    PROVE  StoreTyped'
<1>0. ASSUME UNCHANGED storeVars PROVE StoreTyped'
  BY <1>0, Zenon DEF StoreTyped, storeVars
<1>1. CASE Quiet
  BY <1>0, <1>1, Zenon DEF Quiet, storeVars
<1>2. CASE StoreActs
  <2>1. CASE Tick
    <3>1. now' \in Nat
      BY <2>1 DEF StoreTyped, Tick
    <3>. QED BY <2>1, <3>1, Zenon DEF StoreTyped, Tick
  <2>2. ASSUME NEW cutoff \in 0 .. now, pruneOlderThan(cutoff), UNCHANGED <<now, emitted, cast>>
        PROVE  StoreTyped'
    <3>1. Prunes(cutoff) /\ cutoff \in Nat
      BY <2>2, PruneMoves, CutoffIsTime, Zenon
    <3>2. observations' \in [Requests -> Seq(Row)]
      <4>1. observations' = [r \in Requests |-> rowsFrom(cutoff, observations[r])]
        BY <3>1, Zenon DEF Prunes
      <4>2. \A r \in Requests : observations[r] \in Seq(Row)
        BY Zenon DEF StoreTyped
      <4>3. \A r \in Requests : rowsFrom(cutoff, observations[r]) \in Seq(Row)
        BY <3>1, <4>2, FilterTyped, Zenon
      <4>. QED BY <4>1, <4>3, Zenon
    <3>3. /\ samples' \in [Tasks -> Sample]
          /\ \A t \in Tasks : samples'[t] # NoSample => samples'[t].execution \in Requests
      <4>. DEFINE b == ~RunExpired(cutoff)
      <4>1. samples' = SamplesOf(executions', b)
        BY <3>1, Zenon DEF Prunes
      <4>. HIDE DEF b
      <4>. QED BY <4>1, SamplesTyped
    <3>4. run' \in [status : Statuses, created_at : Nat]
      BY <3>1 DEF Prunes, StoreTyped, Statuses
    <3>5. untouched' \in SUBSET Requests /\ changed' \in BOOLEAN /\ executions' \in [Requests -> Summaries]
      BY <3>1, Zenon DEF Prunes, LeavesUntouched, StoreTyped
    <3>. QED BY <2>2, <3>2, <3>3, <3>4, <3>5, Zenon DEF StoreTyped
  <2>3. CASE deleteBenchmarkRun /\ UNCHANGED <<now, emitted, cast>>
    <3>1. run' \in [status : Statuses, created_at : Nat]
      BY <2>3 DEF deleteBenchmarkRun, StoreTyped, Statuses
    <3>2. samples' \in [Tasks -> Sample] /\ \A t \in Tasks : samples'[t] = NoSample
      BY <2>3, NoSampleTyped, Zenon DEF deleteBenchmarkRun
    <3>3. untouched' \in SUBSET Requests /\ changed' \in BOOLEAN
      BY <2>3, Zenon DEF deleteBenchmarkRun, StoreTyped, Committed
    <3>. QED BY <2>3, <3>1, <3>2, <3>3, Zenon DEF deleteBenchmarkRun, StoreTyped
  <2>4. ASSUME NEW r \in GatewayRequests, Observes(r) PROVE StoreTyped'
    <3>1. r \in Requests
      BY TraceStoreAssumption DEF GatewayRequests, Requests
    <3>. QED BY <2>4, <3>1, ObserveGrows, GrowthTyped, Zenon DEF Observes
  <2>. QED BY <1>2, <2>1, <2>2, <2>3, <2>4, Zenon DEF StoreActs
<1>3. CASE ScanActs
  <2>1. ASSUME NEW first, Begins(first) PROVE StoreTyped'
    <3>1. untouched' \in SUBSET Requests
      BY <2>1, Zenon DEF Begins
    <3>. QED BY <2>1, <3>1, Zenon DEF Begins, StoreTyped
  <2>2. CASE \E by \in {"mcp", "cli"} : verifyAll(by) \/ repairAll(by) \/ repairOne(by)
    BY <2>1, <2>2, Zenon DEF verifyAll, repairAll, repairOne
  <2>3. CASE EndScan \/ ListBatch \/ verifyBatch \/ RepairThrows
    BY <1>0, <2>3, Zenon DEF EndScan, ListBatch, verifyBatch, RepairThrows
  <2>4. CASE BeginRepair
    BY <2>4, Zenon DEF BeginRepair, StoreTyped
  <2>5. CASE CommitRepair
    <3>1. executions' = Repaired /\ samples' = SamplesOf(Repaired, TRUE)
          /\ UNCHANGED <<now, emitted, observations, run, deletions, cast, untouched, changed>>
      BY <2>5, Zenon DEF CommitRepair, CommitsBatch
    <3>2. /\ samples' \in [Tasks -> Sample]
          /\ \A t \in Tasks : samples'[t] # NoSample => samples'[t].execution \in Requests
      BY <3>1, SamplesTyped, Zenon
    <3>. QED BY <3>1, <3>2, RepairTyped, Zenon DEF StoreTyped
  <2>. QED BY <1>3, <2>2, <2>3, <2>4, <2>5, Zenon DEF ScanActs, ScanStep
<1>4. CASE BenchActs
  <2>1. CASE Starts \/ Stops \/ AbortBench \/ TakeTask \/ Report \/ OptimizeFails
    BY <1>0, <2>1, TakeMoves, Zenon DEF Starts, StartBench, Stops, AbortBench, Report, OptimizeFails
  <2>2. CASE Settle \/ DrainTimeout
    <3>1. statusForError \in Statuses /\ "completed" \in Statuses
      BY StatusTyped DEF Statuses
    <3>. QED BY <2>2, <3>1, StatusTyped, SettleMoves, Zenon
  <2>3. CASE Plan
    <3>1. CASE UNCHANGED storeVars
      BY <1>0, <3>1
    <3>2. CASE /\ run' = [status |-> "running", created_at |-> now]
               /\ changed' = TRUE /\ untouched' = untouched
               /\ UNCHANGED <<now, emitted, observations, executions, samples, deletions, cast>>
      <4>1. run' \in [status : Statuses, created_at : Nat]
        BY <3>2 DEF StoreTyped, Statuses
      <4>. QED BY <3>2, <4>1, Zenon DEF StoreTyped
    <3>. QED BY <2>3, <3>1, <3>2, PlanMoves, Zenon
  <2>4. ASSUME NEW t \in Tasks, TaskStep(t) PROVE StoreTyped'
    <3>1. PICK x \in Task : TaskStores(t, x) /\ (x.step = "sampled" => tasks[t].step = "sampling")
      BY <2>4, TaskMoves, Zenon DEF TaskGoes
    <3>2. Synthetic(t, tasks[t].attempt) \in Requests
      <4>1. tasks[t].attempt \in {1, 2}
        BY DEF BenchTyped, Task
      <4>. QED BY <4>1, SyntheticTyped, Zenon
    <3>3. CASE UNCHANGED storeVars
      BY <1>0, <3>3
    <3>4. ASSUME NEW from, Grows(Synthetic(t, tasks[t].attempt), from), UNCHANGED <<now, emitted, run, samples, deletions, cast>>
          PROVE  StoreTyped'
      BY <3>2, <3>4, GrowthTyped, Zenon DEF StoreTyped
    <3>5. CASE /\ x.step = "sampled" /\ samples' = [samples EXCEPT ![t] = tasks[t].sample]
               /\ changed' = TRUE /\ untouched' = untouched
               /\ UNCHANGED <<now, emitted, observations, executions, run, deletions, cast>>
      <4>1. tasks[t].step = "sampling"
        BY <3>1, <3>5, Zenon
      <4>2. tasks[t].sample \in Sample /\ tasks[t].sample.execution \in Requests
        BY <4>1 DEF BenchTyped, Task
      <4>3. /\ samples' \in [Tasks -> Sample]
            /\ \A u \in Tasks : samples'[u] # NoSample => samples'[u].execution \in Requests
        BY <3>5, <4>2, Zenon DEF StoreTyped
      <4>. QED BY <3>5, <4>3, Zenon DEF StoreTyped
    <3>. QED BY <3>1, <3>3, <3>4, <3>5, Zenon DEF TaskStores
  <2>5. CASE persistLatency \/ persistCost
    <3>1. PICK report : createRun(report)
      BY <2>5, Zenon DEF persistLatency, persistCost
    <3>. QED BY <3>1, Zenon DEF createRun, Committed, StoreTyped
  <2>. QED BY <1>4, <2>1, <2>2, <2>3, <2>4, <2>5, Zenon DEF BenchActs, BenchStep, OptimizeStep
<1>. QED BY <1>1, <1>2, <1>3, <1>4

LEMMA NothingPlanned == <<>> \in Repairs /\ DOMAIN <<>> = {} /\ {} \in SUBSET Requests
<1>1. <<>> \in [{} -> Summaries] /\ DOMAIN <<>> = {}
  OBVIOUS
<1>2. {} \in SUBSET Requests
  OBVIOUS
<1>. QED BY <1>1, <1>2, Zenon DEF Repairs

LEMMA ListedIds ==
    ASSUME NEW s
    PROVE  /\ NextBatch(s) \in SUBSET Requests
           /\ \A r \in NextBatch(s) : known(r)
           /\ NextBatch(s) # {} => Max(NextBatch(s)) \in NextBatch(s) /\ Max(NextBatch(s)) \in Nat
                                   /\ \A r \in NextBatch(s) : r <= Max(NextBatch(s))
<1>. DEFINE ids == NextBatch(s)
            n == RequestCount + 2 * TaskCount
<1>1. ids \in SUBSET Requests /\ \A r \in ids : known(r)
  BY Zenon DEF NextBatch, FirstOf, listKnownRequestIds, listKnownRequestIdsAfter
<1>2. n \in Nat /\ Requests = 1 .. n
  BY TraceStoreAssumption DEF Requests
<1>. HIDE DEF ids, n
<1>3. ids # {} => Max(ids) \in ids /\ \A y \in ids : Max(ids) >= y
  BY <1>1, <1>2, MaxOfSet, Zenon
<1>4. ids # {} => Max(ids) \in Nat /\ \A y \in ids : y <= Max(ids)
  <2>. DEFINE m == Max(ids)
  <2>1. ids # {} => m \in ids /\ \A y \in ids : m >= y
    BY <1>3, Zenon
  <2>2. \A y \in ids : y \in Nat
    BY <1>1, <1>2
  <2>. HIDE DEF m
  <2>3. ids # {} => m \in Nat /\ \A y \in ids : y <= m
    BY <2>1, <2>2
  <2>. QED BY <2>3, Zenon DEF m
<1>. QED BY <1>1, <1>3, <1>4 DEF ids

LEMMA ScanKeepsTypes ==
    ASSUME StoreTyped, ScanTyped, Quiet \/ StoreActs \/ ScanActs \/ BenchActs
    PROVE  ScanTyped'
<1>0. ASSUME UNCHANGED scan PROVE ScanTyped'
  BY <1>0, Zenon DEF ScanTyped
<1>1. CASE ~ScanActs
  BY <1>0, <1>1, Zenon DEF Quiet, StoreActs, BenchActs
<1>2. CASE ScanActs
  <2>1. ASSUME NEW kind \in {"none", "verify_all", "repair_all", "repair_one"}, NEW by \in {"none", "mcp", "cli"},
               NEW step \in {"idle", "list", "open"}
        PROVE  /\ scan' = Scan(kind, by, step) => ScanTyped'
               /\ \A r \in Requests : scan' = [Scan(kind, by, step) EXCEPT !.batch = {r}] => ScanTyped'
    BY NothingPlanned DEF Scan, ScanTyped
  <2>2. CASE \E by \in {"mcp", "cli"} : verifyAll(by) \/ repairAll(by) \/ repairOne(by)
    <3>1. PICK by \in {"mcp", "cli"} : verifyAll(by) \/ repairAll(by) \/ repairOne(by)
      BY <2>2
    <3>2. \/ scan' = Scan("verify_all", by, "list") \/ scan' = Scan("repair_all", by, "list")
          \/ \E r \in Requests : scan' = [Scan("repair_one", by, "open") EXCEPT !.batch = {r}]
      BY <3>1, Zenon DEF verifyAll, repairAll, repairOne, Begins
    <3>. QED BY <2>1, <3>2, Zenon
  <2>3. CASE EndScan
    BY <2>1, <2>3, Zenon DEF EndScan, NoScan
  <2>4. CASE ListBatch
    <3>. DEFINE ids == NextBatch(scan)
    <3>1. scan' = [scan EXCEPT !.batch = ids, !.after = IF ids = {} THEN scan.after ELSE Max(ids),
                               !.offset = scan.offset + BatchSize, !.step = IF ids = {} THEN "done" ELSE "open"]
      BY <2>4, Zenon DEF ListBatch
    <3>2. scan.step = "list" /\ ids \in SUBSET Requests /\ (ids # {} => Max(ids) \in Nat)
      BY <2>4, ListedIds, Zenon DEF ListBatch
    <3>. DEFINE after == IF ids = {} THEN scan.after ELSE Max(ids)
                step == IF ids = {} THEN "done" ELSE "open"
    <3>3. after \in Nat /\ step \in {"done", "open"}
      BY <3>2 DEF ScanTyped
    <3>. HIDE DEF ids, after, step
    <3>4. scan' = [scan EXCEPT !.batch = ids, !.after = after, !.offset = scan.offset + BatchSize, !.step = step]
      BY <3>1, Zenon DEF after, step
    <3>5. scan.offset + BatchSize \in Nat /\ scan.plan = <<>>
      BY <3>2, BatchAssumption DEF ScanTyped
    <3>6. scan'.plan = <<>> /\ DOMAIN scan'.plan \subseteq scan'.batch
      <4>1. scan'.plan = <<>>
        BY <3>4, <3>5 DEF ScanTyped
      <4>. QED BY <4>1, NothingPlanned, Zenon
    <3>. QED BY <3>2, <3>3, <3>4, <3>5, <3>6 DEF ScanTyped
  <2>5. CASE verifyBatch \/ CommitRepair \/ RepairThrows
    <3>1. PICK step \in {"list", "done", "failed"} :
            \/ scan.step = "open" /\ scan' = [scan EXCEPT !.step = step]
            \/ scan' = [scan EXCEPT !.step = step, !.plan = <<>>]
      BY <2>5, Zenon DEF verifyBatch, CommitRepair, CommitsBatch, RepairThrows, AfterBatch
    <3>2. scan'.plan = <<>>
      BY <3>1 DEF ScanTyped
    <3>3. DOMAIN scan'.plan \subseteq scan'.batch
      BY <3>2, NothingPlanned, Zenon
    <3>. QED BY <3>1, <3>2, <3>3, NothingPlanned DEF ScanTyped
  <2>6. CASE BeginRepair
    <3>. DEFINE broken == {r \in scan.batch : known(r) /\ verify(r) # "ok"}
                plan == [r \in broken |-> buildFromObservations(observations[r])]
    <3>1. scan' = [scan EXCEPT !.step = "write", !.plan = plan]
      BY <2>6, Zenon DEF BeginRepair
    <3>2. broken \subseteq scan.batch /\ scan.batch \in SUBSET Requests
      BY DEF ScanTyped
    <3>3. \A r \in Requests : buildFromObservations(observations[r]) \in Summaries
      BY BuildTyped, Zenon DEF StoreTyped
    <3>4. plan \in [broken -> Summaries] /\ broken \in SUBSET Requests
      BY <3>2, <3>3, Zenon
    <3>5. plan \in Repairs /\ DOMAIN plan = broken
      BY <3>4, Zenon DEF Repairs
    <3>. HIDE DEF plan, broken
    <3>. QED BY <3>1, <3>2, <3>5 DEF ScanTyped
  <2>. QED BY <1>2, <2>2, <2>3, <2>4, <2>5, <2>6, Zenon DEF ScanActs, ScanStep
<1>. QED BY <1>1, <1>2

LEMMA TaskReplaced ==
    ASSUME BenchTyped, NEW t \in Tasks, NEW x \in Task, tasks' = [tasks EXCEPT ![t] = x]
    PROVE  /\ tasks' \in [Tasks -> Task]
           /\ tasks'[t] = x
           /\ \A u \in Tasks \ {t} : tasks'[u] = tasks[u]
BY Zenon DEF BenchTyped

LEMMA BenchKeepsTypes ==
    ASSUME StoreTyped, BenchTyped, Quiet \/ StoreActs \/ ScanActs \/ BenchActs
    PROVE  BenchTyped'
<1>0. ASSUME UNCHANGED benchVars PROVE BenchTyped'
  BY <1>0, Zenon DEF BenchTyped, benchVars
<1>1. CASE ~BenchActs
  BY <1>0, <1>1, Zenon DEF Quiet, StoreActs, ScanActs
<1>3. CASE BenchActs
  <2>0. bench \in Benches
    BY DEF BenchTyped
  <2>1. CASE Starts
    <3>1. UNCHANGED tasks
      BY <2>1, Zenon DEF Starts, StartBench
    <3>2. PICK by \in {"mcp", "cli"}, objective \in {"route_benchmark", "route_optimization"}, aborted \in {"no", "failed"} :
            bench' = [bench EXCEPT !.by = by, !.objective = objective, !.phase = "planning", !.aborted = aborted]
      BY <2>1, Zenon DEF Starts, StartBench
    <3>3. bench' \in Benches /\ bench'.plan = bench.plan
      BY <2>0, <3>2 DEF Benches, Phases
    <3>. QED BY <3>1, <3>3, Zenon DEF BenchTyped
  <2>2. CASE Stops \/ AbortBench \/ Report \/ OptimizeFails \/ persistLatency \/ Settle \/ DrainTimeout
    <3>1. UNCHANGED tasks
      BY <2>2, SettleMoves, Zenon DEF Stops, AbortBench, Report, OptimizeFails, persistLatency
    <3>2. \/ \E aborted \in {bench.aborted, "failed", "cancelled"} : bench' = [bench EXCEPT !.aborted = aborted]
          \/ \E phase \in {"error", "reported", "reporting", "optimized"} :
                \/ bench' = [bench EXCEPT !.phase = phase]
                \/ \E closed \in {bench.by = "cli", TRUE, FALSE} : bench' = [bench EXCEPT !.phase = phase, !.closed = closed]
      BY <2>2, SettleMoves, Zenon DEF Stops, AbortBench, Report, OptimizeFails, persistLatency
    <3>3. (bench.by = "cli") \in BOOLEAN
      BY Zenon
    <3>4. bench' \in Benches /\ bench'.plan = bench.plan
      <4>1. CASE \E aborted \in {bench.aborted, "failed", "cancelled"} : bench' = [bench EXCEPT !.aborted = aborted]
        BY <2>0, <4>1 DEF Benches
      <4>2. ASSUME NEW phase \in {"error", "reported", "reporting", "optimized"}, bench' = [bench EXCEPT !.phase = phase]
            PROVE  bench' \in Benches /\ bench'.plan = bench.plan
        BY <2>0, <4>2 DEF Benches, Phases
      <4>3. ASSUME NEW phase \in {"error", "reported", "reporting", "optimized"}, NEW closed \in BOOLEAN,
                   bench' = [bench EXCEPT !.phase = phase, !.closed = closed]
            PROVE  bench' \in Benches /\ bench'.plan = bench.plan
        BY <2>0, <4>3 DEF Benches, Phases
      <4>. QED BY <3>2, <3>3, <4>1, <4>2, <4>3, Zenon
    <3>. QED BY <3>1, <3>4, Zenon DEF BenchTyped
  <2>3. CASE Plan
    <3>1. CASE bench' = [bench EXCEPT !.phase = "refused"] /\ UNCHANGED tasks
      <4>1. bench' \in Benches /\ bench'.plan = bench.plan
        BY <2>0, <3>1 DEF Benches, Phases
      <4>. QED BY <3>1, <4>1, Zenon DEF BenchTyped
    <3>2. ASSUME NEW plan, GoodPlan(plan), DOMAIN plan \subseteq Tasks,
                 bench' = [bench EXCEPT !.phase = "running", !.plan = plan],
                 tasks' = [t \in Tasks |-> IF t \in DOMAIN plan THEN [Idle EXCEPT !.step = "waiting"] ELSE Idle]
          PROVE  BenchTyped'
      <4>1. plan \in Seq(PlanRow)
        BY <3>2, Zenon DEF GoodPlan
      <4>2. bench' \in Benches /\ bench'.plan = plan
        BY <2>0, <3>2, <4>1 DEF Benches, Phases
      <4>. DEFINE w == [Idle EXCEPT !.step = "waiting"]
      <4>3. Idle \in Task /\ w \in Task /\ Idle.step # "sampling" /\ w.step # "sampling"
        BY NoSampleTyped DEF Idle, Task, Steps, TerminalOutcomes
      <4>. HIDE DEF w
      <4>4. tasks' = [t \in Tasks |-> IF t \in DOMAIN plan THEN w ELSE Idle]
        BY <3>2, Zenon DEF w
      <4>5. tasks' \in [Tasks -> Task] /\ \A t \in Tasks : tasks'[t].step # "sampling"
        BY <4>3, <4>4, Zenon
      <4>. QED BY <3>2, <4>2, <4>5, Zenon DEF BenchTyped
    <3>. QED BY <2>3, <3>1, <3>2, PlanMoves, Zenon
  <2>4. ASSUME NEW t \in Tasks, NEW x \in Task, tasks' = [tasks EXCEPT ![t] = x],
               x.step = "sampling" => x.sample.execution \in Requests, BenchStays
        PROVE  BenchTyped'
    <3>1. bench' \in Benches /\ bench'.plan = bench.plan
      BY <2>0, <2>4 DEF BenchStays, Benches
    <3>2. \A u \in Tasks : tasks'[u] = tasks[u] \/ (u = t /\ tasks'[u] = x)
      BY <2>4, TaskReplaced, Zenon
    <3>3. tasks' \in [Tasks -> Task]
      BY <2>4, TaskReplaced, Zenon
    <3>4. \A u \in Tasks : tasks'[u].step = "sampling" => tasks'[u].sample.execution \in Requests
      BY <2>4, <3>2, Zenon DEF BenchTyped
    <3>. QED BY <3>1, <3>3, <3>4, Zenon DEF BenchTyped
  <2>5. CASE TakeTask
    <3>1. PICK t \in Tasks : tasks' = [tasks EXCEPT ![t] = [tasks[t] EXCEPT !.step = "fetching", !.started = now]]
      BY <2>5, TakeMoves, Zenon
    <3>. DEFINE x == [tasks[t] EXCEPT !.step = "fetching", !.started = now]
    <3>2. x \in Task /\ x.step = "fetching"
      BY DEF BenchTyped, StoreTyped, Task, Steps
    <3>3. tasks' = [tasks EXCEPT ![t] = x] /\ BenchStays
      BY <2>5, <3>1, TakeMoves, Zenon DEF BenchStays
    <3>. HIDE DEF x
    <3>. QED BY <2>4, <3>2, <3>3, Zenon
  <2>6. ASSUME NEW t \in Tasks, TaskStep(t) PROVE BenchTyped'
    <3>1. PICK x \in Task : tasks' = [tasks EXCEPT ![t] = x] /\ TaskGoes(t, x)
      BY <2>6, TaskMoves, Zenon
    <3>2. x.step = "sampling" => x.sample.execution \in Requests
      <4>1. SUFFICES ASSUME x.step = "sampling" PROVE x.sample.execution \in Requests
        OBVIOUS
      <4>2. t \in Requests
        BY TraceStoreAssumption DEF Tasks, Requests
      <4>3. tasks[t].attempt \in {1, 2}
        BY DEF BenchTyped, Task
      <4>4. \A r \in Requests : SampleOf(r).execution = r
        BY DEF SampleOf
      <4>5. Synthetic(t, tasks[t].attempt) \in Requests
        BY <4>3, SyntheticTyped, Zenon
      <4>6. x.sample = SampleOf(t) \/ x.sample = SampleOf(Synthetic(t, tasks[t].attempt))
        BY <3>1, <4>1, Zenon DEF TaskGoes
      <4>. QED BY <4>2, <4>4, <4>5, <4>6
    <3>. QED BY <2>4, <3>1, <3>2, Zenon DEF TaskGoes
  <2>7. CASE persistCost
    BY <1>0, <2>7, Zenon DEF persistCost
  <2>. QED BY <1>3, <2>1, <2>2, <2>3, <2>5, <2>6, <2>7, Zenon DEF BenchActs, BenchStep, OptimizeStep
<1>. QED BY <1>1, <1>3

LEMMA TypedStep == ASSUME Typed, [Next]_vars PROVE Typed'
BY EveryStep, StoreKeepsTypes, ScanKeepsTypes, BenchKeepsTypes, Zenon DEF Typed

\* A pool none of whose workers is gone takes every task.
LEMMA PoolFinishes ==
    ASSUME BenchTyped, Settle, ~Aborted, At({"rejected"}) = {}
    PROVE  At({"waiting"}) = {}
<1>1. SUFFICES ASSUME At({"waiting"}) # {} PROVE FALSE
  OBVIOUS
<1>2. Workers = 0
  BY <1>1, SettleMoves, Zenon DEF AllSettled
<1>3. IsFiniteSet(Planned) /\ Planned # {}
  <2>1. Planned \subseteq Tasks /\ At({"waiting"}) \subseteq Planned
    BY DEF Planned, At
  <2>2. IsFiniteSet(Tasks)
    BY TraceStoreAssumption, FS_Interval DEF Tasks
  <2>. QED BY <1>1, <2>1, <2>2, FS_Subset, Zenon
<1>4. Cardinality(Planned) \in Nat /\ Cardinality(Planned) # 0
  BY <1>3, FS_CardinalityType, FS_EmptySet, Zenon
<1>. DEFINE c == Cardinality(Planned)
            S == {Concurrency, c}
<1>5. Min(S) \in S
  <2>1. S \in SUBSET Nat /\ S # {}
    BY <1>4, BenchAssumption
  <2>. HIDE DEF S
  <2>2. \E m \in S : \A k \in S : m <= k
    BY <2>1, LeastNatural, Zenon
  <2>. QED BY <2>2, Zenon DEF Min
<1>6. Cardinality(At({"rejected"})) = 0
  BY FS_EmptySet, Zenon
<1>7. Workers = Min(S) - 0
  BY <1>6, Zenon DEF Workers
<1>. HIDE DEF c
<1>8. Min(S) \in Nat /\ Min(S) # 0
  BY <1>4, <1>5, BenchAssumption DEF c
<1>. HIDE DEF S
<1>. QED BY <1>2, <1>7, <1>8

-----------------------------------------------------------------------------
(***************************************************************************)
(* How far the tasks are when the run is where it is.                      *)
(***************************************************************************)
\* What a command leaves behind that gave up on its tasks: they find the handle closed.
LeftBehind(t) == bench.closed /\ Aborted /\ tasks[t].step \in {"fetching", "polling", "recording"}

RunFollowsPhase ==
    /\ bench.phase \in {"idle", "planning", "refused"} =>
         run.status = "none" /\ \A t \in Tasks : tasks[t].step = "unplanned"
    /\ bench.phase = "running" => run.status \in {"running", "none"}
    /\ bench.phase # "running" =>
         \A t \in Tasks : tasks[t].step \in {"unplanned", "waiting", "sampled", "rejected"} \/ LeftBehind(t)
    /\ bench.phase \in {"reporting", "reported", "optimized"} =>
         \A t \in Tasks : tasks[t].step \in {"unplanned", "sampled"}

\* Without a step of the benchmark, the run and its samples may only go.
Fades ==
    /\ UNCHANGED benchVars
    /\ run' = run \/ run' = [run EXCEPT !.status = "none"]
    /\ \A t \in Tasks : samples'[t] \in {samples[t], NoSample}

LEMMA OthersFade ==
    ASSUME StoreTyped, Quiet \/ StoreActs \/ ScanActs
    PROVE  Fades
<1>1. UNCHANGED benchVars
  BY Zenon DEF Quiet, StoreActs, ScanActs
<1>2. ASSUME UNCHANGED <<run, samples>> PROVE Fades
  BY <1>1, <1>2, Zenon DEF Fades
<1>3. CASE Quiet
  BY <1>2, <1>3, Zenon DEF Quiet, storeVars
<1>4. CASE StoreActs
  <2>1. CASE Tick
    BY <1>2, <2>1, Zenon DEF Tick
  <2>2. ASSUME NEW cutoff \in 0 .. now, pruneOlderThan(cutoff) PROVE Fades
    <3>1. Prunes(cutoff) /\ cutoff \in Nat
      BY <2>2, PruneMoves, CutoffIsTime, Zenon
    <3>. DEFINE b == ~RunExpired(cutoff)
    <3>2. samples' = SamplesOf(executions', b)
      BY <3>1, Zenon DEF Prunes
    <3>. HIDE DEF b
    <3>3. \A t \in Tasks : samples'[t] # NoSample => samples'[t] = samples[t]
      BY <3>2, SamplesTyped
    <3>. QED BY <1>1, <3>1, <3>3, Zenon DEF Fades, Prunes
  <2>3. CASE deleteBenchmarkRun
    BY <1>1, <2>3, Zenon DEF Fades, deleteBenchmarkRun
  <2>4. ASSUME NEW r \in GatewayRequests, Observes(r) PROVE Fades
    BY <1>2, <2>4, ObserveGrows, Zenon DEF Observes
  <2>. QED BY <1>4, <2>1, <2>2, <2>3, <2>4, Zenon DEF StoreActs
<1>5. CASE ScanActs
  <2>1. CASE CommitRepair
    <3>1. samples' = SamplesOf(Repaired, TRUE) /\ run' = run
      BY <2>1, Zenon DEF CommitRepair, CommitsBatch
    <3>. DEFINE b == TRUE
    <3>2. samples' = SamplesOf(Repaired, b)
      BY <3>1, Zenon
    <3>. HIDE DEF b
    <3>3. \A t \in Tasks : samples'[t] # NoSample => samples'[t] = samples[t]
      BY <3>2, SamplesTyped
    <3>. QED BY <1>1, <3>1, <3>3, Zenon DEF Fades
  <2>2. CASE ~CommitRepair
    <3>1. UNCHANGED <<run, samples>>
      BY <1>5, <2>2, Zenon DEF ScanActs, ScanStep, verifyAll, repairAll, repairOne, Begins, EndScan, ListBatch,
         verifyBatch, BeginRepair, RepairThrows, storeVars
    <3>. QED BY <1>2, <3>1
  <2>. QED BY <2>1, <2>2
<1>. QED BY <1>3, <1>4, <1>5

LEMMA BenchStaysSo ==
    ASSUME BenchTyped, BenchStays
    PROVE  /\ bench'.phase = bench.phase /\ bench'.plan = bench.plan /\ bench'.closed = bench.closed
           /\ bench'.aborted = bench.aborted /\ bench'.by = bench.by
BY DEF BenchTyped, Benches, BenchStays

LEMMA TaskStoresRun == ASSUME NEW t, NEW x, TaskStores(t, x) PROVE run' = run /\ now' = now /\ emitted' = emitted
BY Zenon DEF TaskStores, storeVars

LEMMA PhaseStep ==
    ASSUME Typed, RunFollowsPhase, Quiet \/ StoreActs \/ ScanActs \/ BenchActs
    PROVE  RunFollowsPhase'
<1>. USE DEF Typed
<1>1. ASSUME Fades PROVE RunFollowsPhase'
  <2>1. run'.status \in {run.status, "none"}
    BY <1>1 DEF Fades, StoreTyped
  <2>2. bench' = bench /\ tasks' = tasks
    BY <1>1, Zenon DEF Fades, benchVars
  <2>. QED BY <2>1, <2>2, Zenon DEF RunFollowsPhase, LeftBehind, Aborted
<1>2. CASE BenchActs
  <2>0. bench \in Benches /\ run \in [status : Statuses, created_at : Nat]
    BY DEF BenchTyped, StoreTyped
  <2>1. CASE Starts
    <3>1. UNCHANGED <<storeVars, tasks>> /\ bench.phase = "idle"
      BY <2>1, Zenon DEF Starts, StartBench
    <3>2. bench'.phase = "planning"
      BY <2>0, <2>1 DEF Starts, StartBench, Benches
    <3>. QED BY <3>1, <3>2 DEF RunFollowsPhase, LeftBehind, storeVars
  <2>2. CASE Stops \/ AbortBench
    <3>1. UNCHANGED <<storeVars, tasks>>
      BY <2>2, Zenon DEF Stops, AbortBench
    <3>2. bench'.phase = bench.phase /\ bench'.closed = bench.closed /\ (Aborted => Aborted')
      BY <2>0, <2>2 DEF Stops, AbortBench, Aborted, Benches
    <3>. QED BY <3>1, <3>2, Zenon DEF RunFollowsPhase, LeftBehind, storeVars
  <2>3. CASE Report \/ OptimizeFails
    <3>1. UNCHANGED <<storeVars, tasks>> /\ bench.phase \in {"reporting", "reported"}
      BY <2>3, Zenon DEF Report, OptimizeFails, Optimizing
    <3>2. bench'.phase \in {"reported", "error"}
      BY <2>0, <2>3 DEF Report, OptimizeFails, Benches
    <3>3. \A t \in Tasks : tasks[t].step \in {"unplanned", "sampled"}
      BY <3>1, Zenon DEF RunFollowsPhase
    <3>. QED BY <3>1, <3>2, <3>3 DEF RunFollowsPhase, storeVars
  <2>4. CASE persistLatency
    <3>1. UNCHANGED <<run, tasks>> /\ bench.phase = "reported"
      BY <2>4, Zenon DEF persistLatency, Optimizing, createRun
    <3>2. bench'.phase = "optimized"
      BY <2>0, <2>4 DEF persistLatency, Benches
    <3>3. \A t \in Tasks : tasks[t].step \in {"unplanned", "sampled"}
      BY <3>1, Zenon DEF RunFollowsPhase
    <3>. QED BY <3>1, <3>2, <3>3 DEF RunFollowsPhase
  <2>5. CASE Plan
    <3>1. bench.phase = "planning" /\ run.status = "none" /\ \A t \in Tasks : tasks[t].step = "unplanned"
      BY <2>5, PlanMoves, Zenon DEF RunFollowsPhase
    <3>2. CASE bench' = [bench EXCEPT !.phase = "refused"] /\ UNCHANGED <<storeVars, tasks>>
      <4>1. bench'.phase = "refused"
        BY <2>0, <3>2 DEF Benches
      <4>. QED BY <3>1, <3>2, <4>1 DEF RunFollowsPhase, storeVars
    <3>3. ASSUME NEW plan, bench' = [bench EXCEPT !.phase = "running", !.plan = plan],
                 run' = [status |-> "running", created_at |-> now]
          PROVE  RunFollowsPhase'
      <4>1. bench'.phase = "running" /\ run'.status = "running"
        BY <2>0, <3>3 DEF Benches
      <4>. QED BY <4>1 DEF RunFollowsPhase
    <3>. QED BY <2>5, <3>2, <3>3, PlanMoves, Zenon
  <2>6. CASE TakeTask
    <3>1. bench' = bench /\ run' = run /\ bench.phase = "running"
      BY <2>6, TakeMoves, Zenon DEF storeVars
    <3>. QED BY <3>1 DEF RunFollowsPhase
  <2>7. CASE Settle
    <3>1. AllSettled /\ UNCHANGED tasks
      BY <2>7, SettleMoves, Zenon
    <3>2. \A t \in Tasks : tasks[t].step \notin {"fetching", "polling"} \cup Recording
      BY <3>1, Zenon DEF AllSettled, InFlight, At
    <3>3. \A t \in Tasks : tasks[t].step \in {"unplanned", "waiting", "sampled", "rejected"}
      BY <3>2 DEF BenchTyped, Task, Steps, Recording
    <3>4. CASE Aborted \/ At({"rejected"}) # {}
      <4>1. bench'.phase = "error"
        BY <2>0, <2>7, <3>4, SettleMoves DEF Benches
      <4>. QED BY <3>1, <3>3, <4>1 DEF RunFollowsPhase
    <3>5. CASE ~Aborted /\ At({"rejected"}) = {}
      <4>1. bench' = [bench EXCEPT !.phase = "reporting", !.closed = FALSE]
        BY <2>7, <3>5, SettleMoves, Zenon
      <4>2. bench'.phase = "reporting"
        BY <2>0, <4>1 DEF Benches
      <4>3. \A t \in Tasks : tasks[t].step # "rejected"
        BY <3>5, Zenon DEF At
      <4>4. \A t \in Tasks : tasks[t].step # "waiting"
        BY <2>7, <3>5, PoolFinishes, Zenon DEF At
      <4>5. \A t \in Tasks : tasks[t].step \in {"unplanned", "sampled"}
        BY <3>3, <4>3, <4>4
      <4>. QED BY <3>1, <4>2, <4>5 DEF RunFollowsPhase
    <3>. QED BY <3>4, <3>5
  <2>8. CASE DrainTimeout
    <3>1. bench.phase = "running" /\ Aborted /\ Awaiting /\ UNCHANGED tasks
          /\ bench' = [bench EXCEPT !.phase = "error", !.closed = TRUE]
      BY <2>8, SettleMoves, Zenon
    <3>2. bench'.phase = "error" /\ bench'.closed = TRUE /\ Aborted'
      BY <2>0, <3>1 DEF Benches, Aborted
    <3>3. \A t \in Tasks : tasks[t].step \notin Recording \/ tasks[t].step = "recording"
      BY <3>1, Zenon DEF Awaiting, At
    <3>4. \A t \in Tasks : tasks[t].step \in {"unplanned", "waiting", "sampled", "rejected", "fetching", "polling", "recording"}
      BY <3>3 DEF BenchTyped, Task, Steps, Recording
    <3>5. \A t \in Tasks : tasks'[t].step \in {"unplanned", "waiting", "sampled", "rejected"} \/ LeftBehind(t)'
      BY <3>1, <3>2, <3>4 DEF LeftBehind
    <3>. QED BY <3>2, <3>5, Zenon DEF RunFollowsPhase
  <2>9. ASSUME NEW t \in Tasks, TaskStep(t) PROVE RunFollowsPhase'
    <3>1. PICK x \in Task : tasks' = [tasks EXCEPT ![t] = x] /\ TaskGoes(t, x)
      BY <2>9, TaskMoves, Zenon
    <3>2. bench'.phase = bench.phase /\ bench'.closed = bench.closed /\ bench'.aborted = bench.aborted /\ run' = run
      BY <3>1, BenchStaysSo, TaskStoresRun, Zenon DEF TaskGoes
    <3>3. bench.phase \notin {"idle", "planning", "refused", "reporting", "reported", "optimized"}
      BY <3>1 DEF RunFollowsPhase, TaskGoes, Recording
    <3>4. CASE bench.phase = "running"
      BY <3>2, <3>4 DEF RunFollowsPhase
    <3>5. CASE bench.phase # "running"
      <4>1. LeftBehind(t)
        BY <3>1, <3>5 DEF RunFollowsPhase, TaskGoes, Recording
      <4>2. x.step \in {"polling", "recording", "rejected"}
        BY <3>1, <4>1 DEF LeftBehind, TaskGoes, Recording
      <4>3. \A u \in Tasks : (u = t /\ tasks'[u] = x) \/ tasks'[u] = tasks[u]
        BY <3>1, TaskReplaced, Zenon
      <4>4. bench'.closed /\ Aborted'
        BY <3>2, <4>1, Zenon DEF LeftBehind, Aborted
      <4>5. ASSUME NEW u \in Tasks
            PROVE  tasks'[u].step \in {"unplanned", "waiting", "sampled", "rejected"} \/ LeftBehind(u)'
        <5>1. CASE tasks'[u] = x
          BY <4>2, <4>4, <5>1 DEF LeftBehind
        <5>2. CASE tasks'[u] = tasks[u]
          <6>1. tasks[u].step \in {"unplanned", "waiting", "sampled", "rejected"} \/ tasks[u].step \in {"fetching", "polling", "recording"}
            BY <3>5, Zenon DEF RunFollowsPhase, LeftBehind
          <6>. QED BY <4>4, <5>2, <6>1, Zenon DEF LeftBehind
        <5>. QED BY <4>3, <5>1, <5>2
      <4>. QED BY <3>2, <3>3, <3>5, <4>5 DEF RunFollowsPhase
    <3>. QED BY <3>4, <3>5
  <2>10. CASE persistCost
    BY <2>10, Zenon DEF persistCost, createRun, benchVars, RunFollowsPhase, LeftBehind, Aborted
  <2>. QED BY <1>2, <2>1, <2>2, <2>3, <2>4, <2>5, <2>6, <2>7, <2>8, <2>9, <2>10, Zenon DEF BenchActs, BenchStep, OptimizeStep
<1>. QED BY <1>1, <1>2, OthersFade

\* What a step of the benchmark does to the run and its samples.
LEMMA BenchSettles ==
    ASSUME Typed, RunFollowsPhase, BenchActs
    PROVE  /\ run.status \in {"completed", "failed", "cancelled"} =>
                run'.status \in {run.status, "none"} /\ \A t \in Tasks : samples'[t] \in {samples[t], NoSample}
           /\ run.status = "running" /\ run'.status = "completed" => Planned = At({"sampled"})
<1>. USE DEF Typed
<1>0. ASSUME UNCHANGED <<run, samples>>
      PROVE  /\ run'.status \in {run.status, "none"} /\ \A t \in Tasks : samples'[t] \in {samples[t], NoSample}
             /\ run.status = "running" => run'.status # "completed"
  BY <1>0
<1>1. CASE Starts \/ Stops \/ AbortBench \/ TakeTask \/ Report \/ OptimizeFails
  <2>1. UNCHANGED <<run, samples>>
    BY <1>1, TakeMoves, Zenon DEF Starts, StartBench, Stops, AbortBench, Report, OptimizeFails, storeVars
  <2>. QED BY <1>0, <2>1, Zenon
<1>2. CASE persistLatency \/ persistCost
  <2>1. UNCHANGED <<run, samples>>
    BY <1>2, Zenon DEF persistLatency, persistCost, createRun
  <2>. QED BY <1>0, <2>1, Zenon
<1>3. CASE Plan
  <2>1. run.status = "none"
    BY <1>3, PlanMoves, Zenon DEF RunFollowsPhase
  <2>. QED BY <2>1
<1>4. CASE Settle \/ DrainTimeout
  <2>1. bench.phase = "running"
    BY <1>4, SettleMoves, Zenon
  <2>2. run.status \in {"running", "none"} /\ run \in [status : Statuses, created_at : Nat]
    BY <2>1 DEF RunFollowsPhase, StoreTyped
  <2>3. SUFFICES ASSUME run.status = "running", run'.status = "completed" PROVE Planned = At({"sampled"})
    BY <2>2
  <2>4. ~Updates(statusForError)
    <3>1. statusForError # "completed"
      BY StatusTyped
    <3>. QED BY <2>2, <2>3, <3>1 DEF Updates
  <2>5. Settle /\ ~Aborted /\ At({"rejected"}) = {} /\ AllSettled
    BY <1>4, <2>4, SettleMoves, Zenon
  <2>6. At({"waiting"}) = {} /\ InFlight = {}
    BY <2>5, PoolFinishes, Zenon DEF AllSettled
  <2>7. ASSUME NEW t \in Tasks PROVE tasks[t].step \in {"unplanned", "sampled"}
    <3>1. tasks[t].step \notin {"waiting", "rejected", "fetching", "polling"} \cup Recording
      BY <2>5, <2>6 DEF At, InFlight
    <3>. QED BY <3>1 DEF BenchTyped, Task, Steps, Recording
  <2>. QED BY <2>7 DEF Planned, At
<1>5. ASSUME NEW t \in Tasks, TaskStep(t)
      PROVE  /\ run' = run
             /\ run.status \in {"completed", "failed", "cancelled"} => \A u \in Tasks : samples'[u] = samples[u]
  <2>1. PICK x \in Task : TaskGoes(t, x)
    BY <1>5, TaskMoves, Zenon
  <2>2. run' = run
    BY <2>1, TaskStoresRun, Zenon DEF TaskGoes
  <2>3. ASSUME run.status \in {"completed", "failed", "cancelled"} PROVE x.step # "sampled"
    <3>1. bench.phase \notin {"running", "idle", "planning", "refused"}
      BY <2>3 DEF RunFollowsPhase
    <3>2. tasks[t].step # "sampling"
      BY <3>1 DEF RunFollowsPhase, LeftBehind
    <3>. QED BY <2>1, <3>2, Zenon DEF TaskGoes
  <2>4. x.step # "sampled" => UNCHANGED samples
    BY <2>1, Zenon DEF TaskGoes, TaskStores, storeVars
  <2>. QED BY <2>2, <2>3, <2>4, Zenon
<1>6. ASSUME NEW t \in Tasks, TaskStep(t)
      PROVE  /\ run.status \in {"completed", "failed", "cancelled"} =>
                  run'.status \in {run.status, "none"} /\ \A u \in Tasks : samples'[u] \in {samples[u], NoSample}
             /\ run.status = "running" /\ run'.status = "completed" => Planned = At({"sampled"})
  BY <1>5, <1>6
<1>. QED BY <1>0, <1>1, <1>2, <1>3, <1>4, <1>6, Zenon DEF BenchActs, BenchStep, OptimizeStep

\* The first inductive invariant.
PhaseInv == Typed /\ RunFollowsPhase

LEMMA PhaseInit == ASSUME ControlInit PROVE PhaseInv
<1>1. RunFollowsPhase
  BY DEF ControlInit, Init, InitBench, RunFollowsPhase, Idle
<1>. QED BY <1>1, TypedInit DEF PhaseInv

LEMMA PhaseInductive == ASSUME PhaseInv, [Next]_vars PROVE PhaseInv'
BY EveryStep, TypedStep, PhaseStep, Zenon DEF PhaseInv

\* Every variable keeps its type, and the tasks and the status of a run keep step with the
\* phase of its benchmark: no task samples, reads or completes a recording once the run's
\* status is written (bench-runner.ts: runBenchmarkOperation; bench-runtime.ts:
\* executeBenchmarkTask).
THEOREM ControlPlaneTyped == Spec => []PhaseInv
<1>1. ControlInit => PhaseInv
  BY PhaseInit
<1>2. PhaseInv /\ [Next]_vars => PhaseInv'
  BY PhaseInductive
<1>. QED BY <1>1, <1>2, PTL DEF Spec

\* A settled run is final and honest, for any number of tasks and workers: after its status
\* is written no late task adds a sample to it or changes its status, and it is completed
\* only when every planned task has delivered its sample (bench-runner.ts: runBenchmarkOperation,
\* finalizing a run; concurrency.ts: runTasksWithConcurrency).
THEOREM SettledIsFinal == Spec => SettledRunsAreFinal
<1>1. PhaseInv /\ [Next]_vars =>
        [/\ run.status \in {"completed", "failed", "cancelled"} =>
              /\ run'.status \in {run.status, "none"}
              /\ \A t \in Tasks : samples'[t] \in {samples[t], NoSample}
         /\ run.status = "running" /\ run'.status = "completed" => Planned = At({"sampled"})]_<<run, samples>>
  <2>1. SUFFICES ASSUME PhaseInv, [Next]_vars
        PROVE  /\ run.status \in {"completed", "failed", "cancelled"} =>
                    /\ run'.status \in {run.status, "none"}
                    /\ \A t \in Tasks : samples'[t] \in {samples[t], NoSample}
               /\ run.status = "running" /\ run'.status = "completed" => Planned = At({"sampled"})
    BY Zenon
  <2>2. CASE BenchActs
    BY <2>1, <2>2, BenchSettles, Zenon DEF PhaseInv
  <2>3. CASE Fades
    <3>1. run'.status \in {run.status, "none"}
      BY <2>1, <2>3 DEF Fades, PhaseInv, Typed, StoreTyped
    <3>2. run.status = "running" => run'.status # "completed"
      BY <3>1
    <3>. QED BY <2>3, <3>1, <3>2, Zenon DEF Fades
  <2>. QED BY <2>1, <2>2, <2>3, EveryStep, OthersFade, Zenon DEF PhaseInv, Typed
<1>. QED BY <1>1, ControlPlaneTyped, PTL DEF Spec, SettledRunsAreFinal

-----------------------------------------------------------------------------
(***************************************************************************)
(* What a repair of everything has done.                                   *)
(***************************************************************************)
Right(r) == executions[r] = buildFromObservations(observations[r])

RepairCovers ==
    scan.kind = "repair_all" =>
        /\ scan.step = "list" => \A r \in untouched : r <= scan.after => Right(r)
        /\ scan.step \in {"open", "write"} => \A r \in untouched \ scan.batch :
             r <= scan.after \/ Cardinality(scan.batch) < BatchSize => Right(r)
        /\ scan.step = "done" => \A r \in untouched : Right(r)

\* What it is about to write: right for what nobody touched, and right altogether while
\* nobody has committed since its transaction began.
PlanIsRight ==
    scan.step = "write" =>
        /\ \A r \in untouched \cap scan.batch :
             IF r \in DOMAIN scan.plan THEN scan.plan[r] = buildFromObservations(observations[r]) ELSE Right(r)
        /\ ~changed => \A r \in DOMAIN scan.plan : scan.plan[r] = buildFromObservations(observations[r])

RepairInv == RepairCovers /\ PlanIsRight

LEMMA GrowthLeaves ==
    ASSUME StoreTyped, NEW r, NEW from, Grows(r, from)
    PROVE  LeavesUntouched
BY Zenon DEF StoreTyped, Grows, LeavesUntouched

LEMMA OthersLeave ==
    ASSUME StoreTyped, BenchTyped, Quiet \/ StoreActs \/ BenchActs
    PROVE  LeavesUntouched /\ scan' = scan
<1>0. ASSUME UNCHANGED storeVars PROVE LeavesUntouched
  BY <1>0, Zenon DEF LeavesUntouched, storeVars
<1>1. ASSUME UNCHANGED <<observations, executions>>, changed' = TRUE \/ changed' = changed, untouched' = untouched
      PROVE  LeavesUntouched
  <2>1. ~changed' => ~changed
    BY <1>1
  <2>. QED BY <1>1, <2>1, Zenon DEF LeavesUntouched
<1>2. ASSUME Committed({}) PROVE changed' = TRUE /\ untouched' = untouched
  BY <1>2, Zenon DEF Committed
<1>3. scan' = scan
  BY Zenon DEF Quiet, StoreActs, BenchActs
<1>4. CASE Quiet
  BY <1>0, <1>3, <1>4, Zenon DEF Quiet, storeVars
<1>5. CASE StoreActs
  <2>1. CASE Tick
    BY <1>1, <1>3, <2>1, Zenon DEF Tick
  <2>2. ASSUME NEW cutoff \in 0 .. now, pruneOlderThan(cutoff) PROVE LeavesUntouched
    <3>1. Prunes(cutoff)
      BY <2>2, PruneMoves, CutoffIsTime, Zenon
    <3>. QED BY <3>1, Zenon DEF Prunes
  <2>3. CASE deleteBenchmarkRun
    BY <1>1, <1>2, <1>3, <2>3, Zenon DEF deleteBenchmarkRun
  <2>4. ASSUME NEW r \in GatewayRequests, Observes(r) PROVE LeavesUntouched
    BY <2>4, ObserveGrows, GrowthLeaves, Zenon DEF Observes
  <2>. QED BY <1>3, <1>5, <2>1, <2>2, <2>3, <2>4, Zenon DEF StoreActs
<1>6. CASE BenchActs
  <2>1. CASE Starts \/ Stops \/ AbortBench \/ TakeTask \/ Report \/ OptimizeFails
    BY <1>0, <1>3, <2>1, TakeMoves, Zenon DEF Starts, StartBench, Stops, AbortBench, Report, OptimizeFails
  <2>2. CASE persistLatency \/ persistCost
    BY <1>1, <1>2, <1>3, <2>2, Zenon DEF persistLatency, persistCost, createRun
  <2>3. CASE Plan
    BY <1>0, <1>1, <1>3, <2>3, PlanMoves, Zenon
  <2>4. CASE Settle \/ DrainTimeout
    BY <1>1, <1>3, <2>4, SettleMoves, Zenon DEF Updates
  <2>5. ASSUME NEW t \in Tasks, TaskStep(t) PROVE LeavesUntouched
    <3>1. PICK x \in Task : TaskStores(t, x)
      BY <2>5, TaskMoves, Zenon DEF TaskGoes
    <3>. QED BY <1>0, <1>1, <3>1, GrowthLeaves, Zenon DEF TaskStores
  <2>. QED BY <1>3, <1>6, <2>1, <2>2, <2>3, <2>4, <2>5, Zenon DEF BenchActs, BenchStep, OptimizeStep
<1>. QED BY <1>4, <1>5, <1>6

LEMMA UnknownIsRight ==
    ASSUME StoreTyped, NEW r \in Requests, ~known(r)
    PROVE  Right(r)
<1>1. observations[r] = <<>> /\ executions[r] = NoExecution /\ observations[r] \in Seq(Row)
  BY Zenon DEF known, StoreTyped
<1>. QED BY <1>1, BuildTyped, Zenon DEF Right

LEMMA VerifiedIsRight == ASSUME NEW r, verify(r) = "ok" PROVE Right(r)
<1>. DEFINE expected == buildFromObservations(observations[r])
            orphan == expected = NoExecution /\ executions[r] # NoExecution
            missing == executions[r] = NoExecution
            result == IF expected = executions[r] THEN "ok" ELSE "drift"
<1>1. verify(r) = CASE orphan -> "orphan_summary" [] missing -> "missing_summary" [] OTHER -> result
  BY Zenon DEF verify
<1>2. ~(orphan /\ missing)
  BY Zenon
<1>. HIDE DEF orphan, missing, result
<1>3. result = "ok"
  BY <1>1, <1>2
<1>4. expected = executions[r]
  BY <1>3, Zenon DEF result
<1>. QED BY <1>4, Zenon DEF Right

\* The ids of a batch are the first ones: a known id that is not among them is beyond the
\* last of them, and there is none when the batch is not full.
LEMMA FirstIds ==
    ASSUME NEW S \in SUBSET Requests
    PROVE  /\ FirstOf(S) = {} => S = {}
           /\ \A r \in S \ FirstOf(S) : ~(Cardinality(FirstOf(S)) < BatchSize)
           /\ \A r \in S \ FirstOf(S), m \in FirstOf(S) : ~(r <= m)
<1>. DEFINE F == FirstOf(S)
            below(r) == {q \in S : q < r}
<1>1. S \in SUBSET Nat /\ IsFiniteSet(S)
  <2>1. Requests = 1 .. (RequestCount + 2 * TaskCount) /\ RequestCount + 2 * TaskCount \in Nat
    BY TraceStoreAssumption DEF Requests
  <2>2. IsFiniteSet(Requests) /\ Requests \in SUBSET Nat
    BY <2>1, FS_Interval
  <2>. QED BY <2>2, FS_Subset, Zenon
<1>2. \A r \in S : r \in F <=> Cardinality(below(r)) < BatchSize
  BY Zenon DEF FirstOf
<1>3. F \subseteq S
  BY Zenon DEF FirstOf
<1>4. \A r \in S : IsFiniteSet(below(r)) /\ Cardinality(below(r)) \in Nat
  <2>1. \A r \in S : below(r) \subseteq S
    BY Zenon
  <2>. HIDE DEF below
  <2>. QED BY <1>1, <2>1, FS_Subset, FS_CardinalityType, Zenon
<1>5. IsFiniteSet(F) /\ Cardinality(F) \in Nat
  BY <1>1, <1>3, FS_Subset, FS_CardinalityType, Zenon
<1>6. ASSUME NEW r \in S \ F, Cardinality(F) < BatchSize PROVE FALSE
  <2>1. S \ F \in SUBSET Nat /\ S \ F # {}
    BY <1>1, <1>6, Zenon
  <2>2. PICK m \in S \ F : \A k \in S \ F : m <= k
    BY <2>1, LeastNatural, Zenon
  <2>3. below(m) \subseteq F
    <3>1. ASSUME NEW q \in below(m), q \notin F PROVE FALSE
      <4>1. q \in S /\ q < m /\ m <= q
        BY <2>2, <3>1, Zenon
      <4>2. q \in Nat /\ m \in Nat
        BY <1>1, <4>1
      <4>. QED BY <4>1, <4>2
    <3>. QED BY <3>1, Zenon
  <2>. HIDE DEF below, F
  <2>4. Cardinality(below(m)) <= Cardinality(F)
    BY <1>5, <2>3, FS_Subset, Zenon
  <2>5. Cardinality(below(m)) < BatchSize
    BY <1>4, <1>5, <1>6, <2>2, <2>4, BatchAssumption
  <2>. QED BY <1>2, <2>2, <2>5, Zenon
<1>7. ASSUME NEW r \in S \ F, NEW m \in F, r <= m PROVE FALSE
  <2>1. below(r) \subseteq below(m)
    <3>1. ASSUME NEW q \in below(r) PROVE q \in below(m)
      <4>1. q \in S /\ q < r /\ q \in Nat /\ r \in Nat /\ m \in Nat
        BY <1>1, <1>3, <3>1, Zenon
      <4>2. q < m
        BY <1>7, <4>1
      <4>. QED BY <4>1, <4>2, Zenon
    <3>. QED BY <3>1, Zenon
  <2>2. m \in S /\ Cardinality(below(m)) < BatchSize
    BY <1>2, <1>3, Zenon
  <2>. HIDE DEF below, F
  <2>3. Cardinality(below(r)) <= Cardinality(below(m))
    BY <1>4, <2>1, <2>2, FS_Subset, Zenon
  <2>4. Cardinality(below(r)) < BatchSize
    BY <1>4, <2>2, <2>3, BatchAssumption
  <2>. QED BY <1>2, <2>4, Zenon
<1>8. ASSUME F = {}, S # {} PROVE FALSE
  <2>1. Cardinality(F) < BatchSize
    BY <1>8, FS_EmptySet, BatchAssumption
  <2>. QED BY <1>6, <1>8, <2>1, Zenon
<1>. QED BY <1>6, <1>7, <1>8, Zenon DEF F

LEMMA RepairStep ==
    ASSUME Typed, RepairInv, Quiet \/ StoreActs \/ ScanActs \/ BenchActs
    PROVE  RepairInv'
<1>. USE DEF Typed
<1>0. scan.batch \in SUBSET Requests /\ untouched \in SUBSET Requests /\ scan.after \in Nat
  BY DEF ScanTyped, StoreTyped
<1>1. ASSUME LeavesUntouched, scan' = scan PROVE RepairInv'
  <2>1. /\ untouched' \subseteq untouched
        /\ \A r \in untouched' : executions'[r] = executions[r] /\ observations'[r] = observations[r]
        /\ ~changed' => ~changed /\ observations' = observations
    BY <1>1, Zenon DEF LeavesUntouched
  <2>2. \A r \in untouched' : Right(r) => Right(r)'
    BY <2>1, Zenon DEF Right
  <2>3. RepairCovers'
    BY <1>1, <2>1, <2>2, Zenon DEF RepairInv, RepairCovers
  <2>4. PlanIsRight'
    BY <1>1, <2>1, <2>2, Zenon DEF RepairInv, PlanIsRight
  <2>. QED BY <2>3, <2>4 DEF RepairInv
<1>2. ASSUME scan'.kind # "repair_all", scan'.step # "write" PROVE RepairInv'
  BY <1>2 DEF RepairInv, RepairCovers, PlanIsRight
<1>3. ASSUME UNCHANGED <<untouched, observations, executions>> PROVE \A r : Right(r)' <=> Right(r)
  BY <1>3, Zenon DEF Right
<1>4. CASE ScanActs
  <2>1. CASE \E by \in {"mcp", "cli"} : verifyAll(by) \/ repairOne(by)
    <3>1. scan'.kind # "repair_all" /\ scan'.step # "write"
      BY <2>1 DEF verifyAll, repairOne, Begins, Scan
    <3>. QED BY <1>2, <3>1
  <2>2. CASE \E by \in {"mcp", "cli"} : repairAll(by)
    <3>1. scan'.step = "list" /\ scan'.after = 0
      BY <2>2 DEF repairAll, Begins, Scan
    <3>2. \A r \in untouched' : ~(r <= 0)
      <4>1. \A r \in Requests : ~(r <= 0)
        BY TraceStoreAssumption DEF Requests
      <4>2. untouched' \subseteq Requests
        BY <2>2, Zenon DEF repairAll, Begins
      <4>. QED BY <4>1, <4>2, Zenon
    <3>. QED BY <3>1, <3>2 DEF RepairInv, RepairCovers, PlanIsRight
  <2>3. CASE EndScan \/ RepairThrows
    <3>1. scan'.step \in {"idle", "failed"}
      <4>1. scan' = NoScan \/ scan' = [scan EXCEPT !.step = "failed", !.plan = <<>>]
        BY <2>3, Zenon DEF EndScan, RepairThrows
      <4>2. scan' = NoScan => scan'.step = "idle"
        BY DEF NoScan, Scan
      <4>3. scan' = [scan EXCEPT !.step = "failed", !.plan = <<>>] => scan'.step = "failed"
        BY DEF ScanTyped
      <4>. QED BY <4>1, <4>2, <4>3
    <3>. QED BY <3>1 DEF RepairInv, RepairCovers, PlanIsRight
  <2>4. CASE verifyBatch
    <3>. DEFINE step == AfterBatch
    <3>1. scan' = [scan EXCEPT !.step = step] /\ scan.kind = "verify_all" /\ step \in {"done", "list"}
      BY <2>4, Zenon DEF verifyBatch, AfterBatch
    <3>. HIDE DEF step
    <3>2. scan'.kind = "verify_all" /\ scan'.step # "write"
      BY <3>1 DEF ScanTyped
    <3>. QED BY <1>2, <3>2
  <2>5. CASE ListBatch
    <3>. DEFINE ids == NextBatch(scan)
                after == IF ids = {} THEN scan.after ELSE Max(ids)
                step == IF ids = {} THEN "done" ELSE "open"
    <3>1. /\ scan' = [scan EXCEPT !.batch = ids, !.after = after, !.offset = scan.offset + BatchSize, !.step = step]
          /\ scan.step = "list" /\ UNCHANGED storeVars
      BY <2>5, Zenon DEF ListBatch
    <3>2. scan'.batch = ids /\ scan'.after = after /\ scan'.step = step /\ scan'.kind = scan.kind
      <4>. HIDE DEF ids, after, step
      <4>. QED BY <3>1 DEF ScanTyped
    <3>3. UNCHANGED <<untouched, observations, executions>>
      BY <3>1, Zenon DEF storeVars
    <3>4. PlanIsRight'
      BY <3>2 DEF PlanIsRight
    <3>5. SUFFICES ASSUME scan.kind = "repair_all" PROVE RepairCovers'
      BY <3>2, <3>4, Zenon DEF RepairInv, RepairCovers
    <3>. DEFINE S == {r \in Requests : known(r) /\ r > scan.after}
    <3>6. ids = FirstOf(S) /\ S \in SUBSET Requests
      BY <3>5, Zenon DEF NextBatch, listKnownRequestIdsAfter
    <3>7. ASSUME NEW r \in untouched, r \notin S PROVE Right(r)
      <4>1. r \in Requests /\ r \in Nat
        BY <1>0, TraceStoreAssumption DEF Requests
      <4>2. CASE ~known(r)
        BY <4>1, <4>2, UnknownIsRight, Zenon
      <4>3. CASE known(r)
        <5>1. ~(r > scan.after)
          BY <3>7, <4>1, <4>3, Zenon
        <5>2. r <= scan.after
          BY <1>0, <4>1, <5>1
        <5>. QED BY <3>1, <3>5, <5>2, Zenon DEF RepairInv, RepairCovers
      <4>. QED BY <4>2, <4>3
    <3>8. CASE ids = {}
      <4>1. \A r \in untouched : Right(r)
        BY <3>6, <3>7, <3>8, FirstIds, Zenon
      <4>2. scan'.step = "done"
        BY <3>2, <3>8, Zenon
      <4>3. \A r \in untouched' : Right(r)'
        BY <1>3, <3>3, <4>1, Zenon
      <4>. QED BY <4>2, <4>3 DEF RepairCovers
    <3>9. CASE ids # {}
      <4>1. Max(ids) \in ids /\ scan'.after = Max(ids) /\ scan'.batch = ids /\ scan'.step = "open"
        BY <3>2, <3>9, ListedIds, Zenon
      <4>2. ASSUME NEW r \in untouched \ ids, r <= Max(ids) \/ Cardinality(ids) < BatchSize PROVE Right(r)
        BY <3>6, <3>7, <4>1, <4>2, FirstIds, Zenon
      <4>3. \A r \in untouched' \ scan'.batch : r <= scan'.after \/ Cardinality(scan'.batch) < BatchSize => Right(r)'
        BY <1>3, <3>3, <4>1, <4>2, Zenon
      <4>. QED BY <4>1, <4>3 DEF RepairCovers
    <3>. QED BY <3>8, <3>9
  <2>6. CASE BeginRepair
    <3>. DEFINE broken == {r \in scan.batch : known(r) /\ verify(r) # "ok"}
                plan == [r \in broken |-> buildFromObservations(observations[r])]
    <3>1. /\ scan' = [scan EXCEPT !.step = "write", !.plan = plan] /\ scan.step = "open"
          /\ UNCHANGED <<untouched, observations, executions>>
      BY <2>6, Zenon DEF BeginRepair
    <3>2. scan'.step = "write" /\ scan'.plan = plan /\ scan'.batch = scan.batch /\ scan'.after = scan.after /\ scan'.kind = scan.kind
      <4>. HIDE DEF plan
      <4>. QED BY <3>1 DEF ScanTyped
    <3>3. DOMAIN plan = broken /\ \A r \in broken : plan[r] = buildFromObservations(observations[r])
      BY Zenon
    <3>4. ASSUME NEW r \in untouched \cap scan.batch, r \notin broken PROVE Right(r)
      BY <1>0, <3>4, UnknownIsRight, VerifiedIsRight, Zenon
    <3>. HIDE DEF plan, broken
    <3>5. PlanIsRight'
      <4>1. \A r \in DOMAIN scan'.plan : scan'.plan[r] = buildFromObservations(observations'[r])
        BY <3>1, <3>2, <3>3, Zenon
      <4>2. \A r \in untouched' \cap scan'.batch : r \notin DOMAIN scan'.plan => Right(r)'
        BY <1>3, <3>1, <3>2, <3>3, <3>4, Zenon
      <4>. QED BY <4>1, <4>2, Zenon DEF PlanIsRight
    <3>6. RepairCovers'
      <4>1. SUFFICES ASSUME scan.kind = "repair_all"
                     PROVE  \A r \in untouched' \ scan'.batch :
                              r <= scan'.after \/ Cardinality(scan'.batch) < BatchSize => Right(r)'
        BY <3>2 DEF RepairCovers
      <4>. QED BY <1>3, <3>1, <3>2, <4>1, Zenon DEF RepairInv, RepairCovers
    <3>. QED BY <3>5, <3>6 DEF RepairInv
  <2>7. CASE CommitRepair
    <3>. DEFINE step == AfterBatch
    <3>1. /\ scan' = [scan EXCEPT !.step = step, !.plan = <<>>] /\ scan.step = "write"
          /\ executions' = Repaired /\ UNCHANGED <<observations, untouched>>
      BY <2>7, Zenon DEF CommitRepair, CommitsBatch
    <3>2. step \in {"done", "list"}
      BY DEF AfterBatch
    <3>3. scan'.step = step /\ scan'.batch = scan.batch /\ scan'.after = scan.after /\ scan'.kind = scan.kind
      <4>. HIDE DEF step
      <4>. QED BY <3>1 DEF ScanTyped
    <3>4. PlanIsRight'
      BY <3>2, <3>3 DEF PlanIsRight
    <3>5. SUFFICES ASSUME scan.kind = "repair_all" PROVE RepairCovers'
      BY <3>3, <3>4, Zenon DEF RepairInv, RepairCovers
    <3>6. step = "done" => Cardinality(scan.batch) < BatchSize
      BY <3>5 DEF AfterBatch
    <3>7. DOMAIN scan.plan \subseteq scan.batch
      BY DEF ScanTyped
    <3>8. ASSUME NEW r \in untouched \cap scan.batch PROVE Right(r)'
      <4>1. r \in Requests
        BY <1>0
      <4>2. CASE r \in DOMAIN scan.plan
        <5>1. scan.plan[r] = buildFromObservations(observations[r])
          BY <3>1, <4>2, Zenon DEF RepairInv, PlanIsRight
        <5>. QED BY <3>1, <4>2, <5>1, RepairTyped, Zenon DEF Right
      <4>3. CASE r \notin DOMAIN scan.plan
        <5>1. Right(r)
          BY <3>1, <4>3, Zenon DEF RepairInv, PlanIsRight
        <5>. QED BY <3>1, <4>1, <4>3, <5>1, RepairTyped, Zenon DEF Right
      <4>. QED BY <4>2, <4>3
    <3>9. ASSUME NEW r \in untouched, r \notin scan.batch, r <= scan.after \/ Cardinality(scan.batch) < BatchSize
          PROVE  Right(r)'
      <4>1. Right(r)
        BY <3>1, <3>5, <3>9, Zenon DEF RepairInv, RepairCovers
      <4>2. r \in Requests \ DOMAIN scan.plan
        BY <1>0, <3>7, <3>9
      <4>. QED BY <3>1, <4>1, <4>2, RepairTyped, Zenon DEF Right
    <3>. HIDE DEF step
    <3>10. \A r \in untouched' : r <= scan'.after => Right(r)'
      BY <3>1, <3>3, <3>8, <3>9, Zenon
    <3>11. scan'.step = "done" => \A r \in untouched' : Right(r)'
      BY <3>1, <3>3, <3>6, <3>8, <3>9, Zenon
    <3>. QED BY <3>2, <3>3, <3>10, <3>11 DEF RepairCovers
  <2>. QED BY <1>4, <2>1, <2>2, <2>3, <2>4, <2>5, <2>6, <2>7, Zenon DEF ScanActs, ScanStep
<1>. QED BY <1>1, <1>4, OthersLeave

LEMMA RepairInit == ASSUME ControlInit PROVE RepairInv
BY DEF ControlInit, InitScan, NoScan, Scan, RepairInv, RepairCovers, PlanIsRight

\* A repair of everything that ends without an error has missed nothing, however many
\* requests there are, however small its batches and whoever prunes, deletes and records
\* meanwhile: each request known when it began that nobody wrote to since has the summary
\* its rows give (service.ts: repairAllRequestExecutions;
\* request-executions.ts: verifyAll, repair).
THEOREM RepairIsComplete == Spec => []RepairAllIsComplete
<1>1. ControlInit => Typed /\ RepairInv
  BY TypedInit, RepairInit
<1>2. Typed /\ RepairInv /\ [Next]_vars => (Typed /\ RepairInv)'
  BY TypedStep, RepairStep, EveryStep, Zenon
<1>3. RepairInv => RepairAllIsComplete
  BY Zenon DEF RepairInv, RepairCovers, Right, RepairAllIsComplete
<1>. QED BY <1>1, <1>2, <1>3, PTL DEF Spec

-----------------------------------------------------------------------------
(***************************************************************************)
(* A summary does not outlive its rows.                                    *)
(***************************************************************************)
LEMMA RowsMove ==
    ASSUME StoreTyped, BenchTyped, Quiet \/ StoreActs \/ ScanActs \/ BenchActs
    PROVE  \/ UNCHANGED <<observations, executions>>
           \/ \E r \in Requests : \E from : Grows(r, from)
           \/ \E cutoff \in Nat : Prunes(cutoff)
           \/ CommitRepair
<1>1. CASE Quiet
  BY <1>1, Zenon DEF Quiet, storeVars
<1>2. CASE StoreActs
  <2>1. CASE Tick \/ deleteBenchmarkRun
    BY <2>1, Zenon DEF Tick, deleteBenchmarkRun
  <2>2. ASSUME NEW cutoff \in 0 .. now, pruneOlderThan(cutoff) PROVE \E c \in Nat : Prunes(c)
    BY <2>2, PruneMoves, CutoffIsTime, Zenon
  <2>3. ASSUME NEW r \in GatewayRequests, Observes(r) PROVE \E q \in Requests : \E from : Grows(q, from)
    <3>1. r \in Requests
      BY TraceStoreAssumption DEF GatewayRequests, Requests
    <3>. QED BY <2>3, <3>1, ObserveGrows, Zenon DEF Observes
  <2>. QED BY <1>2, <2>1, <2>2, <2>3, Zenon DEF StoreActs
<1>3. CASE ScanActs
  BY <1>3, Zenon DEF ScanActs, ScanStep, verifyAll, repairAll, repairOne, Begins, EndScan, ListBatch, verifyBatch,
     BeginRepair, RepairThrows, storeVars
<1>4. CASE BenchActs
  <2>1. CASE Starts \/ Stops \/ AbortBench \/ TakeTask \/ Report \/ OptimizeFails
    BY <2>1, TakeMoves, Zenon DEF Starts, StartBench, Stops, AbortBench, Report, OptimizeFails, storeVars
  <2>2. CASE persistLatency \/ persistCost
    BY <2>2, Zenon DEF persistLatency, persistCost, createRun
  <2>3. CASE Plan
    BY <2>3, PlanMoves, Zenon DEF storeVars
  <2>4. CASE Settle \/ DrainTimeout
    BY <2>4, SettleMoves, Zenon DEF Updates
  <2>5. ASSUME NEW t \in Tasks, TaskStep(t)
        PROVE  UNCHANGED <<observations, executions>> \/ \E r \in Requests : \E from : Grows(r, from)
    <3>1. PICK x \in Task : TaskStores(t, x)
      BY <2>5, TaskMoves, Zenon DEF TaskGoes
    <3>2. tasks[t].attempt \in {1, 2}
      BY DEF BenchTyped, Task
    <3>3. Synthetic(t, tasks[t].attempt) \in Requests
      BY <3>2, SyntheticTyped, Zenon
    <3>. QED BY <3>1, <3>3, Zenon DEF TaskStores, storeVars
  <2>. QED BY <1>4, <2>1, <2>2, <2>3, <2>4, <2>5, Zenon DEF BenchActs, BenchStep, OptimizeStep
<1>. QED BY <1>1, <1>2, <1>3, <1>4

Founded(r) ==
    executions[r] # NoExecution => \E i \in DOMAIN observations[r] : observations[r][i].at = executions[r].started_at

LEMMA FoundedStep ==
    ASSUME Typed, RepairInv, SummariesAreFounded, Quiet \/ StoreActs \/ ScanActs \/ BenchActs
    PROVE  SummariesAreFounded'
<1>. USE DEF Typed
<1>1. \A r \in Requests : Founded(r)
  BY Zenon DEF SummariesAreFounded, Founded
<1>2. SUFFICES ASSUME NEW r \in Requests PROVE Founded(r)'
  BY Zenon DEF SummariesAreFounded, Founded
<1>3. CASE UNCHANGED <<observations, executions>>
  BY <1>1, <1>3, Zenon DEF Founded
<1>4. ASSUME NEW q \in Requests, NEW from, Grows(q, from) PROVE Founded(r)'
  <2>1. CASE r # q
    BY <1>1, <1>4, <2>1, Zenon DEF Grows, Founded
  <2>2. CASE r = q
    <3>1. SUFFICES ASSUME executions'[r] # NoExecution
                   PROVE  \E i \in DOMAIN observations'[r] : observations'[r][i].at = executions'[r].started_at
      BY Zenon DEF Founded
    <3>2. CASE executions[r] # NoExecution /\ executions'[r].started_at = executions[r].started_at
      <4>1. PICK i \in DOMAIN observations[r] : observations[r][i].at = executions[r].started_at
        BY <1>1, <3>2, Zenon DEF Founded
      <4>2. i \in DOMAIN observations'[r] /\ observations'[r][i] = observations[r][i]
        BY <1>4, <2>2, Zenon DEF Grows
      <4>. QED BY <3>2, <4>1, <4>2, Zenon
    <3>. QED BY <1>4, <2>2, <3>1, <3>2, Zenon DEF Grows
  <2>. QED BY <2>1, <2>2
<1>5. ASSUME NEW cutoff \in Nat, Prunes(cutoff) PROVE Founded(r)'
  <2>1. SUFFICES ASSUME executions'[r] # NoExecution
                 PROVE  \E j \in DOMAIN observations'[r] : observations'[r][j].at = executions'[r].started_at
    BY Zenon DEF Founded
  <2>2. executions'[r] = executions[r] /\ executions[r].started_at >= cutoff
    BY <1>5, <2>1, Zenon DEF Prunes
  <2>3. PICK i \in DOMAIN observations[r] : observations[r][i].at = executions[r].started_at
    BY <1>1, <2>1, <2>2, Zenon DEF Founded
  <2>4. PICK j \in DOMAIN observations'[r] : observations'[r][j] = observations[r][i]
    BY <1>5, <2>2, <2>3, PrunedRows, Zenon
  <2>. QED BY <2>2, <2>3, <2>4, Zenon
<1>6. CASE CommitRepair
  <2>1. executions' = Repaired /\ observations' = observations /\ scan.step = "write" /\ ~Conflicts
    BY <1>6, Zenon DEF CommitRepair, CommitsBatch
  <2>2. CASE r \in DOMAIN scan.plan
    <3>1. scan.plan # <<>>
      BY <2>2, NothingPlanned, Zenon
    <3>2. ~changed
      BY <2>1, <3>1, Zenon DEF Conflicts
    <3>3. executions'[r] = buildFromObservations(observations[r])
      BY <2>1, <2>2, <3>2, RepairTyped, Zenon DEF RepairInv, PlanIsRight
    <3>4. observations[r] \in Seq(Row)
      BY Zenon DEF StoreTyped
    <3>5. CASE observations[r] = <<>>
      BY <3>3, <3>4, <3>5, BuildTyped, Zenon DEF Founded
    <3>6. CASE observations[r] # <<>>
      <4>1. 1 \in DOMAIN observations[r]
        BY <3>4, <3>6
      <4>2. executions'[r].started_at = observations[r][1].at
        BY <3>3, <3>4, <3>6, BuildTyped, Zenon
      <4>. QED BY <2>1, <4>1, <4>2, Zenon DEF Founded
    <3>. QED BY <3>5, <3>6
  <2>3. CASE r \notin DOMAIN scan.plan
    <3>1. executions'[r] = executions[r]
      BY <2>1, <2>3, RepairTyped, Zenon
    <3>. QED BY <1>1, <2>1, <3>1, Zenon DEF Founded
  <2>. QED BY <2>2, <2>3
<1>. QED BY <1>3, <1>4, <1>5, <1>6, RowsMove, Zenon

\* No summary outlives its observations, for any number of requests, tasks and deletions:
\* whatever a prune, a repair, the gateway's writer and a benchmark do at once, a stored
\* summary begins with an observation that is still stored (request-executions.ts: materialize,
\* buildFromObservations, repair; prune-service.ts: pruneOlderThan).
THEOREM SummariesFounded == Spec => []SummariesAreFounded
<1>1. ControlInit => Typed /\ RepairInv /\ SummariesAreFounded
  <2>1. ASSUME ControlInit PROVE SummariesAreFounded
    BY <2>1, Zenon DEF ControlInit, Init, SummariesAreFounded
  <2>. QED BY <2>1, TypedInit, RepairInit
<1>2. Typed /\ RepairInv /\ SummariesAreFounded /\ [Next]_vars => (Typed /\ RepairInv /\ SummariesAreFounded)'
  BY TypedStep, RepairStep, FoundedStep, EveryStep, Zenon
<1>. QED BY <1>1, <1>2, PTL DEF Spec

-----------------------------------------------------------------------------
(***************************************************************************)
(* What sorting gives: a finite set of naturals has an order by a key,     *)
(* ties by the numbers themselves.                                         *)
(***************************************************************************)
Before(key, a, b) == key[a] < key[b] \/ (key[a] = key[b] /\ a < b)

LEMMA LastExists ==
    ASSUME NEW U \in SUBSET Nat, NEW key \in [U -> Int]
    PROVE  \A S \in SUBSET U : IsFiniteSet(S) /\ S # {} => \E m \in S : \A a \in S \ {m} : Before(key, a, m)
<1>. DEFINE HasLast(S) == S # {} => \E m \in S : \A a \in S \ {m} : Before(key, a, m)
            G == {n \in Nat : \A S \in SUBSET U : IsFiniteSet(S) /\ Cardinality(S) = n => HasLast(S)}
<1>1. 0 \in G
  BY FS_EmptySet, Zenon
<1>2. ASSUME NEW n \in Nat, n \in G PROVE n + 1 \in G
  <2>1. SUFFICES ASSUME NEW S \in SUBSET U, IsFiniteSet(S), Cardinality(S) = n + 1 PROVE HasLast(S)
    <3>1. n + 1 \in Nat
      OBVIOUS
    <3>. QED BY <3>1, Zenon
  <2>0. S # {}
    <3>1. n + 1 # 0
      OBVIOUS
    <3>. QED BY <2>1, <3>1, FS_EmptySet, Zenon
  <2>2. PICK x \in S : TRUE
    BY <2>0, Zenon
  <2>. DEFINE T == S \ {x}
  <2>3. IsFiniteSet(T) /\ Cardinality(T) = n
    <3>1. IsFiniteSet(T) /\ Cardinality(T) = (n + 1) - 1
      BY <2>1, <2>2, FS_RemoveElement, Zenon
    <3>. QED BY <3>1
  <2>4. T \in SUBSET U /\ HasLast(T)
    BY <1>2, <2>3, Zenon
  <2>5. CASE T = {}
    <3>1. \A a \in S \ {x} : Before(key, a, x)
      BY <2>5, Zenon
    <3>. QED BY <2>2, <3>1, Zenon
  <2>6. CASE T # {}
    <3>1. PICK m \in T : \A a \in T \ {m} : Before(key, a, m)
      BY <2>4, <2>6, Zenon
    <3>2. x \in Nat /\ m \in Nat /\ key[x] \in Int /\ key[m] \in Int /\ m # x /\ m \in S
      BY <2>1, <2>2, <3>1
    <3>3. CASE Before(key, x, m)
      <4>1. \A a \in S \ {m} : Before(key, a, m)
        BY <3>1, <3>3, Zenon
      <4>. QED BY <3>2, <4>1, Zenon
    <3>4. CASE ~Before(key, x, m)
      <4>1. Before(key, m, x)
        BY <3>2, <3>4 DEF Before
      <4>2. ASSUME NEW a \in S \ {x} PROVE Before(key, a, x)
        <5>1. CASE a = m
          BY <4>1, <5>1
        <5>2. CASE a # m
          <6>1. Before(key, a, m)
            BY <3>1, <5>2, Zenon
          <6>2. a \in Nat /\ key[a] \in Int
            BY <2>1
          <6>. QED BY <3>2, <4>1, <6>1, <6>2 DEF Before
        <5>. QED BY <5>1, <5>2
      <4>. QED BY <2>2, <4>2, Zenon
    <3>. QED BY <3>3, <3>4
  <2>. QED BY <2>5, <2>6
<1>. HIDE DEF HasLast
<1>3. G = Nat
  <2>1. G \in SUBSET Nat
    BY Zenon
  <2>. HIDE DEF G
  <2>. QED BY <1>1, <1>2, <2>1, NaturalsInduct, Zenon
<1>4. ASSUME NEW S \in SUBSET U, IsFiniteSet(S) PROVE HasLast(S)
  <2>1. Cardinality(S) \in G
    BY <1>3, <1>4, FS_CardinalityType, Zenon
  <2>. QED BY <1>4, <2>1, Zenon
<1>. QED BY <1>4, Zenon DEF HasLast

IsOrder(s, key, S) ==
    /\ s \in [1 .. Cardinality(S) -> S]
    /\ \A i, j \in 1 .. Cardinality(S) : i < j => Before(key, s[i], s[j])

LEMMA OrderExists ==
    ASSUME NEW U \in SUBSET Nat, NEW key \in [U -> Int]
    PROVE  \A S \in SUBSET U : IsFiniteSet(S) => \E s : IsOrder(s, key, S)
<1>. DEFINE G == {n \in Nat : \A S \in SUBSET U : IsFiniteSet(S) /\ Cardinality(S) = n => \E s : IsOrder(s, key, S)}
<1>1. 0 \in G
  <2>1. SUFFICES ASSUME NEW S \in SUBSET U, IsFiniteSet(S), Cardinality(S) = 0 PROVE \E s : IsOrder(s, key, S)
    BY Zenon
  <2>2. IsOrder([i \in 1 .. 0 |-> 0], key, S)
    BY <2>1 DEF IsOrder
  <2>. QED BY <2>2, Zenon
<1>2. ASSUME NEW n \in Nat, n \in G PROVE n + 1 \in G
  <2>1. SUFFICES ASSUME NEW S \in SUBSET U, IsFiniteSet(S), Cardinality(S) = n + 1 PROVE \E s : IsOrder(s, key, S)
    <3>1. n + 1 \in Nat
      OBVIOUS
    <3>. QED BY <3>1, Zenon
  <2>2. S # {}
    <3>1. n + 1 # 0
      OBVIOUS
    <3>. QED BY <2>1, <3>1, FS_EmptySet, Zenon
  <2>3. PICK m \in S : \A a \in S \ {m} : Before(key, a, m)
    BY <2>1, <2>2, LastExists, Zenon
  <2>. DEFINE T == S \ {m}
  <2>4. T \in SUBSET U /\ IsFiniteSet(T) /\ Cardinality(T) = n
    BY <2>1, FS_RemoveElement
  <2>5. PICK s : IsOrder(s, key, T)
    BY <1>2, <2>4, Zenon
  <2>6. s \in [1 .. n -> T] /\ \A i, j \in 1 .. n : i < j => Before(key, s[i], s[j])
    BY <2>4, <2>5, Zenon DEF IsOrder
  <2>. DEFINE z == [i \in 1 .. n + 1 |-> IF i <= n THEN s[i] ELSE m]
  <2>7. z \in [1 .. n + 1 -> S]
    BY <2>6
  <2>8. ASSUME NEW i \in 1 .. n + 1, NEW j \in 1 .. n + 1, i < j PROVE Before(key, z[i], z[j])
    <3>1. i \in 1 .. n /\ z[i] = s[i] /\ s[i] \in T
      BY <2>6, <2>8
    <3>2. CASE j \in 1 .. n
      <4>1. z[j] = s[j] /\ Before(key, s[i], s[j])
        BY <2>6, <2>8, <3>1, <3>2
      <4>. HIDE DEF z
      <4>. QED BY <3>1, <4>1, Zenon
    <3>3. CASE j \notin 1 .. n
      <4>1. z[j] = m
        BY <3>3
      <4>. HIDE DEF z
      <4>. QED BY <2>3, <3>1, <4>1, Zenon
    <3>. QED BY <3>2, <3>3
  <2>. HIDE DEF z
  <2>9. IsOrder(z, key, S)
    BY <2>1, <2>7, <2>8, Zenon DEF IsOrder
  <2>. QED BY <2>9, Zenon
<1>3. G = Nat
  <2>1. G \in SUBSET Nat
    BY Zenon
  <2>. HIDE DEF G
  <2>. QED BY <1>1, <1>2, <2>1, NaturalsInduct, Zenon
<1>4. ASSUME NEW S \in SUBSET U, IsFiniteSet(S) PROVE \E s : IsOrder(s, key, S)
  <2>1. Cardinality(S) \in G
    BY <1>3, <1>4, FS_CardinalityType, Zenon
  <2>. QED BY <1>4, <2>1, Zenon
<1>. QED BY <1>4

\* An order lists each element once, and is thus one of SetToSeqs.
LEMMA OrderListsAll ==
    ASSUME NEW S \in SUBSET Nat, IsFiniteSet(S), NEW U, S \in SUBSET U, U \in SUBSET Nat, NEW key \in [U -> Int]
    PROVE  /\ \A s : IsOrder(s, key, S) => s \in SetToSeqs(S)
           /\ \A s \in SetToSeqs(S) : /\ s \in [1 .. Cardinality(S) -> S]
                                      /\ \A r \in S : \E i \in 1 .. Cardinality(S) : s[i] = r
<1>. DEFINE n == Cardinality(S)
<1>0. n \in Nat
  BY FS_CardinalityType
<1>. HIDE DEF n
<1>1. ASSUME NEW s, IsOrder(s, key, S) PROVE s \in SetToSeqs(S)
  <2>1. s \in [1 .. n -> S] /\ \A i, j \in 1 .. n : i < j => Before(key, s[i], s[j])
    BY <1>1, Zenon DEF IsOrder, n
  <2>2. ASSUME NEW i \in 1 .. n, NEW j \in 1 .. n, i < j PROVE s[i] # s[j]
    <3>1. Before(key, s[i], s[j]) /\ s[i] \in Nat /\ s[j] \in Nat /\ key[s[i]] \in Int /\ key[s[j]] \in Int
      BY <2>1, <2>2
    <3>. QED BY <3>1 DEF Before
  <2>3. ASSUME NEW i \in 1 .. n, NEW j \in 1 .. n, i # j PROVE s[i] # s[j]
    <3>1. i < j \/ j < i
      BY <1>0, <2>3
    <3>. QED BY <2>2, <3>1, Zenon
  <2>. QED BY <2>1, <2>3, Zenon DEF SetToSeqs, n
<1>2. ASSUME NEW s \in SetToSeqs(S), NEW r \in S, \A i \in 1 .. n : s[i] # r PROVE FALSE
  <2>1. s \in [1 .. n -> S] /\ \A i, j \in 1 .. n : i # j => s[i] # s[j]
    BY <1>2, Zenon DEF SetToSeqs, n
  <2>. DEFINE T == S \ {r}
  <2>2. IsFiniteSet(T) /\ Cardinality(T) = n - 1
    BY FS_RemoveElement DEF n
  <2>3. IsFiniteSet(1 .. n) /\ Cardinality(1 .. n) = n
    BY <1>0, FS_Interval
  <2>4. s \in [1 .. n -> T]
    BY <1>2, <2>1
  <2>. DEFINE D == 1 .. n
  <2>5. Cardinality(T) < Cardinality(D)
    BY <1>0, <2>2, <2>3
  <2>. HIDE DEF T, D
  <2>6. \E x, y \in D : x # y /\ s[x] = s[y]
    BY <2>2, <2>3, <2>4, <2>5, FS_PigeonHole, Zenon DEF T, D
  <2>. QED BY <2>1, <2>6, Zenon DEF D
<1>3. \A s \in SetToSeqs(S) : s \in [1 .. n -> S]
  BY Zenon DEF SetToSeqs, n
<1>. QED BY <1>1, <1>2, <1>3, Zenon DEF n

-----------------------------------------------------------------------------
(***************************************************************************)
(* What a ranking, a report and a median say.                              *)
(***************************************************************************)
LEMMA RankingOrders ==
    ASSUME NEW C \in SUBSET Nat, IsFiniteSet(C), NEW scores, DOMAIN scores = C,
           \A r \in C : scores[r].value \in Int,
           NEW ranked, ranked = {r \in C : scores[r].known}, NEW s, s = Ranking(scores)
    PROVE  /\ s \in [1 .. Cardinality(ranked) -> ranked] /\ IsFiniteSet(ranked)
           /\ \A r \in ranked : \E i \in 1 .. Cardinality(ranked) : s[i] = r
           /\ \A i, j \in 1 .. Cardinality(ranked) : i < j =>
                \/ scores[s[i]].value < scores[s[j]].value
                \/ scores[s[i]].value = scores[s[j]].value /\ s[i] < s[j]
<1>. DEFINE key == [r \in C |-> scores[r].value]
            Sorted(z) == \A i, j \in DOMAIN z : i < j => 
                \/ scores[z[i]].value < scores[z[j]].value
                \/ scores[z[i]].value = scores[z[j]].value /\ z[i] < z[j]
<1>1. key \in [C -> Int] /\ ranked \in SUBSET C /\ ranked \in SUBSET Nat
  BY Zenon
<1>2. IsFiniteSet(ranked)
  BY <1>1, FS_Subset, Zenon
<1>3. PICK z : IsOrder(z, key, ranked)
  BY <1>1, <1>2, OrderExists, Zenon
<1>4. z \in SetToSeqs(ranked)
  BY <1>1, <1>2, <1>3, OrderListsAll, Zenon
<1>5. Sorted(z)
  <2>1. DOMAIN z = 1 .. Cardinality(ranked) /\ \A i \in DOMAIN z : z[i] \in ranked
    BY <1>3, Zenon DEF IsOrder
  <2>2. \A i \in DOMAIN z : key[z[i]] = scores[z[i]].value
    BY <1>1, <2>1, Zenon
  <2>. HIDE DEF key
  <2>3. ASSUME NEW i \in DOMAIN z, NEW j \in DOMAIN z, i < j
        PROVE  \/ scores[z[i]].value < scores[z[j]].value
               \/ scores[z[i]].value = scores[z[j]].value /\ z[i] < z[j]
    <3>1. Before(key, z[i], z[j])
      BY <1>3, <2>1, <2>3, Zenon DEF IsOrder
    <3>2. key[z[i]] = scores[z[i]].value /\ key[z[j]] = scores[z[j]].value
      BY <2>2, <2>3, Zenon
    <3>. QED BY <3>1, <3>2, Zenon DEF Before
  <2>. QED BY <2>3, Zenon
<1>6. s = CHOOSE y \in SetToSeqs(ranked) : Sorted(y)
  <2>1. ranked = {r \in DOMAIN scores : scores[r].known}
    BY Zenon
  <2>. QED BY <2>1, Zenon DEF Ranking
<1>. HIDE DEF Sorted
<1>7. s \in SetToSeqs(ranked) /\ Sorted(s)
  BY <1>4, <1>5, <1>6, Zenon
<1>8. s \in [1 .. Cardinality(ranked) -> ranked] /\ \A r \in ranked : \E i \in 1 .. Cardinality(ranked) : s[i] = r
  BY <1>1, <1>2, <1>7, OrderListsAll, Zenon
<1>9. DOMAIN s = 1 .. Cardinality(ranked)
  BY <1>8, Zenon
<1>. QED BY <1>2, <1>7, <1>8, <1>9, Zenon DEF Sorted

\* The winner has a score, the lowest there is; tied with it is who has the same.
Wins(report, scores) ==
    LET w == report.winner
    IN  /\ w \in DOMAIN scores /\ scores[w].known
        /\ \A r \in DOMAIN scores \ {w} : scores[r].known =>
             /\ scores[w].value <= scores[r].value
             /\ r \in report.tied_with <=> scores[r] = scores[w]

LEMMA ReportRanks ==
    ASSUME NEW C \in SUBSET Nat, IsFiniteSet(C), NEW scores, DOMAIN scores = C,
           \A r \in C : scores[r].value \in Int,
           NEW objective, NEW basis, NEW report, report = ReportOf(objective, basis, scores)
    PROVE  \/ report = NoReport
           \/ report.objective = objective /\ report.basis = basis /\ Wins(report, scores)
<1>. DEFINE ranked == {r \in C : scores[r].known}
            n == Cardinality(ranked)
            s == Ranking(scores)
            tied == {i \in 2 .. Len(s) : scores[s[i]] = scores[s[1]]}
<1>1. /\ s \in [1 .. n -> ranked] /\ IsFiniteSet(ranked)
      /\ \A r \in ranked : \E i \in 1 .. n : s[i] = r
      /\ \A i, j \in 1 .. n : i < j =>
           \/ scores[s[i]].value < scores[s[j]].value
           \/ scores[s[i]].value = scores[s[j]].value /\ s[i] < s[j]
  BY RankingOrders, Zenon
<1>2. n \in Nat
  BY <1>1, FS_CardinalityType, Zenon
<1>3. report = IF s = <<>> THEN NoReport
               ELSE [objective |-> objective, basis |-> basis, ranking |-> s, winner |-> s[1],
                     tied_with |-> {s[i] : i \in tied}]
  BY Zenon DEF ReportOf
<1>4. ranked \in SUBSET C
  BY Zenon
<1>. HIDE DEF ranked
<1>. HIDE DEF s
<1>. HIDE DEF n
<1>5. SUFFICES ASSUME s # <<>>
               PROVE  report.objective = objective /\ report.basis = basis /\ Wins(report, scores)
  BY <1>3, Zenon
<1>6. Len(s) = n /\ n # 0 /\ DOMAIN s = 1 .. n
  BY <1>1, <1>2, <1>5
<1>7. tied = {i \in 2 .. n : scores[s[i]] = scores[s[1]]}
  BY <1>6, Zenon
<1>. DEFINE T == {s[i] : i \in tied}
            w == s[1]
<1>8. /\ report.objective = objective /\ report.basis = basis /\ report.winner = w /\ report.tied_with = T
  <2>1. report = [objective |-> objective, basis |-> basis, ranking |-> s, winner |-> w, tied_with |-> T]
    BY <1>3, <1>5, Zenon
  <2>. HIDE DEF w, T
  <2>. QED BY <2>1
<1>9. w \in ranked /\ w \in C /\ scores[w].known
  <2>1. 1 \in 1 .. n
    BY <1>2, <1>6
  <2>2. w \in ranked
    BY <1>1, <2>1, Zenon
  <2>. HIDE DEF w
  <2>. QED BY <2>2, Zenon DEF ranked
<1>10. ASSUME NEW r \in C \ {w}, scores[r].known
       PROVE  scores[w].value <= scores[r].value /\ (r \in T <=> scores[r] = scores[w])
  <2>1. r \in ranked
    BY <1>10, Zenon DEF ranked
  <2>2. PICK i \in 1 .. n : s[i] = r
    BY <1>1, <2>1, Zenon
  <2>3. i # 1
    BY <1>10, <2>2
  <2>4. i \in 2 .. n /\ 1 \in 1 .. n /\ 1 < i
    BY <1>2, <2>2, <2>3
  <2>5. scores[w].value <= scores[r].value
    <3>1. scores[w].value < scores[r].value \/ scores[w].value = scores[r].value
      BY <1>1, <2>2, <2>4, Zenon
    <3>2. scores[w].value \in Int /\ scores[r].value \in Int
      BY <1>9, <1>10, Zenon
    <3>. QED BY <3>1, <3>2
  <2>6. scores[r] = scores[w] => r \in T
    BY <1>7, <2>2, <2>4, Zenon
  <2>7. r \in T => scores[r] = scores[w]
    BY <1>7, Zenon
  <2>. QED BY <2>5, <2>6, <2>7
<1>. HIDE DEF T, w
<1>. QED BY <1>8, <1>9, <1>10, Zenon DEF Wins

\* What the cost objective promises of a report; it does not depend on the state.
CostWins(report) ==
    LET b == report.basis
        w == report.winner
        price(r) == b.tokens[1] * b.costs[r][1] + b.tokens[2] * b.costs[r][2]
    IN  /\ b.costs[w] # NoCost
        /\ \A r \in DOMAIN b.costs \ {w} : b.costs[r] # NoCost =>
             price(w) <= price(r) /\ (r \in report.tied_with <=> price(w) = price(r))

LEMMA ScoresCompare ==
    /\ NoScore.known = FALSE /\ NoScore.value = 0
    /\ \A v : Score(v).known = TRUE /\ Score(v).value = v
    /\ \A v, u : Score(v) = Score(u) => v = u
BY DEF NoScore, Score

LEMMA CostReportWins ==
    ASSUME NEW C \in SUBSET Nat, IsFiniteSet(C), NEW costs \in [C -> Costs], NEW tokens \in ReferenceTokens,
           NEW report, report = buildCostOptimizeReport(costs, tokens), report # NoReport
    PROVE  report.objective = "cost" /\ CostWins(report)
<1>. DEFINE price(r) == tokens[1] * costs[r][1] + tokens[2] * costs[r][2]
            basis == [costs |-> costs, tokens |-> tokens]
            scores == [r \in C |-> IF costs[r] = NoCost THEN NoScore ELSE Score(price(r))]
<1>1. ASSUME NEW r \in C, costs[r] # NoCost PROVE price(r) \in Int
  <2>1. costs[r] = <<0, MaxPrice>> \/ costs[r] = <<1, 0>>
    BY <1>1 DEF Costs
  <2>2. costs[r][1] \in Int /\ costs[r][2] \in Int
    BY <2>1, OptimizationAssumption
  <2>3. tokens[1] \in Int /\ tokens[2] \in Int
    BY DEF ReferenceTokens
  <2>. QED BY <2>2, <2>3
<1>2. report = ReportOf("cost", basis, scores)
  <2>1. DOMAIN costs = C
    BY Zenon
  <2>. QED BY <2>1, Zenon DEF buildCostOptimizeReport, estimateCost
<1>. HIDE DEF price
<1>3. \A r \in C : scores[r].value \in Int /\ (scores[r].known <=> costs[r] # NoCost)
                   /\ (costs[r] # NoCost => scores[r] = Score(price(r)))
  <2>1. SUFFICES ASSUME NEW r \in C
                 PROVE  scores[r].value \in Int /\ (scores[r].known <=> costs[r] # NoCost)
                        /\ (costs[r] # NoCost => scores[r] = Score(price(r)))
    BY Zenon
  <2>2. CASE costs[r] = NoCost
    <3>1. scores[r] = NoScore
      BY <2>2, Zenon
    <3>. HIDE DEF scores
    <3>. QED BY <2>2, <3>1, ScoresCompare
  <2>3. CASE costs[r] # NoCost
    <3>1. scores[r] = Score(price(r)) /\ price(r) \in Int
      BY <1>1, <2>3, Zenon
    <3>. HIDE DEF scores
    <3>. QED BY <2>3, <3>1, ScoresCompare
  <2>. QED BY <2>2, <2>3
<1>4. DOMAIN scores = C /\ DOMAIN costs = C
  BY Zenon
<1>. HIDE DEF scores
<1>5. basis.costs = costs /\ basis.tokens = tokens
  OBVIOUS
<1>. HIDE DEF basis
<1>6. report.objective = "cost" /\ report.basis = basis /\ Wins(report, scores)
  BY <1>2, <1>3, <1>4, ReportRanks, Zenon
<1>. DEFINE w == report.winner
<1>7. w \in C /\ costs[w] # NoCost /\ scores[w] = Score(price(w)) /\ price(w) \in Int
  BY <1>1, <1>3, <1>4, <1>6, Zenon DEF Wins
<1>8. ASSUME NEW r \in C \ {w}, costs[r] # NoCost
      PROVE  price(w) <= price(r) /\ (r \in report.tied_with <=> price(w) = price(r))
  <2>1. scores[r].known /\ scores[r] = Score(price(r))
    BY <1>3, <1>8, Zenon
  <2>2. scores[w].value <= scores[r].value /\ (r \in report.tied_with <=> scores[r] = scores[w])
    BY <1>4, <1>6, <1>8, <2>1, Zenon DEF Wins
  <2>3. scores[w].value = price(w) /\ scores[r].value = price(r)
    BY <1>7, <2>1, ScoresCompare, Zenon
  <2>4. scores[r] = scores[w] <=> price(w) = price(r)
    BY <1>7, <2>1, ScoresCompare, Zenon
  <2>. QED BY <2>2, <2>3, <2>4, Zenon
<1>9. report.basis.costs = costs /\ report.basis.tokens = tokens
  BY <1>5, <1>6, Zenon
<1>. QED BY <1>4, <1>6, <1>7, <1>8, <1>9, Zenon DEF CostWins, price, w

LEMMA CostReportsWin ==
    ASSUME NEW report \in CostReports \ {NoReport}
    PROVE  report.objective = "cost" /\ CostWins(report)
<1>1. PICK catalog \in Catalogs, requested \in SUBSET (1 .. RouteCount + 1), tokens \in ReferenceTokens :
        report = buildCostOptimizeExecution(catalog, requested, tokens)
  BY DEF CostReports
<1>. DEFINE candidates == selectOptimizeCandidateRoutes(catalog.routes, requested)
            costs == [r \in candidates |-> effectiveCost(catalog, r)]
<1>2. candidates # {} /\ report = buildCostOptimizeReport(costs, tokens)
  BY <1>1, Zenon DEF buildCostOptimizeExecution
<1>3. /\ catalog.routes \in [Routes -> [model : {"target", "other"}, cost : Costs]]
      /\ catalog.model_cost \in Costs
  BY DEF Catalogs
<1>4. candidates \in SUBSET Routes
  <2>1. \A S : S \subseteq {r \in DOMAIN catalog.routes : catalog.routes[r].model = "target"} => S \in SUBSET Routes
    BY <1>3, Zenon
  <2>. QED BY <1>2, <2>1, Zenon DEF selectOptimizeCandidateRoutes
<1>5. Routes \in SUBSET Nat /\ IsFiniteSet(Routes)
  BY OptimizationAssumption, FS_Interval DEF Routes
<1>6. candidates \in SUBSET Nat /\ IsFiniteSet(candidates)
  BY <1>4, <1>5, FS_Subset, Zenon
<1>7. \A r \in Routes : effectiveCost(catalog, r) \in Costs
  <2>1. \A r \in Routes : catalog.routes[r].cost \in Costs
    BY <1>3
  <2>. QED BY <1>3, <2>1, Zenon DEF effectiveCost
<1>8. costs \in [candidates -> Costs]
  BY <1>4, <1>7, Zenon
<1>. HIDE DEF candidates, costs
<1>. QED BY <1>2, <1>6, <1>8, CostReportWins, Zenon

-----------------------------------------------------------------------------
\* Twice the median is the sum of two of the values.
LEMMA MedianOfTwo ==
    ASSUME NEW n \in Nat \ {0}, NEW values \in [1 .. n -> Int]
    PROVE  \E i, j \in 1 .. n : median(values) = values[i] + values[j]
<1>. DEFINE D == DOMAIN values
            Sorted(s) == \A i, j \in DOMAIN s : i < j => s[i] <= s[j]
            at(p) == [i \in D |-> values[p[i]]]
            All == {at(p) : p \in SetToSeqs(D)}
<1>1. D \in SUBSET Nat /\ IsFiniteSet(D) /\ Cardinality(D) = n /\ D = 1 .. n
  <2>1. D = 1 .. n
    BY Zenon
  <2>2. (1 .. n) \in SUBSET Nat /\ IsFiniteSet(1 .. n) /\ Cardinality(1 .. n) = n
    BY FS_Interval
  <2>. QED BY <2>1, <2>2, Zenon
<1>2. values \in [D -> Int]
  BY <1>1, Zenon
<1>3. PICK p : IsOrder(p, values, D)
  BY <1>1, <1>2, OrderExists, Zenon
<1>4. p \in SetToSeqs(D)
  BY <1>1, <1>2, <1>3, OrderListsAll, Zenon
<1>5. Sorted(at(p))
  <2>0. Cardinality(D) = n /\ D = 1 .. n
    BY <1>1, Zenon
  <2>1. p \in [D -> D] /\ \A i, j \in D : i < j => Before(values, p[i], p[j])
    BY <1>3, <2>0, Zenon DEF IsOrder
  <2>2. DOMAIN at(p) = D /\ \A i \in D : at(p)[i] = values[p[i]]
    BY Zenon
  <2>3. \A i \in D : at(p)[i] \in Int
    BY <1>2, <2>1, <2>2, Zenon
  <2>4. ASSUME NEW i \in D, NEW j \in D, i < j PROVE at(p)[i] <= at(p)[j]
    <3>1. values[p[i]] < values[p[j]] \/ values[p[i]] = values[p[j]]
      BY <2>1, <2>4, Zenon DEF Before
    <3>2. at(p)[i] < at(p)[j] \/ at(p)[i] = at(p)[j]
      BY <2>2, <2>4, <3>1, Zenon
    <3>3. at(p)[i] \in Int /\ at(p)[j] \in Int
      BY <2>3, <2>4, Zenon
    <3>. HIDE DEF at
    <3>. QED BY <3>2, <3>3
  <2>. HIDE DEF at
  <2>. QED BY <2>2, <2>4, Zenon
<1>. DEFINE sorted == CHOOSE s \in All : Sorted(s)
<1>6. sorted \in All
  <2>1. at(p) \in All
    BY <1>4, Zenon
  <2>. HIDE DEF All, Sorted, at
  <2>. QED BY <1>5, <2>1, Zenon
<1>7. PICK q \in SetToSeqs(D) : sorted = at(q)
  <2>. HIDE DEF Sorted
  <2>. QED BY <1>6, Zenon
<1>8. q \in [1 .. n -> D]
  <2>1. q \in [1 .. Cardinality(D) -> D]
    BY <1>1, <1>2, <1>7, OrderListsAll, Zenon
  <2>. QED BY <1>1, <2>1, Zenon
<1>9. median(values) = IF Len(sorted) % 2 = 1 THEN 2 * sorted[(Len(sorted) \div 2) + 1]
                       ELSE sorted[Len(sorted) \div 2] + sorted[(Len(sorted) \div 2) + 1]
  BY Zenon DEF median
<1>. HIDE DEF sorted
<1>10. sorted = [i \in 1 .. n |-> values[q[i]]]
  <2>1. at(q) = [i \in D |-> values[q[i]]]
    BY Zenon
  <2>. HIDE DEF at, D
  <2>. QED BY <1>1, <1>7, <2>1, Zenon
<1>. HIDE DEF at, All, Sorted
<1>11. Len(sorted) = n /\ \A i \in 1 .. n : sorted[i] = values[q[i]] /\ q[i] \in D /\ sorted[i] \in Int
  <2>1. \A i \in 1 .. n : q[i] \in D /\ values[q[i]] \in Int
    BY <1>2, <1>8, Zenon
  <2>2. DOMAIN sorted = 1 .. n /\ \A i \in 1 .. n : sorted[i] = values[q[i]]
    BY <1>10, Zenon
  <2>3. sorted \in [1 .. n -> Int]
    BY <1>10, <2>1, Zenon
  <2>4. Len(sorted) = n
    BY <2>3
  <2>. QED BY <2>1, <2>2, <2>4, Zenon
<1>. HIDE DEF D
<1>12. CASE n % 2 = 1
  <2>. DEFINE m == (n \div 2) + 1
  <2>1. m \in 1 .. n
    BY <1>12
  <2>2. median(values) = 2 * sorted[m]
    BY <1>9, <1>11, <1>12, Zenon
  <2>. HIDE DEF m
  <2>3. 2 * sorted[m] = sorted[m] + sorted[m]
    BY <1>11, <2>1
  <2>4. median(values) = values[q[m]] + values[q[m]] /\ q[m] \in D
    BY <1>11, <2>1, <2>2, <2>3, Zenon
  <2>. QED BY <1>1, <2>4, Zenon
<1>13. CASE n % 2 # 1
  <2>. DEFINE k == n \div 2
              m == (n \div 2) + 1
  <2>1. k \in 1 .. n /\ m \in 1 .. n
    BY <1>13
  <2>2. median(values) = sorted[k] + sorted[m]
    BY <1>9, <1>11, <1>13, Zenon
  <2>. HIDE DEF k, m
  <2>3. median(values) = values[q[k]] + values[q[m]] /\ q[k] \in D /\ q[m] \in D
    BY <1>11, <2>1, <2>2, Zenon
  <2>. QED BY <1>1, <2>3, Zenon
<1>. QED BY <1>12, <1>13

(***************************************************************************)
(* The latency objective: what the report says of the plan and the samples *)
(* it was built from.                                                      *)
(***************************************************************************)
AnsweredOf(r) == {t \in Measured(r) : Answered(tasks[t].sample)}

LatencyWins(report) ==
    LET w == report.winner
    IN  /\ \E t \in Measured(w) : Answered(tasks[t].sample)
        /\ \A r \in report.basis \ {w} :
             ~ \A t \in Measured(r), u \in Measured(w) :
                 /\ Answered(tasks[t].sample)
                 /\ Answered(tasks[u].sample) => tasks[t].sample.latency < tasks[u].sample.latency

LEMMA SetListed ==
    ASSUME NEW S \in SUBSET Nat, IsFiniteSet(S)
    PROVE  SetToSeq(S) \in [1 .. Cardinality(S) -> S]
<1>. DEFINE key == [r \in Nat |-> r]
<1>1. key \in [Nat -> Int]
  OBVIOUS
<1>. HIDE DEF key
<1>2. PICK s : IsOrder(s, key, S)
  BY <1>1, OrderExists, Zenon
<1>3. s \in SetToSeqs(S)
  BY <1>1, <1>2, OrderListsAll, Zenon
<1>4. s \in [1 .. Cardinality(S) -> S] /\ \A i, j \in 1 .. Cardinality(S) : i # j => s[i] # s[j]
  BY <1>3, Zenon DEF SetToSeqs
<1>5. IsInjective(s)
  BY <1>4, Zenon DEF IsInjective
<1>. QED BY <1>4, <1>5, Zenon DEF SetToSeq

LEMMA StatsOfTwo ==
    ASSUME BenchTyped, NEW r
    PROVE  \/ AnsweredOf(r) = {} /\ latencyStats(r) = NoScore
           \/ \E t, u \in AnsweredOf(r) :
                latencyStats(r) = Score(tasks[t].sample.latency + tasks[u].sample.latency)
<1>. DEFINE S == AnsweredOf(r)
            answered == SetToSeq(S)
            values == [i \in DOMAIN answered |-> tasks[answered[i]].sample.latency]
            n == Cardinality(S)
<1>1. S \in SUBSET Tasks
  BY Zenon DEF AnsweredOf, Measured, BenchTyped
<1>2. Tasks \in SUBSET Nat /\ IsFiniteSet(Tasks)
  BY TraceStoreAssumption, FS_Interval DEF Tasks
<1>3. S \in SUBSET Nat /\ IsFiniteSet(S)
  BY <1>1, <1>2, FS_Subset, Zenon
<1>4. n \in Nat /\ (n = 0 <=> S = {})
  BY <1>3, FS_CardinalityType, FS_EmptySet, Zenon
<1>5. answered \in [1 .. n -> S]
  BY <1>3, SetListed, Zenon
<1>6. latencyStats(r) = IF answered = <<>> THEN NoScore ELSE Score(median(values))
  BY Zenon DEF latencyStats, AnsweredOf
<1>7. \A t \in S : tasks[t].sample.latency \in Int
  <2>1. \A t \in Tasks : tasks[t].sample.latency \in Int
    BY DEF BenchTyped, Task, Sample
  <2>. QED BY <1>1, <2>1, Zenon
<1>. HIDE DEF S
<1>. HIDE DEF answered
<1>. HIDE DEF n
<1>8. DOMAIN answered = 1 .. n
  BY <1>5, Zenon
<1>9. values \in [1 .. n -> Int] /\ \A i \in 1 .. n : answered[i] \in S /\ values[i] = tasks[answered[i]].sample.latency
  BY <1>5, <1>7, <1>8, Zenon
<1>10. CASE n = 0
  <2>1. answered = <<>>
    BY <1>5, <1>10
  <2>. QED BY <1>4, <1>6, <1>10, <2>1, Zenon DEF S
<1>11. CASE n # 0
  <2>1. answered # <<>>
    <3>1. 1 \in DOMAIN answered
      BY <1>4, <1>8, <1>11
    <3>. QED BY <3>1
  <2>2. n \in Nat \ {0}
    BY <1>4, <1>11
  <2>. HIDE DEF values
  <2>3. PICK i \in 1 .. n, j \in 1 .. n : median(values) = values[i] + values[j]
    BY <1>9, <2>2, MedianOfTwo, Zenon
  <2>4. latencyStats(r) = Score(tasks[answered[i]].sample.latency + tasks[answered[j]].sample.latency)
    BY <1>6, <1>9, <2>1, <2>3, Zenon
  <2>. QED BY <1>9, <2>4, Zenon DEF S
<1>. QED BY <1>10, <1>11

LEMMA LatencyReportWins ==
    ASSUME BenchTyped, Covered(bench.plan), NEW report, report = buildLatencyOptimizeReport, report # NoReport
    PROVE  report.objective = "latency" /\ LatencyWins(report)
<1>. DEFINE D == DOMAIN bench.plan
            C == {bench.plan[t].route : t \in D}
            scores == [r \in C |-> latencyStats(r)]
            lat(t) == tasks[t].sample.latency
<1>1. bench.plan \in Seq(PlanRow) /\ D \in SUBSET Tasks /\ IsFiniteSet(Tasks)
  BY TraceStoreAssumption, FS_Interval DEF Tasks, BenchTyped, Benches
<1>2. \A t \in D : bench.plan[t].route \in Nat
  <2>. DEFINE p == bench.plan
  <2>1. p \in Seq(PlanRow)
    BY <1>1, Zenon
  <2>. HIDE DEF p
  <2>2. \A t \in DOMAIN p : p[t] \in PlanRow
    BY <2>1
  <2>3. \A x \in PlanRow : x.route \in Nat
    BY DEF PlanRow
  <2>. QED BY <2>2, <2>3, Zenon DEF p
<1>3. C \in SUBSET Nat
  BY <1>2, Zenon
<1>4. IsFiniteSet(C)
  <2>. DEFINE f == [t \in D |-> bench.plan[t].route]
  <2>1. f \in Surjection(D, C)
    BY Zenon DEF Surjection
  <2>2. IsFiniteSet(D)
    BY <1>1, FS_Subset, Zenon
  <2>. HIDE DEF f, C, D
  <2>. QED BY <2>1, <2>2, FS_Surjection
<1>5. report = ReportOf("latency", C, scores)
  BY Zenon DEF buildLatencyOptimizeReport
<1>6. \A r \in C : AnsweredOf(r) \subseteq Measured(r) /\ Measured(r) \subseteq D
  BY Zenon DEF AnsweredOf, Measured
<1>7. \A t \in D : lat(t) \in Int
  <2>1. \A t \in Tasks : tasks[t].sample.latency \in Int
    BY DEF BenchTyped, Task, Sample
  <2>. QED BY <1>1, <2>1, Zenon
<1>8. \A r \in C : \/ AnsweredOf(r) = {} /\ scores[r] = NoScore
                   \/ \E t, u \in AnsweredOf(r) : scores[r] = Score(lat(t) + lat(u)) 
  BY StatsOfTwo, Zenon
<1>9. DOMAIN scores = C
  BY Zenon
<1>. HIDE DEF scores
<1>10. \A r \in C : scores[r].value \in Int
  <2>1. ASSUME NEW r \in C PROVE scores[r].value \in Int
    <3>1. CASE scores[r] = NoScore
      BY <3>1, ScoresCompare
    <3>2. ASSUME NEW t \in AnsweredOf(r), NEW u \in AnsweredOf(r), scores[r] = Score(lat(t) + lat(u))
          PROVE  scores[r].value \in Int
      <4>1. lat(t) \in Int /\ lat(u) \in Int
        BY <1>6, <1>7, Zenon
      <4>2. scores[r].value = lat(t) + lat(u)
        BY <3>2, ScoresCompare, Zenon
      <4>. HIDE DEF lat
      <4>. QED BY <4>1, <4>2
    <3>. QED BY <1>8, <3>1, <3>2, Zenon
  <2>. QED BY <2>1
<1>. HIDE DEF C
<1>11. report.objective = "latency" /\ report.basis = C /\ Wins(report, scores)
  BY <1>3, <1>4, <1>5, <1>9, <1>10, ReportRanks, Zenon
<1>. DEFINE w == report.winner
<1>12. w \in C /\ scores[w].known /\ \A r \in C \ {w} : scores[r].known => scores[w].value <= scores[r].value
  BY <1>9, <1>11, Zenon DEF Wins
<1>. HIDE DEF w
<1>13. PICK a \in AnsweredOf(w), b \in AnsweredOf(w) : scores[w] = Score(lat(a) + lat(b))
  BY <1>8, <1>12, ScoresCompare, Zenon
<1>14. ASSUME NEW r \in C \ {w},
              \A t \in Measured(r), u \in Measured(w) :
                 /\ Answered(tasks[t].sample)
                 /\ Answered(tasks[u].sample) => lat(t) < lat(u)
       PROVE  FALSE
  <2>1. PICK t \in D : bench.plan[t].route = r
    BY <1>14, Zenon DEF C
  <2>2. PICK u \in Measured(r) : TRUE
    BY <2>1, Zenon DEF Covered, Measured
  <2>3. Answered(tasks[u].sample)
    BY <1>13, <1>14, <2>2, Zenon DEF AnsweredOf
  <2>4. AnsweredOf(r) # {}
    BY <2>2, <2>3, Zenon DEF AnsweredOf
  <2>5. PICK c \in AnsweredOf(r), d \in AnsweredOf(r) : scores[r] = Score(lat(c) + lat(d))
    BY <1>8, <2>4, Zenon
  <2>6. scores[r].known /\ scores[r].value = lat(c) + lat(d) /\ scores[w].value = lat(a) + lat(b)
    BY <1>13, <2>5, ScoresCompare, Zenon
  <2>7. lat(a) + lat(b) <= lat(c) + lat(d)
    <3>1. scores[w].value <= scores[r].value
      BY <1>12, <2>6, Zenon
    <3>. QED BY <2>6, <3>1, Zenon
  <2>8. lat(c) < lat(a) /\ lat(d) < lat(b)
    BY <1>13, <1>14, <2>5, Zenon DEF AnsweredOf
  <2>9. lat(a) \in Int /\ lat(b) \in Int /\ lat(c) \in Int /\ lat(d) \in Int
    BY <1>6, <1>7, <1>12, <1>13, <2>5, Zenon
  <2>. HIDE DEF lat
  <2>. QED BY <2>7, <2>8, <2>9
<1>15. a \in Measured(w) /\ Answered(tasks[a].sample)
  BY <1>13, Zenon DEF AnsweredOf
<1>. QED BY <1>11, <1>14, <1>15, Zenon DEF LatencyWins, w

-----------------------------------------------------------------------------
(***************************************************************************)
(* What a step does to the run, its plan and its tasks: it makes the plan, *)
(* or keeps it and moves at most one task.                                 *)
(***************************************************************************)
Starting(phase) == phase \in {"idle", "planning"}

MakesPlan(plan) ==
    /\ bench.phase = "planning"
    /\ GoodPlan(plan) /\ DOMAIN plan \subseteq Tasks
    /\ \A t \in DOMAIN plan : plan[t].path = "gateway" => t <= GatewayTasks
    /\ bench'.phase = "running" /\ bench'.plan = plan
    /\ tasks' = [t \in Tasks |-> IF t \in DOMAIN plan THEN [Idle EXCEPT !.step = "waiting"] ELSE Idle]
    /\ run' = [status |-> "running", created_at |-> now]
    /\ UNCHANGED <<now, emitted, observations, executions, samples>>

MovesTask ==
    \/ \E t \in Tasks : /\ tasks[t].step = "waiting"
                        /\ tasks' = [tasks EXCEPT ![t] = [tasks[t] EXCEPT !.step = "fetching", !.started = now]]
    \/ \E t \in Tasks, x \in Task : tasks' = [tasks EXCEPT ![t] = x] /\ TaskGoes(t, x)

KeepsPlan ==
    /\ bench'.plan = bench.plan
    /\ Starting(bench'.phase) => Starting(bench.phase)
    /\ now' \in Nat /\ now <= now'
    /\ run'.created_at = run.created_at
    /\ run'.status # "none" => run.status # "none"
    /\ tasks' = tasks \/ MovesTask

LEMMA BenchFrame ==
    ASSUME Typed, Quiet \/ StoreActs \/ ScanActs \/ BenchActs
    PROVE  KeepsPlan \/ \E plan : MakesPlan(plan)
<1>. USE DEF Typed
<1>0. /\ now \in Nat /\ now <= now /\ bench \in Benches /\ run \in [status : Statuses, created_at : Nat]
  BY DEF StoreTyped, BenchTyped
<1>1. ASSUME Fades, now' \in Nat, now <= now' PROVE KeepsPlan
  <2>1. run'.created_at = run.created_at /\ (run'.status # "none" => run.status # "none")
    BY <1>0, <1>1 DEF Fades
  <2>2. bench' = bench /\ tasks' = tasks
    BY <1>1, Zenon DEF Fades, benchVars
  <2>. QED BY <1>1, <2>1, <2>2, Zenon DEF KeepsPlan
<1>2. CASE Quiet \/ StoreActs \/ ScanActs
  <2>1. now' \in Nat /\ now <= now'
    <3>1. CASE now' = now
      BY <1>0, <3>1
    <3>2. CASE Tick
      BY <1>0, <3>2 DEF Tick
    <3>3. CASE StoreActs /\ ~Tick
      <4>1. ASSUME NEW r \in GatewayRequests, Observes(r) PROVE now' = now
        BY <4>1, ObserveGrows, Zenon DEF Observes
      <4>2. now' = now
        BY <3>3, <4>1, Zenon DEF StoreActs
      <4>. QED BY <3>1, <4>2
    <3>4. CASE Quiet \/ ScanActs
      <4>1. ASSUME NEW by, verifyAll(by) \/ repairAll(by) \/ repairOne(by) PROVE now' = now
        BY <4>1, Zenon DEF verifyAll, repairAll, repairOne, Begins
      <4>2. ASSUME EndScan \/ ListBatch \/ verifyBatch \/ BeginRepair \/ RepairThrows PROVE now' = now
        BY <4>2, Zenon DEF EndScan, ListBatch, verifyBatch, BeginRepair, RepairThrows, storeVars
      <4>3. ASSUME CommitRepair PROVE now' = now
        BY <4>3, Zenon DEF CommitRepair, CommitsBatch
      <4>4. ASSUME Quiet PROVE now' = now
        BY <4>4, Zenon DEF Quiet, storeVars
      <4>5. now' = now
        BY <3>4, <4>1, <4>2, <4>3, <4>4, Zenon DEF ScanActs, ScanStep
      <4>. QED BY <3>1, <4>5
    <3>. QED BY <1>2, <3>2, <3>3, <3>4
  <2>. QED BY <1>1, <1>2, <2>1, OthersFade
<1>3. ASSUME bench'.plan = bench.plan, Starting(bench'.phase) => Starting(bench.phase), now' = now,
             run'.created_at = run.created_at, run'.status # "none" => run.status # "none", tasks' = tasks \/ MovesTask
      PROVE  KeepsPlan
  BY <1>0, <1>3, Zenon DEF KeepsPlan
<1>4. CASE BenchActs
  <2>1. CASE Starts \/ Stops \/ AbortBench \/ Report \/ OptimizeFails
    <3>1. UNCHANGED <<storeVars, tasks>>
      BY <2>1, Zenon DEF Starts, StartBench, Stops, AbortBench, Report, OptimizeFails
    <3>2. bench'.plan = bench.plan
      BY <1>0, <2>1 DEF Starts, StartBench, Stops, AbortBench, Report, OptimizeFails, Benches
    <3>3. Starting(bench'.phase) => Starting(bench.phase)
      BY <1>0, <2>1 DEF Starts, StartBench, Stops, AbortBench, Report, OptimizeFails, Benches, Starting
    <3>. QED BY <1>3, <3>1, <3>2, <3>3, Zenon DEF storeVars
  <2>2. CASE persistLatency
    <3>1. UNCHANGED <<now, run, tasks>>
      BY <2>2, Zenon DEF persistLatency, createRun
    <3>2. bench'.plan = bench.plan /\ ~Starting(bench'.phase)
      BY <1>0, <2>2 DEF persistLatency, Benches, Starting
    <3>. QED BY <1>3, <3>1, <3>2, Zenon
  <2>3. CASE persistCost
    <3>1. UNCHANGED <<now, run, tasks, bench>>
      BY <2>3, Zenon DEF persistCost, createRun, benchVars
    <3>. QED BY <1>3, <3>1, Zenon
  <2>4. CASE TakeTask
    BY <1>3, <2>4, TakeMoves, Zenon DEF MovesTask, storeVars
  <2>5. CASE Settle \/ DrainTimeout
    <3>1. PICK status : Updates(status)
      BY <2>5, SettleMoves, Zenon
    <3>2. run'.created_at = run.created_at /\ (run'.status # "none" => run.status # "none") /\ now' = now
      BY <1>0, <3>1 DEF Updates
    <3>3. bench'.plan = bench.plan /\ ~Starting(bench'.phase) /\ tasks' = tasks
      <4>1. PICK phase, closed :
              /\ phase \in {"error", "reporting"} /\ UNCHANGED tasks
              /\ bench' = [bench EXCEPT !.phase = phase, !.closed = closed]
        BY <2>5, SettleMoves, Zenon
      <4>. QED BY <1>0, <4>1 DEF Benches, Starting
    <3>. QED BY <1>3, <3>2, <3>3, Zenon
  <2>6. CASE Plan
    <3>1. CASE bench' = [bench EXCEPT !.phase = "refused"] /\ UNCHANGED <<storeVars, tasks>>
      <4>1. bench'.plan = bench.plan /\ ~Starting(bench'.phase)
        BY <1>0, <3>1 DEF Benches, Starting
      <4>. QED BY <1>3, <3>1, <4>1, Zenon DEF storeVars
    <3>2. ASSUME NEW plan,
                 GoodPlan(plan) /\ DOMAIN plan \subseteq Tasks,
                 \A t \in DOMAIN plan : plan[t].path = "gateway" => t <= GatewayTasks,
                 bench' = [bench EXCEPT !.phase = "running", !.plan = plan],
                 tasks' = [t \in Tasks |-> IF t \in DOMAIN plan THEN [Idle EXCEPT !.step = "waiting"] ELSE Idle],
                 run' = [status |-> "running", created_at |-> now],
                 UNCHANGED <<now, emitted, observations, executions, samples, deletions, cast>>
          PROVE  MakesPlan(plan)
      <4>1. bench'.phase = "running" /\ bench'.plan = plan
        BY <1>0, <3>2 DEF Benches
      <4>2. bench.phase = "planning"
        BY <2>6, PlanMoves, Zenon
      <4>. QED BY <3>2, <4>1, <4>2, Zenon DEF MakesPlan
    <3>. QED BY <2>6, <3>1, <3>2, PlanMoves, Zenon
  <2>7. ASSUME NEW t \in Tasks, TaskStep(t) PROVE KeepsPlan
    <3>1. PICK x \in Task : tasks' = [tasks EXCEPT ![t] = x] /\ TaskGoes(t, x)
      BY <2>7, TaskMoves, Zenon
    <3>2. bench'.phase = bench.phase /\ bench'.plan = bench.plan /\ run' = run /\ now' = now
      BY <3>1, BenchStaysSo, TaskStoresRun, Zenon DEF TaskGoes
    <3>. QED BY <1>3, <3>1, <3>2, Zenon DEF MovesTask
  <2>. QED BY <1>4, <2>1, <2>2, <2>3, <2>4, <2>5, <2>6, <2>7, Zenon DEF BenchActs, BenchStep, OptimizeStep
<1>. QED BY <1>2, <1>4

(***************************************************************************)
(* The plan, as the tasks have it.                                         *)
(***************************************************************************)
PlanKept ==
    /\ \A t \in Tasks : tasks[t].step = "unplanned" <=> t \notin DOMAIN bench.plan
    /\ Covered(bench.plan)
    /\ \A t \in DOMAIN bench.plan : bench.plan[t].path = "gateway" => t <= GatewayTasks
    /\ \A t \in Tasks : tasks[t].step = "polling" => t <= GatewayTasks

LEMMA WaitingTasks ==
    ASSUME NEW D, NEW z, z = [t \in Tasks |-> IF t \in D THEN [Idle EXCEPT !.step = "waiting"] ELSE Idle]
    PROVE  \A t \in Tasks : z[t].step = IF t \in D THEN "waiting" ELSE "unplanned"
<1>. DEFINE waiting == [Idle EXCEPT !.step = "waiting"]
            idle == Idle
<1>1. waiting.step = "waiting" /\ idle.step = "unplanned"
  BY DEF Idle
<1>. HIDE DEF waiting, idle
<1>2. z = [t \in Tasks |-> IF t \in D THEN waiting ELSE idle]
  BY Zenon DEF waiting, idle
<1>. QED BY <1>1, <1>2

LEMMA PlanKeptStep ==
    ASSUME Typed, PlanKept, KeepsPlan \/ \E plan : MakesPlan(plan)
    PROVE  PlanKept'
<1>1. ASSUME NEW plan, MakesPlan(plan) PROVE PlanKept'
  <2>1. \A t \in Tasks : tasks'[t].step = IF t \in DOMAIN plan THEN "waiting" ELSE "unplanned"
    <3>. DEFINE D == DOMAIN plan
                z == tasks'
    <3>1. z = [t \in Tasks |-> IF t \in D THEN [Idle EXCEPT !.step = "waiting"] ELSE Idle]
      BY <1>1, Zenon DEF MakesPlan
    <3>. HIDE DEF D, z
    <3>2. \A t \in Tasks : z[t].step = IF t \in D THEN "waiting" ELSE "unplanned"
      BY <3>1, WaitingTasks
    <3>. QED BY <3>2 DEF D, z
  <2>2. \A t \in Tasks : (tasks'[t].step = "unplanned" <=> t \notin DOMAIN plan) /\ tasks'[t].step # "polling"
    BY <2>1
  <2>3. bench'.plan = plan /\ Covered(plan) /\ \A t \in DOMAIN plan : plan[t].path = "gateway" => t <= GatewayTasks
    BY <1>1, Zenon DEF MakesPlan, GoodPlan
  <2>. QED BY <2>2, <2>3, Zenon DEF PlanKept, Covered
<1>2. CASE KeepsPlan
  <2>1. bench'.plan = bench.plan
    BY <1>2, Zenon DEF KeepsPlan
  <2>2. ASSUME \A t \in Tasks : /\ tasks'[t].step = "unplanned" <=> tasks[t].step = "unplanned"
                                /\ tasks'[t].step = "polling" => t <= GatewayTasks
        PROVE  PlanKept'
    BY <2>1, <2>2, Zenon DEF PlanKept, Covered
  <2>3. CASE tasks' = tasks
    BY <2>2, <2>3, Zenon DEF PlanKept
  <2>4. ASSUME NEW t \in Tasks, tasks[t].step = "waiting",
               tasks' = [tasks EXCEPT ![t] = [tasks[t] EXCEPT !.step = "fetching", !.started = now]]
        PROVE  PlanKept'
    <3>. DEFINE x == [tasks[t] EXCEPT !.step = "fetching", !.started = now]
    <3>1. x.step = "fetching" /\ tasks[t] \in Task
      BY DEF Typed, BenchTyped, Task
    <3>2. tasks' = [tasks EXCEPT ![t] = x] /\ tasks \in [Tasks -> Task]
      BY <2>4, Zenon DEF Typed, BenchTyped
    <3>. HIDE DEF x
    <3>3. \A u \in Tasks : tasks'[u] = IF u = t THEN x ELSE tasks[u]
      BY <3>2, Zenon
    <3>4. ASSUME NEW u \in Tasks
          PROVE  /\ tasks'[u].step = "unplanned" <=> tasks[u].step = "unplanned"
                 /\ tasks'[u].step = "polling" => u <= GatewayTasks
      BY <2>4, <3>1, <3>3 DEF PlanKept
    <3>. QED BY <2>2, <3>4
  <2>5. ASSUME NEW t \in Tasks, NEW x \in Task, tasks' = [tasks EXCEPT ![t] = x], TaskGoes(t, x)
        PROVE  PlanKept'
    <3>1. \A u \in Tasks : tasks'[u] = IF u = t THEN x ELSE tasks[u]
      BY <2>5, Zenon DEF Typed, BenchTyped
    <3>2. tasks[t].step # "unplanned" /\ x.step # "unplanned"
      BY <2>5 DEF TaskGoes, Recording
    <3>3. x.step = "polling" => t <= GatewayTasks
      BY <2>5, <3>2, Zenon DEF TaskGoes, PlanKept, PathOf
    <3>4. ASSUME NEW u \in Tasks
          PROVE  /\ tasks'[u].step = "unplanned" <=> tasks[u].step = "unplanned"
                 /\ tasks'[u].step = "polling" => u <= GatewayTasks
      <4>1. CASE u = t
        BY <3>1, <3>2, <3>3, <4>1, Zenon
      <4>2. CASE u # t
        BY <3>1, <4>2, Zenon DEF PlanKept
      <4>. QED BY <4>1, <4>2
    <3>. QED BY <2>2, <3>4
  <2>. QED BY <1>2, <2>3, <2>4, <2>5, Zenon DEF KeepsPlan, MovesTask
<1>. QED BY <1>1, <1>2

-----------------------------------------------------------------------------
(***************************************************************************)
(* The rows of the benchmark's own requests are not older than the run: a  *)
(* deletion that reaches them reaches the run as well.                     *)
(***************************************************************************)
BenchDates ==
    /\ run.created_at <= now
    /\ Starting(bench.phase) => \A r \in OfBench : observations[r] = <<>>
    /\ \A r \in OfBench : \A i \in DOMAIN observations[r] : observations[r][i].at >= run.created_at
    /\ \A t \in Tasks : tasks[t].step \in {"fetching", "polling", "recording", "completing", "reading"} =>
         tasks[t].started >= run.created_at
    /\ \A t \in Tasks : tasks[t].step \in {"polling", "recording", "completing"} =>
         tasks[t].completed >= run.created_at

\* A task that was planned was planned by a run that has begun.
LEMMA PlannedHasRun ==
    ASSUME RunFollowsPhase, PlanKept, NEW t \in Tasks, tasks[t].step # "unplanned"
    PROVE  ~Starting(bench.phase)
BY DEF RunFollowsPhase, Starting

LEMMA RowsOfBench ==
    ASSUME Typed, RunFollowsPhase, PlanKept, BenchDates, Quiet \/ StoreActs \/ ScanActs \/ BenchActs
    PROVE  \/ observations' = observations
           \/ \E cutoff \in Nat : Prunes(cutoff)
           \/ \E r \in Requests, from \in Nat :
                Grows(r, from) /\ (r \in OfBench => ~Starting(bench.phase) /\ from >= run.created_at)
<1>. USE DEF Typed
<1>1. CASE Quiet
  BY <1>1, Zenon DEF Quiet, storeVars
<1>2. CASE StoreActs
  <2>1. CASE Tick \/ deleteBenchmarkRun
    BY <2>1, Zenon DEF Tick, deleteBenchmarkRun
  <2>2. ASSUME NEW cutoff \in 0 .. now, pruneOlderThan(cutoff) PROVE \E c \in Nat : Prunes(c)
    BY <2>2, PruneMoves, CutoffIsTime, Zenon
  <2>3. ASSUME NEW r \in GatewayRequests, Observes(r)
        PROVE  \E q \in Requests, from \in Nat :
                 Grows(q, from) /\ (q \in OfBench => ~Starting(bench.phase) /\ from >= run.created_at)
    <3>. DEFINE from == emitted'[r].at
    <3>1. r \in Requests /\ r <= RequestCount
      BY TraceStoreAssumption DEF GatewayRequests, Requests
    <3>2. Grows(r, from) /\ emitted' \in [GatewayRequests -> [rank : 0 .. 3, at : Nat]]
      BY <2>3, ObserveGrows, Zenon DEF Observes
    <3>3. from \in Nat
      BY <3>2
    <3>4. ASSUME r \in OfBench PROVE ~Starting(bench.phase) /\ from >= run.created_at
      <4>1. r <= GatewayTasks
        BY <3>1, <3>4, TraceStoreAssumption, BenchAssumption DEF OfBench, Requests
      <4>2. Requested(r) /\ from >= run.created_at
        BY <2>3, <4>1, Zenon DEF Observes
      <4>3. r \in Tasks /\ r \in DOMAIN bench.plan
        BY <4>2, Zenon DEF Requested, BenchTyped
      <4>4. tasks[r].step # "unplanned"
        BY <4>3, Zenon DEF PlanKept
      <4>. QED BY <4>2, <4>3, <4>4, PlannedHasRun, Zenon
    <3>. QED BY <3>1, <3>2, <3>3, <3>4, Zenon
  <2>. QED BY <1>2, <2>1, <2>2, <2>3, Zenon DEF StoreActs
<1>3. CASE ScanActs
  <2>1. ASSUME NEW by, verifyAll(by) \/ repairAll(by) \/ repairOne(by) PROVE observations' = observations
    BY <2>1, Zenon DEF verifyAll, repairAll, repairOne, Begins
  <2>2. ASSUME EndScan \/ ListBatch \/ verifyBatch \/ BeginRepair \/ RepairThrows PROVE observations' = observations
    BY <2>2, Zenon DEF EndScan, ListBatch, verifyBatch, BeginRepair, RepairThrows, storeVars
  <2>3. ASSUME CommitRepair PROVE observations' = observations
    BY <2>3, Zenon DEF CommitRepair, CommitsBatch
  <2>. QED BY <1>3, <2>1, <2>2, <2>3, Zenon DEF ScanActs, ScanStep
<1>4. CASE BenchActs
  <2>1. CASE Starts \/ Stops \/ AbortBench \/ TakeTask \/ Report \/ OptimizeFails
    BY <2>1, TakeMoves, Zenon DEF Starts, StartBench, Stops, AbortBench, Report, OptimizeFails, storeVars
  <2>2. CASE persistLatency \/ persistCost
    BY <2>2, Zenon DEF persistLatency, persistCost, createRun
  <2>3. CASE Plan
    BY <2>3, PlanMoves, Zenon DEF storeVars
  <2>4. CASE Settle \/ DrainTimeout
    BY <2>4, SettleMoves, Zenon DEF Updates
  <2>5. ASSUME NEW t \in Tasks, TaskStep(t)
        PROVE  \/ observations' = observations
               \/ \E q \in Requests, from \in Nat :
                    Grows(q, from) /\ (q \in OfBench => ~Starting(bench.phase) /\ from >= run.created_at)
    <3>1. PICK x \in Task : TaskGoes(t, x)
      BY <2>5, TaskMoves, Zenon
    <3>2. tasks[t].attempt \in {1, 2} /\ tasks[t].started \in Nat /\ tasks[t].completed \in Nat
      BY DEF BenchTyped, Task
    <3>3. Synthetic(t, tasks[t].attempt) \in Requests
      BY <3>2, SyntheticTyped, Zenon
    <3>4. tasks[t].step \in {"fetching", "polling"} \cup Recording
      BY <3>1, Zenon DEF TaskGoes
    <3>5. ~Starting(bench.phase)
      <4>1. tasks[t].step # "unplanned"
        BY <3>4 DEF Recording
      <4>. QED BY <4>1, PlannedHasRun, Zenon
    <3>6. CASE x.step = "completing"
      <4>1. tasks[t].started >= run.created_at
        BY <3>1, <3>6, Zenon DEF TaskGoes, BenchDates
      <4>2. observations' = observations \/ Grows(Synthetic(t, tasks[t].attempt), tasks[t].started)
        BY <3>1, <3>6 DEF TaskGoes, TaskStores, storeVars
      <4>. QED BY <3>2, <3>3, <3>5, <4>1, <4>2, Zenon
    <3>7. CASE x.step = "reading"
      <4>1. tasks[t].completed >= run.created_at
        BY <3>1, <3>7, Zenon DEF TaskGoes, BenchDates
      <4>2. observations' = observations \/ Grows(Synthetic(t, tasks[t].attempt), tasks[t].completed)
        BY <3>1, <3>7 DEF TaskGoes, TaskStores, storeVars
      <4>. QED BY <3>2, <3>3, <3>5, <4>1, <4>2, Zenon
    <3>8. CASE x.step \notin {"completing", "reading"}
      BY <3>1, <3>8, Zenon DEF TaskGoes, TaskStores, storeVars
    <3>. QED BY <3>6, <3>7, <3>8, Zenon
  <2>. QED BY <1>4, <2>1, <2>2, <2>3, <2>4, <2>5, Zenon DEF BenchActs, BenchStep, OptimizeStep
<1>. QED BY <1>1, <1>2, <1>3, <1>4

LEMMA BenchDatesStep ==
    ASSUME Typed, RunFollowsPhase, PlanKept, BenchDates, Quiet \/ StoreActs \/ ScanActs \/ BenchActs
    PROVE  BenchDates'
<1>. USE DEF Typed
<1>0. /\ now \in Nat /\ run.created_at \in Nat /\ bench.phase \in Phases
      /\ \A t \in Tasks : tasks[t].started \in Nat /\ tasks[t].completed \in Nat
      /\ tasks \in [Tasks -> Task]
  BY DEF StoreTyped, BenchTyped, Benches, Task
<1>1. ASSUME NEW plan, MakesPlan(plan) PROVE BenchDates'
  <2>1. Starting(bench.phase) /\ ~Starting(bench'.phase)
    BY <1>1 DEF MakesPlan, Starting
  <2>2. \A t \in Tasks : tasks'[t].step \in {"waiting", "unplanned"}
    <3>. DEFINE D == DOMAIN plan
                z == tasks'
    <3>1. z = [t \in Tasks |-> IF t \in D THEN [Idle EXCEPT !.step = "waiting"] ELSE Idle]
      BY <1>1, Zenon DEF MakesPlan
    <3>. HIDE DEF D, z
    <3>2. \A t \in Tasks : z[t].step = IF t \in D THEN "waiting" ELSE "unplanned"
      BY <3>1, WaitingTasks
    <3>3. \A t \in Tasks : z[t].step \in {"waiting", "unplanned"}
      BY <3>2
    <3>. QED BY <3>3 DEF z
  <2>3. observations' = observations /\ run' = [status |-> "running", created_at |-> now] /\ now' = now
    BY <1>1, Zenon DEF MakesPlan
  <2>4. run'.created_at <= now'
    BY <1>0, <2>3
  <2>5. \A r \in OfBench : DOMAIN observations'[r] = {}
    <3>1. \A r \in OfBench : observations'[r] = <<>>
      BY <2>1, <2>3, Zenon DEF BenchDates
    <3>2. DOMAIN <<>> = {}
      OBVIOUS
    <3>. QED BY <3>1, <3>2, Zenon
  <2>6. \A t \in Tasks : tasks'[t].step \notin {"fetching", "polling", "recording", "completing", "reading"}
    BY <2>2
  <2>. QED BY <2>1, <2>4, <2>5, <2>6, Zenon DEF BenchDates, OfBench, Requests, Tasks
<1>2. CASE KeepsPlan
  <2>0. run'.created_at = run.created_at /\ now' \in Nat /\ now <= now'
    BY <1>2, Zenon DEF KeepsPlan
  <2>1. run'.created_at <= now'
    BY <1>0, <2>0 DEF BenchDates
  <2>2. ASSUME NEW r \in OfBench
        PROVE  /\ Starting(bench'.phase) => observations'[r] = <<>>
               /\ \A i \in DOMAIN observations'[r] : observations'[r][i].at >= run.created_at
    <3>1. /\ Starting(bench.phase) => observations[r] = <<>>
          /\ \A i \in DOMAIN observations[r] : observations[r][i].at >= run.created_at
          /\ Starting(bench'.phase) => Starting(bench.phase)
          /\ r \in Requests
      BY <1>2, Zenon DEF BenchDates, KeepsPlan, OfBench
    <3>2. CASE observations' = observations
      BY <3>1, <3>2, Zenon
    <3>3. ASSUME NEW cutoff \in Nat, Prunes(cutoff)
          PROVE  /\ Starting(bench'.phase) => observations'[r] = <<>>
                 /\ \A i \in DOMAIN observations'[r] : observations'[r][i].at >= run.created_at
      <4>1. /\ observations'[r] \in Seq(Row)
            /\ \A j \in DOMAIN observations'[r] : \E i \in DOMAIN observations[r] :
                 observations'[r][j] = observations[r][i]
        BY <3>1, <3>3, PrunedRows, Zenon
      <4>2. ASSUME Starting(bench'.phase) PROVE observations'[r] = <<>>
        <5>1. DOMAIN observations[r] = {}
          BY <3>1, <4>2
        <5>2. DOMAIN observations'[r] = {}
          BY <4>1, <5>1, Zenon
        <5>. DEFINE z == observations'[r]
        <5>3. z \in Seq(Row) /\ DOMAIN z = {}
          BY <4>1, <5>2
        <5>. HIDE DEF z
        <5>4. z = <<>>
          BY <5>3
        <5>. QED BY <5>4 DEF z
      <4>. QED BY <3>1, <4>1, <4>2, Zenon
    <3>4. ASSUME NEW q \in Requests, NEW from \in Nat, Grows(q, from),
                 q \in OfBench => ~Starting(bench.phase) /\ from >= run.created_at
          PROVE  /\ Starting(bench'.phase) => observations'[r] = <<>>
                 /\ \A i \in DOMAIN observations'[r] : observations'[r][i].at >= run.created_at
      <4>1. CASE q # r
        BY <3>1, <3>4, <4>1, Zenon DEF Grows
      <4>2. CASE q = r
        <5>1. /\ ~Starting(bench'.phase)
              /\ \A i \in DOMAIN observations[r] : observations'[r][i] = observations[r][i]
              /\ \A i \in DOMAIN observations'[r] \ DOMAIN observations[r] : observations'[r][i].at >= from
              /\ from >= run.created_at
          BY <3>1, <3>4, <4>2, Zenon DEF Grows
        <5>2. observations' \in [Requests -> Seq(Row)]
          BY <3>4, Zenon DEF Grows
        <5>3. ASSUME NEW i \in DOMAIN observations'[r] PROVE observations'[r][i].at >= run.created_at
          <6>1. CASE i \in DOMAIN observations[r]
            BY <3>1, <5>1, <6>1, Zenon
          <6>2. CASE i \notin DOMAIN observations[r]
            <7>1. observations'[r][i].at >= from
              BY <5>1, <6>2, Zenon
            <7>2. observations'[r][i] \in Row
              BY <3>1, <5>2
            <7>3. observations'[r][i].at \in Nat
              BY <7>2 DEF Row
            <7>. QED BY <1>0, <5>1, <7>1, <7>3
          <6>. QED BY <6>1, <6>2
        <5>. QED BY <5>1, <5>3, Zenon
      <4>. QED BY <4>1, <4>2
    <3>. QED BY <3>2, <3>3, <3>4, RowsOfBench, Zenon
  <2>3. ASSUME NEW u \in Tasks
        PROVE  /\ tasks'[u].step \in {"fetching", "polling", "recording", "completing", "reading"} =>
                    tasks'[u].started >= run.created_at
               /\ tasks'[u].step \in {"polling", "recording", "completing"} =>
                    tasks'[u].completed >= run.created_at
    <3>0. /\ tasks[u].step \in {"fetching", "polling", "recording", "completing", "reading"} =>
               tasks[u].started >= run.created_at
          /\ tasks[u].step \in {"polling", "recording", "completing"} => tasks[u].completed >= run.created_at
          /\ run.created_at <= now
      BY Zenon DEF BenchDates
    <3>1. CASE tasks' = tasks
      BY <3>0, <3>1, Zenon
    <3>2. ASSUME NEW t \in Tasks, tasks[t].step = "waiting",
                 tasks' = [tasks EXCEPT ![t] = [tasks[t] EXCEPT !.step = "fetching", !.started = now]]
          PROVE  /\ tasks'[u].step \in {"fetching", "polling", "recording", "completing", "reading"} =>
                      tasks'[u].started >= run.created_at
                 /\ tasks'[u].step \in {"polling", "recording", "completing"} =>
                      tasks'[u].completed >= run.created_at
      <4>. DEFINE x == [tasks[t] EXCEPT !.step = "fetching", !.started = now]
      <4>1. x.step = "fetching" /\ x.started = now
        BY <1>0 DEF Task
      <4>2. tasks' = [tasks EXCEPT ![t] = x]
        BY <3>2, Zenon
      <4>. HIDE DEF x
      <4>3. tasks'[u] = IF u = t THEN x ELSE tasks[u]
        BY <1>0, <4>2, Zenon
      <4>. QED BY <1>0, <3>0, <4>1, <4>3
    <3>3. ASSUME NEW t \in Tasks, NEW x \in Task, tasks' = [tasks EXCEPT ![t] = x], TaskGoes(t, x)
          PROVE  /\ tasks'[u].step \in {"fetching", "polling", "recording", "completing", "reading"} =>
                      tasks'[u].started >= run.created_at
                 /\ tasks'[u].step \in {"polling", "recording", "completing"} =>
                      tasks'[u].completed >= run.created_at
      <4>1. tasks'[u] = IF u = t THEN x ELSE tasks[u]
        BY <1>0, <3>3, Zenon
      <4>2. CASE u # t
        BY <3>0, <4>1, <4>2, Zenon
      <4>3. CASE u = t
        <5>. DEFINE k == tasks[t]
        <5>1. /\ k.step \in {"fetching", "polling"} \cup Recording
              /\ x.step \in {"polling", "sampled", "rejected"} \cup Recording
              /\ x.step \in {"polling", "recording", "completing", "reading"} =>
                   x.started = k.started /\ k.step # "sampling"
              /\ x.step \in {"polling", "recording", "completing"} =>
                   \/ x.completed = now
                   \/ x.completed = k.completed /\ k.step \in {"polling", "recording"}
          BY <3>3, Zenon DEF TaskGoes
        <5>2. /\ k.step \in {"fetching", "polling", "recording", "completing", "reading"} =>
                   k.started >= run.created_at
              /\ k.step \in {"polling", "recording", "completing"} => k.completed >= run.created_at
          BY <3>0, <4>3, Zenon
        <5>. HIDE DEF k
        <5>3. /\ x.step \in {"fetching", "polling", "recording", "completing", "reading"} =>
                   x.started >= run.created_at
              /\ x.step \in {"polling", "recording", "completing"} => x.completed >= run.created_at
          BY <1>0, <3>0, <5>1, <5>2 DEF Recording
        <5>. QED BY <4>1, <4>3, <5>3, Zenon
      <4>. QED BY <4>2, <4>3
    <3>. QED BY <1>2, <3>1, <3>2, <3>3, Zenon DEF KeepsPlan, MovesTask
  <2>. QED BY <2>0, <2>1, <2>2, <2>3, Zenon DEF BenchDates, OfBench, Requests, Tasks
<1>. QED BY <1>1, <1>2, BenchFrame

-----------------------------------------------------------------------------
(***************************************************************************)
(* The sample of a task: while the run is stored it is what the task       *)
(* returned, and the execution it belongs to is stored too.                *)
(***************************************************************************)
Kept(t) ==
    /\ samples[t] # NoSample /\ samples[t].execution \in OfBench
    /\ executions[samples[t].execution] # NoExecution

SamplesKept ==
    /\ \A t \in Tasks : tasks[t].step = "sampling" => tasks[t].sample.execution \in OfBench
    /\ run.status # "none" =>
         \A t \in Tasks : tasks[t].step = "sampled" => Kept(t) /\ samples[t] = tasks[t].sample

Inserts(t) ==
    /\ tasks[t].step = "sampling" /\ samples' = [samples EXCEPT ![t] = tasks[t].sample]
    /\ executions' = executions

LEMMA SamplesMove ==
    ASSUME Typed, Quiet \/ StoreActs \/ ScanActs \/ BenchActs
    PROVE  \/ UNCHANGED <<samples, executions>>
           \/ UNCHANGED samples /\ \E r \in Requests : \E from : Grows(r, from)
           \/ \E cutoff \in Nat : Prunes(cutoff)
           \/ CommitRepair
           \/ run'.status = "none"
           \/ \E t \in Tasks : Inserts(t)
<1>. USE DEF Typed
<1>1. CASE Quiet
  BY <1>1, Zenon DEF Quiet, storeVars
<1>2. CASE StoreActs
  <2>1. CASE Tick
    BY <2>1, Zenon DEF Tick
  <2>2. ASSUME deleteBenchmarkRun PROVE run'.status = "none"
    BY <2>2 DEF deleteBenchmarkRun, StoreTyped
  <2>3. ASSUME NEW cutoff \in 0 .. now, pruneOlderThan(cutoff) PROVE \E c \in Nat : Prunes(c)
    BY <2>3, PruneMoves, CutoffIsTime, Zenon
  <2>4. ASSUME NEW r \in GatewayRequests, Observes(r)
        PROVE  UNCHANGED samples /\ \E q \in Requests : \E from : Grows(q, from)
    <3>1. r \in Requests
      BY TraceStoreAssumption DEF GatewayRequests, Requests
    <3>. QED BY <2>4, <3>1, ObserveGrows, Zenon DEF Observes
  <2>. QED BY <1>2, <2>1, <2>2, <2>3, <2>4, Zenon DEF StoreActs
<1>3. CASE ScanActs
  <2>1. ASSUME NEW by, verifyAll(by) \/ repairAll(by) \/ repairOne(by) PROVE UNCHANGED <<samples, executions>>
    BY <2>1, Zenon DEF verifyAll, repairAll, repairOne, Begins
  <2>2. ASSUME EndScan \/ ListBatch \/ verifyBatch \/ BeginRepair \/ RepairThrows
        PROVE  UNCHANGED <<samples, executions>>
    BY <2>2, Zenon DEF EndScan, ListBatch, verifyBatch, BeginRepair, RepairThrows, storeVars
  <2>. QED BY <1>3, <2>1, <2>2, Zenon DEF ScanActs, ScanStep
<1>4. CASE BenchActs
  <2>1. CASE Starts \/ Stops \/ AbortBench \/ TakeTask \/ Report \/ OptimizeFails
    BY <2>1, TakeMoves, Zenon DEF Starts, StartBench, Stops, AbortBench, Report, OptimizeFails, storeVars
  <2>2. CASE persistLatency \/ persistCost
    BY <2>2, Zenon DEF persistLatency, persistCost, createRun
  <2>3. CASE Plan
    BY <2>3, PlanMoves, Zenon DEF storeVars
  <2>4. CASE Settle \/ DrainTimeout
    BY <2>4, SettleMoves, Zenon DEF Updates
  <2>5. ASSUME NEW t \in Tasks, TaskStep(t)
        PROVE  \/ UNCHANGED <<samples, executions>>
               \/ UNCHANGED samples /\ \E r \in Requests : \E from : Grows(r, from)
               \/ Inserts(t)
    <3>1. PICK x \in Task : TaskGoes(t, x)
      BY <2>5, TaskMoves, Zenon
    <3>2. tasks[t].attempt \in {1, 2}
      BY DEF BenchTyped, Task
    <3>3. Synthetic(t, tasks[t].attempt) \in Requests
      BY <3>2, SyntheticTyped, Zenon
    <3>4. TaskStores(t, x) /\ (x.step = "sampled" => tasks[t].step = "sampling")
      BY <3>1, Zenon DEF TaskGoes
    <3>. QED BY <3>3, <3>4, Zenon DEF TaskStores, storeVars, Inserts
  <2>. QED BY <1>4, <2>1, <2>2, <2>3, <2>4, <2>5, Zenon DEF BenchActs, BenchStep, OptimizeStep
<1>. QED BY <1>1, <1>2, <1>3, <1>4

\* A repair never takes the execution of a sample: it has rows to be summarised from.
LEMMA RepairKeeps ==
    ASSUME Typed, RepairInv, SummariesAreFounded, CommitRepair, NEW r \in Requests, executions[r] # NoExecution
    PROVE  Repaired[r] # NoExecution
<1>. USE DEF Typed
<1>1. scan.step = "write" /\ ~Conflicts
  BY Zenon DEF CommitRepair
<1>2. CASE r \in DOMAIN scan.plan
  <2>1. scan.plan # <<>>
    BY <1>2, NothingPlanned, Zenon
  <2>2. ~changed
    BY <1>1, <2>1, Zenon DEF Conflicts
  <2>3. Repaired[r] = buildFromObservations(observations[r])
    BY <1>1, <1>2, <2>2, RepairTyped, Zenon DEF RepairInv, PlanIsRight
  <2>4. PICK i \in DOMAIN observations[r] : TRUE
    BY Zenon DEF SummariesAreFounded
  <2>5. observations[r] \in Seq(Row) /\ observations[r] # <<>>
    <3>1. DOMAIN <<>> = {}
      OBVIOUS
    <3>. QED BY <2>4, <3>1, Zenon DEF StoreTyped
  <2>6. buildFromObservations(observations[r]) \in Summary
    BY <2>5, BuildTyped, Zenon
  <2>. QED BY <2>3, <2>6, SummaryIsOne, Zenon
<1>3. CASE r \notin DOMAIN scan.plan
  BY <1>3, RepairTyped, Zenon
<1>. QED BY <1>2, <1>3

LEMMA SampleStays ==
    ASSUME NEW t \in Tasks, samples[t] # NoSample,
           NEW kept, kept[samples[t].execution] # NoExecution, NEW b, b, samples' = SamplesOf(kept, b)
    PROVE  samples'[t] = samples[t]
BY Zenon DEF SamplesOf

LEMMA KeptStays ==
    ASSUME Typed, RepairInv, SummariesAreFounded, BenchDates, Quiet \/ StoreActs \/ ScanActs \/ BenchActs,
           run'.status # "none", NEW t \in Tasks, Kept(t)
    PROVE  /\ executions'[samples[t].execution] # NoExecution
           /\ samples'[t] = samples[t] \/ Inserts(t)
<1>. USE DEF Typed
<1>. DEFINE e == samples[t].execution
<1>1. e \in OfBench /\ e \in Requests /\ executions[e] # NoExecution /\ samples[t] # NoSample
  BY Zenon DEF Kept, OfBench
<1>2. ASSUME NEW r \in Requests, NEW from, Grows(r, from) PROVE executions'[e] # NoExecution
  BY <1>1, <1>2, Zenon DEF Grows
<1>3. ASSUME NEW cutoff \in Nat, Prunes(cutoff) PROVE executions'[e] # NoExecution /\ samples'[t] = samples[t]
  <2>1. ~RunExpired(cutoff)
    <3>1. ASSUME RunExpired(cutoff) PROVE run'.status = "none"
      BY <1>3, <3>1 DEF Prunes, StoreTyped
    <3>. QED BY <3>1
  <2>2. run.status # "none"
    BY <1>3, <2>1, Zenon DEF Prunes
  <2>3. PICK i \in DOMAIN observations[e] : observations[e][i].at = executions[e].started_at
    BY <1>1, Zenon DEF SummariesAreFounded
  <2>4. executions[e].started_at >= run.created_at
    BY <1>1, <2>3, Zenon DEF BenchDates
  <2>5. executions[e] \in Summary
    BY <1>1, Zenon DEF StoreTyped, Summaries
  <2>6. executions[e].started_at \in Nat /\ run.created_at \in Nat
    BY <2>5 DEF StoreTyped, Summary
  <2>7. executions[e].started_at >= cutoff
    BY <2>1, <2>2, <2>4, <2>6 DEF RunExpired
  <2>8. executions'[e] = executions[e]
    BY <1>1, <1>3, <2>7, Zenon DEF Prunes
  <2>9. samples' = SamplesOf(executions', ~RunExpired(cutoff))
    BY <1>3, Zenon DEF Prunes
  <2>. QED BY <1>1, <2>1, <2>8, <2>9, SampleStays, Zenon
<1>4. ASSUME CommitRepair PROVE executions'[e] # NoExecution /\ samples'[t] = samples[t]
  <2>1. executions' = Repaired /\ samples' = SamplesOf(Repaired, TRUE)
    BY <1>4, Zenon DEF CommitRepair, CommitsBatch
  <2>2. Repaired[e] # NoExecution
    BY <1>1, <1>4, RepairKeeps, Zenon
  <2>. QED BY <1>1, <2>1, <2>2, SampleStays, Zenon
<1>5. ASSUME NEW u \in Tasks, Inserts(u) PROVE executions'[e] # NoExecution /\ (samples'[t] = samples[t] \/ Inserts(t))
  BY <1>1, <1>5, Zenon DEF Inserts, StoreTyped
<1>. QED BY <1>1, <1>2, <1>3, <1>4, <1>5, SamplesMove, Zenon

LEMMA SamplesKeptStep ==
    ASSUME Typed, RunFollowsPhase, RepairInv, SummariesAreFounded, PlanKept, BenchDates, SamplesKept,
           Quiet \/ StoreActs \/ ScanActs \/ BenchActs
    PROVE  SamplesKept'
<1>. USE DEF Typed
<1>0. tasks \in [Tasks -> Task]
  BY Zenon DEF BenchTyped
<1>. DEFINE Fine(u) ==
        /\ tasks'[u].step = "sampling" => tasks'[u].sample.execution \in OfBench
        /\ run'.status # "none" /\ tasks'[u].step = "sampled" => Kept(u)' /\ samples'[u] = tasks'[u].sample
<1>1. SUFFICES ASSUME NEW u \in Tasks PROVE Fine(u)
  BY Zenon DEF SamplesKept, OfBench, Requests, Tasks
<1>2. ASSUME NEW plan, MakesPlan(plan) PROVE Fine(u)
  <2>. DEFINE D == DOMAIN plan
              z == tasks'
  <2>1. z = [t \in Tasks |-> IF t \in D THEN [Idle EXCEPT !.step = "waiting"] ELSE Idle]
    BY <1>2, Zenon DEF MakesPlan
  <2>. HIDE DEF D, z
  <2>2. z[u].step = IF u \in D THEN "waiting" ELSE "unplanned"
    BY <2>1, WaitingTasks
  <2>3. z[u].step # "sampling" /\ z[u].step # "sampled"
    BY <2>2
  <2>. QED BY <2>3 DEF z
<1>3. CASE KeepsPlan
  <2>1. run'.status # "none" => run.status # "none"
    BY <1>3, Zenon DEF KeepsPlan
  <2>2. ASSUME tasks'[u] = tasks[u] PROVE Fine(u)
    <3>1. tasks'[u].step = "sampling" => tasks'[u].sample.execution \in OfBench
      BY <2>2, Zenon DEF SamplesKept
    <3>2. ASSUME run'.status # "none", tasks'[u].step = "sampled"
          PROVE  Kept(u)' /\ samples'[u] = tasks'[u].sample
      <4>1. Kept(u) /\ samples[u] = tasks[u].sample /\ tasks[u].step = "sampled"
        BY <2>1, <2>2, <3>2, Zenon DEF SamplesKept
      <4>2. tasks[u].step # "sampling"
        BY <4>1
      <4>3. executions'[samples[u].execution] # NoExecution /\ samples'[u] = samples[u]
        BY <3>2, <4>1, <4>2, KeptStays, Zenon DEF Inserts
      <4>. QED BY <2>2, <4>1, <4>3, Zenon DEF Kept, OfBench, Requests
    <3>. QED BY <3>1, <3>2
  <2>3. CASE tasks' = tasks
    BY <2>2, <2>3, Zenon
  <2>4. ASSUME NEW t \in Tasks, tasks[t].step = "waiting",
               tasks' = [tasks EXCEPT ![t] = [tasks[t] EXCEPT !.step = "fetching", !.started = now]]
        PROVE  Fine(u)
    <3>. DEFINE x == [tasks[t] EXCEPT !.step = "fetching", !.started = now]
    <3>1. x.step # "sampling" /\ x.step # "sampled"
      BY <1>0 DEF Task
    <3>2. tasks' = [tasks EXCEPT ![t] = x]
      BY <2>4, Zenon
    <3>. HIDE DEF x
    <3>3. CASE u = t
      BY <1>0, <3>1, <3>2, <3>3, Zenon
    <3>4. CASE u # t
      BY <1>0, <2>2, <3>2, <3>4, Zenon
    <3>. QED BY <3>3, <3>4
  <2>5. ASSUME NEW t \in Tasks, NEW x \in Task, tasks' = [tasks EXCEPT ![t] = x], TaskGoes(t, x)
        PROVE  Fine(u)
    <3>1. CASE u # t
      BY <1>0, <2>2, <2>5, <3>1, Zenon
    <3>2. CASE u = t
      <4>1. tasks'[u] = x
        BY <1>0, <2>5, <3>2, Zenon
      <4>2. ASSUME x.step = "sampling" PROVE x.sample.execution \in OfBench
        <5>1. PICK r \in Requests : r \in OfBench /\ executions[r] # NoExecution /\ x.sample = SampleOf(r)
          <6>1. CASE tasks[t].step = "polling" /\ executions[t] # NoExecution /\ x.sample = SampleOf(t)
            <7>1. t <= GatewayTasks
              BY <6>1, Zenon DEF PlanKept
            <7>2. t \in OfBench /\ t \in Requests
              BY <7>1, TraceStoreAssumption, BenchAssumption DEF OfBench, Requests, Tasks
            <7>. QED BY <6>1, <7>2, Zenon
          <6>2. CASE /\ executions[Synthetic(t, tasks[t].attempt)] # NoExecution
                     /\ x.sample = SampleOf(Synthetic(t, tasks[t].attempt))
            <7>1. tasks[t].attempt \in {1, 2}
              BY <1>0 DEF Task
            <7>. QED BY <6>2, <7>1, SyntheticTyped, Zenon
          <6>. QED BY <2>5, <4>2, <6>1, <6>2, Zenon DEF TaskGoes
        <5>2. executions[r] \in Summary
          BY <5>1, Zenon DEF StoreTyped, Summaries
        <5>3. SampleOf(r).execution = r
          BY <5>2, SampleTyped, Zenon
        <5>. QED BY <5>1, <5>3, Zenon
      <4>3. ASSUME x.step = "sampled" PROVE Kept(u)' /\ samples'[u] = x.sample
        <5>1. tasks[t].step = "sampling" /\ x.sample = tasks[t].sample
          BY <2>5, <4>3, Zenon DEF TaskGoes
        <5>2. /\ executions[tasks[t].sample.execution] # NoExecution /\ executions' = executions
              /\ samples' = [samples EXCEPT ![t] = tasks[t].sample]
          BY <2>5, <4>3 DEF TaskGoes, TaskStores
        <5>3. tasks[t].sample.execution \in OfBench
          BY <5>1, Zenon DEF SamplesKept
        <5>4. tasks[t].sample # NoSample
          BY <5>3, NoSampleTyped, Zenon DEF OfBench
        <5>5. samples'[t] = tasks[t].sample
          BY <5>2, Zenon DEF StoreTyped
        <5>. QED BY <3>2, <5>1, <5>2, <5>3, <5>4, <5>5, Zenon DEF Kept, OfBench, Requests
      <4>. QED BY <4>1, <4>2, <4>3, Zenon
    <3>. QED BY <3>1, <3>2
  <2>. QED BY <1>3, <2>3, <2>4, <2>5, Zenon DEF KeepsPlan, MovesTask
<1>. QED BY <1>2, <1>3, BenchFrame

-----------------------------------------------------------------------------
(***************************************************************************)
(* The stored optimization.  One by latencies is the last thing the        *)
(* operation of its benchmark does: the tasks are over.                    *)
(***************************************************************************)
OptimizationHolds ==
    /\ optimization.objective = "cost" => CostWins(optimization)
    /\ optimization.objective = "latency" => bench.phase = "optimized" /\ LatencyWins(optimization)

LEMMA LatencyStays ==
    ASSUME NEW report, LatencyWins(report), optimization' = report, bench'.plan = bench.plan, tasks' = tasks
    PROVE  LatencyWins(optimization)'
<1>. DEFINE M(r) == {t \in DOMAIN bench'.plan : bench'.plan[t].route = r /\ ~bench'.plan[t].is_warmup}
            w == optimization'.winner
            B == optimization'.basis
<1>1. \A r : M(r) = Measured(r)
  BY Zenon DEF Measured
<1>2. w = report.winner /\ B = report.basis
  BY Zenon
<1>. HIDE DEF M, w, B
<1>3. /\ \E t \in M(w) : Answered(tasks'[t].sample)
      /\ \A r \in B \ {w} :
           ~ \A t \in M(r), u \in M(w) :
               /\ Answered(tasks'[t].sample)
               /\ Answered(tasks'[u].sample) => tasks'[t].sample.latency < tasks'[u].sample.latency
  <2>. DEFINE lw == report.winner
              lb == report.basis
  <2>1. /\ \E t \in Measured(lw) : Answered(tasks[t].sample)
        /\ \A r \in lb \ {lw} :
             ~ \A t \in Measured(r), u \in Measured(lw) :
                 /\ Answered(tasks[t].sample)
                 /\ Answered(tasks[u].sample) => tasks[t].sample.latency < tasks[u].sample.latency
    BY Zenon DEF LatencyWins
  <2>2. w = lw /\ B = lb
    BY <1>2
  <2>. HIDE DEF lw, lb
  <2>. QED BY <1>1, <2>1, <2>2, Zenon
<1>. QED BY <1>3 DEF LatencyWins, Measured, Answered, M, w, B

LEMMA CostStays ==
    ASSUME NEW report, CostWins(report), optimization' = report
    PROVE  CostWins(optimization)'
BY Zenon DEF CostWins

\* Once the operation has ended only the signal of its session still reaches it.
LEMMA OptimizedIsOver ==
    ASSUME Typed, RunFollowsPhase, Quiet \/ StoreActs \/ ScanActs \/ BenchActs, bench.phase = "optimized"
    PROVE  bench'.phase = "optimized" /\ bench'.plan = bench.plan /\ tasks' = tasks
<1>. USE DEF Typed
<1>0. bench \in Benches
  BY Zenon DEF BenchTyped
<1>1. CASE Quiet \/ StoreActs \/ ScanActs
  BY <1>1, OthersFade, Zenon DEF Fades, benchVars
<1>2. CASE BenchActs
  <2>1. CASE Stops
    <3>1. tasks' = tasks
      BY <2>1, Zenon DEF Stops
    <3>2. bench'.phase = "optimized" /\ bench'.plan = bench.plan
      BY <1>0, <2>1 DEF Stops, Benches
    <3>. QED BY <3>1, <3>2
  <2>2. ASSUME Starts \/ AbortBench \/ DrainTimeout \/ Plan \/ TakeTask \/ Settle \/ Report PROVE FALSE
    <3>1. bench.phase \in {"idle", "running", "planning", "reporting"}
      BY <2>2, SettleMoves, PlanMoves, TakeMoves DEF Starts, StartBench, AbortBench, Report
    <3>. QED BY <3>1
  <2>3. ASSUME NEW t \in Tasks, TaskStep(t) PROVE FALSE
    <3>1. tasks[t].step \in {"fetching", "polling"} \cup Recording
      BY <2>3, TaskMoves, Zenon DEF TaskGoes
    <3>2. tasks[t].step \in {"unplanned", "sampled"}
      BY Zenon DEF RunFollowsPhase
    <3>. QED BY <3>1, <3>2 DEF Recording
  <2>4. CASE persistCost
    BY <2>4, Zenon DEF persistCost, benchVars
  <2>5. ASSUME OptimizeStep PROVE FALSE
    <3>1. bench.phase = "reported"
      BY <2>5, Zenon DEF OptimizeStep, OptimizeFails, persistLatency, Optimizing
    <3>. QED BY <3>1
  <2>. QED BY <1>2, <2>1, <2>2, <2>3, <2>4, <2>5, Zenon DEF BenchActs, BenchStep
<1>. QED BY <1>1, <1>2

LEMMA OptimizationStep ==
    ASSUME Typed, RunFollowsPhase, PlanKept, OptimizationHolds, Quiet \/ StoreActs \/ ScanActs \/ BenchActs
    PROVE  OptimizationHolds'
<1>. USE DEF Typed
<1>1. ASSUME optimization' = optimization PROVE OptimizationHolds'
  <2>1. CASE optimization.objective = "latency"
    <3>1. bench.phase = "optimized" /\ LatencyWins(optimization)
      BY <2>1, Zenon DEF OptimizationHolds
    <3>2. bench'.phase = "optimized" /\ bench'.plan = bench.plan /\ tasks' = tasks
      BY <3>1, OptimizedIsOver
    <3>3. LatencyWins(optimization)'
      BY <1>1, <3>1, <3>2, LatencyStays, Zenon
    <3>4. optimization'.objective = "latency" /\ optimization'.objective # "cost"
      BY <1>1, <2>1
    <3>. QED BY <3>2, <3>3, <3>4, Zenon DEF OptimizationHolds
  <2>2. CASE optimization.objective # "latency"
    <3>1. optimization.objective = "cost" => CostWins(optimization)'
      BY <1>1, Zenon DEF OptimizationHolds, CostWins
    <3>. QED BY <1>1, <2>2, <3>1, Zenon DEF OptimizationHolds
  <2>. QED BY <2>1, <2>2
<1>2. ASSUME persistCost PROVE OptimizationHolds'
  <2>1. PICK report \in CostReports \ {NoReport} : optimization' = report
    BY <1>2, Zenon DEF persistCost, createRun
  <2>2. report.objective = "cost" /\ CostWins(report)
    BY CostReportsWin, Zenon
  <2>3. CostWins(optimization)'
    BY <2>1, <2>2, CostStays, Zenon
  <2>4. optimization'.objective # "latency"
    BY <2>1, <2>2
  <2>. QED BY <2>3, <2>4, Zenon DEF OptimizationHolds
<1>3. ASSUME persistLatency PROVE OptimizationHolds'
  <2>. DEFINE report == buildLatencyOptimizeReport
  <2>1. report # NoReport /\ optimization' = report /\ tasks' = tasks
    BY <1>3, Zenon DEF persistLatency, createRun
  <2>2. bench'.phase = "optimized" /\ bench'.plan = bench.plan
    BY <1>3 DEF persistLatency, BenchTyped, Benches
  <2>3. Covered(bench.plan)
    BY Zenon DEF PlanKept
  <2>4. report.objective = "latency" /\ LatencyWins(report)
    BY <2>1, <2>3, LatencyReportWins, Zenon
  <2>. HIDE DEF report
  <2>5. LatencyWins(optimization)'
    BY <2>1, <2>2, <2>4, LatencyStays, Zenon
  <2>6. optimization'.objective # "cost"
    BY <2>1, <2>4
  <2>. QED BY <2>2, <2>5, <2>6, Zenon DEF OptimizationHolds
<1>4. optimization' = optimization \/ persistCost \/ persistLatency
  BY Zenon DEF Quiet, StoreActs, ScanActs, BenchActs, OptimizeStep, OptimizeFails
<1>. QED BY <1>1, <1>2, <1>3, <1>4

LEMMA OptimizationInit == ASSUME ControlInit PROVE PlanKept /\ BenchDates /\ SamplesKept /\ OptimizationHolds
<1>1. /\ now = 0 /\ run = [status |-> "none", created_at |-> 0] /\ observations = [r \in Requests |-> <<>>]
      /\ tasks = [t \in Tasks |-> Idle] /\ optimization = NoOptimization
      /\ bench = [by |-> "none", objective |-> "none", phase |-> "idle", plan |-> <<>>, aborted |-> "no",
                  closed |-> FALSE, busy |-> 0]
  BY Zenon DEF ControlInit, Init, InitBench, InitOptimization
<1>2. \A t \in Tasks : tasks[t].step = "unplanned"
  <2>. DEFINE idle == Idle
  <2>1. idle.step = "unplanned"
    BY DEF Idle
  <2>. HIDE DEF idle
  <2>2. tasks = [t \in Tasks |-> idle]
    BY <1>1, Zenon DEF idle
  <2>. QED BY <2>1, <2>2
<1>3. bench.plan = <<>> /\ DOMAIN bench.plan = {}
  BY <1>1
<1>4. run.created_at = 0 /\ run.created_at <= now /\ run.status = "none"
  BY <1>1
<1>5. PlanKept
  <2>1. \A t \in Tasks : tasks[t].step # "polling"
    BY <1>2
  <2>. QED BY <1>2, <1>3, <2>1, Zenon DEF PlanKept, Covered
<1>6. BenchDates
  <2>1. \A r \in OfBench : observations[r] = <<>>
    BY <1>1, Zenon DEF OfBench
  <2>2. \A r \in OfBench : DOMAIN observations[r] = {}
    BY <2>1
  <2>3. \A t \in Tasks : tasks[t].step \notin {"fetching", "polling", "recording", "completing", "reading"}
    BY <1>2
  <2>. QED BY <1>4, <2>1, <2>2, <2>3, Zenon DEF BenchDates
<1>7. SamplesKept
  <2>1. \A t \in Tasks : tasks[t].step # "sampling"
    BY <1>2
  <2>. QED BY <1>4, <2>1, Zenon DEF SamplesKept
<1>8. OptimizationHolds
  <2>1. optimization.objective = "none"
    BY <1>1 DEF NoOptimization
  <2>. QED BY <2>1 DEF OptimizationHolds
<1>. QED BY <1>5, <1>6, <1>7, <1>8

WinnerInv ==
    /\ PhaseInv /\ RepairInv /\ SummariesAreFounded
    /\ PlanKept /\ BenchDates /\ SamplesKept /\ OptimizationHolds

\* The samples are what the report was built from.
LEMMA WinnerFollows == ASSUME WinnerInv PROVE WinnerIsNotBeaten
<1>. USE DEF WinnerInv, PhaseInv
<1>1. CASE optimization.objective = "cost"
  <2>1. CostWins(optimization)
    BY <1>1, Zenon DEF OptimizationHolds
  <2>. QED BY <1>1, <2>1, Zenon DEF WinnerIsNotBeaten, CostWins
<1>2. CASE optimization.objective = "latency" /\ run.status # "none"
  <2>1. bench.phase = "optimized" /\ LatencyWins(optimization)
    BY <1>2, Zenon DEF OptimizationHolds
  <2>2. ASSUME NEW t \in DOMAIN bench.plan PROVE samples[t] = tasks[t].sample
    <3>1. t \in Tasks /\ tasks[t].step # "unplanned"
      BY Zenon DEF Typed, BenchTyped, PlanKept
    <3>2. tasks[t].step \in {"unplanned", "sampled"}
      BY <2>1, <3>1, Zenon DEF RunFollowsPhase
    <3>3. tasks[t].step = "sampled"
      BY <3>1, <3>2
    <3>. QED BY <1>2, <3>1, <3>3, Zenon DEF SamplesKept
  <2>3. \A r : \A t \in Measured(r) : samples[t] = tasks[t].sample
    BY <2>2, Zenon DEF Measured
  <2>4. optimization.objective # "cost"
    BY <1>2
  <2>5. /\ \E t \in Measured(optimization.winner) : Answered(samples[t])
        /\ \A r \in optimization.basis \ {optimization.winner} :
             ~ \A t \in Measured(r), u \in Measured(optimization.winner) :
                 /\ Answered(samples[t])
                 /\ Answered(samples[u]) => samples[t].latency < samples[u].latency
    <3>. HIDE DEF WinnerInv, PhaseInv
    <3>. QED BY <2>1, <2>3, Zenon DEF LatencyWins
  <2>. QED BY <1>2, <2>4, <2>5, Zenon DEF WinnerIsNotBeaten, Measured
<1>3. CASE optimization.objective # "cost" /\ ~(optimization.objective = "latency" /\ run.status # "none")
  BY <1>3, Zenon DEF WinnerIsNotBeaten
<1>. QED BY <1>1, <1>2, <1>3

\* The winner of a stored optimization is not beaten by the data behind it, for any number of
\* routes, tasks and requests, whatever is pruned, repaired or deleted meanwhile
\* (optimize-report-builder.ts: buildCostOptimizeReport, buildLatencyOptimizeReport;
\* bench-runner.ts: executeBenchmarkTask, insertSample).
THEOREM WinnerUnbeaten == Spec => []WinnerIsNotBeaten
<1>1. ControlInit => WinnerInv
  <2>1. ASSUME ControlInit PROVE SummariesAreFounded
    BY <2>1, Zenon DEF ControlInit, Init, SummariesAreFounded
  <2>. QED BY <2>1, PhaseInit, RepairInit, OptimizationInit DEF WinnerInv
<1>2. WinnerInv /\ [Next]_vars => WinnerInv'
  <2>1. SUFFICES ASSUME WinnerInv, [Next]_vars PROVE WinnerInv'
    OBVIOUS
  <2>2. PhaseInv'
    BY <2>1, PhaseInductive, Zenon DEF WinnerInv
  <2>3. Quiet \/ StoreActs \/ ScanActs \/ BenchActs
    BY <2>1, EveryStep, Zenon
  <2>4. RepairInv' /\ SummariesAreFounded'
    BY <2>1, <2>3, RepairStep, FoundedStep, Zenon DEF WinnerInv, PhaseInv
  <2>5. PlanKept'
    BY <2>1, <2>3, BenchFrame, PlanKeptStep, Zenon DEF WinnerInv, PhaseInv
  <2>6. BenchDates' /\ SamplesKept' /\ OptimizationHolds'
    BY <2>1, <2>3, BenchDatesStep, SamplesKeptStep, OptimizationStep, Zenon DEF WinnerInv, PhaseInv
  <2>. QED BY <2>2, <2>4, <2>5, <2>6, Zenon DEF WinnerInv
<1>3. WinnerInv => WinnerIsNotBeaten
  BY WinnerFollows
<1>. QED BY <1>1, <1>2, <1>3, PTL DEF Spec

=============================================================================
