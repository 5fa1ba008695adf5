--------------------------- MODULE TraceMaintenance ---------------------------
(***************************************************************************)
(* trace verify and trace repair (service.ts, request-executions.ts,       *)
(* request-execution-verification.ts): a scan over the known requests in   *)
(* batches.  A repair handles each batch in a deferred transaction: it     *)
(* reads a snapshot, and its first write fails when another connection     *)
(* has committed since (SQLITE_BUSY_SNAPSHOT).  A verification pages by    *)
(* offset and holds no transaction.                                        *)
(***************************************************************************)
EXTENDS TraceStore

CONSTANT BatchSize

ASSUME BatchAssumption == BatchSize \in Nat \ {0}

VARIABLE scan   \* the scan at work: who asked for it, where it is, what it is about to write

Scan(kind, by, step) ==
    [kind |-> kind, by |-> by, step |-> step, after |-> 0, offset |-> 0, batch |-> {}, plan |-> <<>>]

NoScan == Scan("none", "none", "idle")
InitScan == scan = NoScan

-----------------------------------------------------------------------------
FirstOf(ids) == {r \in ids : Cardinality({q \in ids : q < r}) < BatchSize}

\* WHERE request_id > after ORDER BY request_id LIMIT BatchSize
listKnownRequestIdsAfter(after) == FirstOf({r \in Requests : known(r) /\ r > after})

\* ORDER BY request_id LIMIT BatchSize OFFSET offset
listKnownRequestIds(offset) ==
    LET ids == {r \in Requests : known(r)}
    IN  FirstOf({r \in ids : Cardinality({q \in ids : q < r}) >= offset})

\* Mutant: the repair pages as the verification does.
NextBatchByOffset(s) == listKnownRequestIds(s.offset)

NextBatch(s) ==
    IF s.kind = "repair_all" THEN listKnownRequestIdsAfter(s.after) ELSE listKnownRequestIds(s.offset)

verify(r) ==
    LET expected == buildFromObservations(observations[r])
    IN  CASE expected = NoExecution /\ executions[r] # NoExecution -> "orphan_summary"
          [] executions[r] = NoExecution -> "missing_summary"
          [] OTHER -> IF expected = executions[r] THEN "ok" ELSE "drift"

-----------------------------------------------------------------------------
Begins(first) ==
    /\ scan.step = "idle" /\ scan' = first
    /\ untouched' = {r \in Requests : known(r)}
    /\ UNCHANGED <<now, emitted, observations, executions, run, samples, deletions, cast, changed>>

\* A scan of everything first lists its ids; a repair of one trace is given one
\* (an unknown one is left as it is).
verifyAll(by) == Begins(Scan("verify_all", by, "list"))
repairAll(by) == Begins(Scan("repair_all", by, "list"))
repairOne(by) == \E r \in Requests : known(r) /\ Begins([Scan("repair_one", by, "open") EXCEPT !.batch = {r}])

\* The ids are listed before the transaction of their batch begins.
ListBatch ==
    /\ scan.step = "list"
    /\ LET ids == NextBatch(scan)
       IN  scan' = [scan EXCEPT !.batch = ids,
                                !.after = IF ids = {} THEN @ ELSE Max(ids),
                                !.offset = @ + BatchSize,
                                !.step = IF ids = {} THEN "done" ELSE "open"]
    /\ UNCHANGED storeVars

AfterBatch == IF scan.kind = "repair_one" \/ Cardinality(scan.batch) < BatchSize THEN "done" ELSE "list"

verifyBatch ==
    /\ scan.step = "open" /\ scan.kind = "verify_all"
    /\ scan' = [scan EXCEPT !.step = AfterBatch]
    /\ UNCHANGED storeVars

\* BEGIN and the reads: what repair will write of the snapshot it sees now.
BeginRepair ==
    /\ scan.step = "open" /\ scan.kind # "verify_all"
    /\ LET broken == {r \in scan.batch : known(r) /\ verify(r) # "ok"}
       IN  scan' = [scan EXCEPT !.step = "write",
                                !.plan = [r \in broken |-> buildFromObservations(observations[r])]]
    /\ changed' = FALSE
    /\ UNCHANGED <<now, emitted, observations, executions, run, samples, deletions, cast, untouched>>

\* An orphan is deleted, and its samples with it; every other summary is upserted.
Repaired == [r \in Requests |-> IF r \in DOMAIN scan.plan THEN scan.plan[r] ELSE executions[r]]

CommitsBatch ==
    /\ executions' = Repaired
    /\ samples' = SamplesOf(Repaired, TRUE)
    /\ scan' = [scan EXCEPT !.step = AfterBatch, !.plan = <<>>]
    /\ UNCHANGED <<now, emitted, observations, run, deletions, cast, untouched, changed>>

\* A batch with nothing to write ends on its snapshot, whatever was committed meanwhile.
Conflicts == changed /\ scan.plan # <<>>

\* Mutant: each statement is a transaction of its own.
CommitRepairAlways == scan.step = "write" /\ CommitsBatch

CommitRepair == scan.step = "write" /\ ~Conflicts /\ CommitsBatch

\* ROLLBACK, and the error reaches the caller; earlier batches stay repaired.
RepairThrows ==
    /\ scan.step = "write" /\ Conflicts
    /\ scan' = [scan EXCEPT !.step = "failed", !.plan = <<>>]
    /\ UNCHANGED storeVars

ScanStep == ListBatch \/ verifyBatch \/ BeginRepair \/ CommitRepair \/ RepairThrows

EndScan ==
    /\ scan.step \in {"done", "failed"}
    /\ scan' = NoScan
    /\ UNCHANGED storeVars

-----------------------------------------------------------------------------
(***************************************************************************)
(* A repair of everything that ends without an error has missed nothing:   *)
(* each request that was known when it began, and that no other process    *)
(* wrote to since, has the summary its observations give.  Deletions while *)
(* it runs shift every later position of the list; the scan must not skip  *)
(* a request for that.                                                     *)
(***************************************************************************)
RepairAllIsComplete ==
    scan.kind = "repair_all" /\ scan.step = "done" =>
        \A r \in untouched : executions[r] = buildFromObservations(observations[r])

=============================================================================
