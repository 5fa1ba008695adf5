------------------------ MODULE OptimizeMutationProofs ------------------------
(***************************************************************************)
(* A command of OptimizeMutation is executed at most once, its outcome is  *)
(* final and backed by what it did, and a restore undoes an apply, for any *)
(* number of processes, crashes and failures.                              *)
(***************************************************************************)
EXTENDS OptimizeMutation, SequenceTheorems, TLAPS

RowSteps  == {"check", "snapshot", "write", "reread", "event", "complete", "record", "fail"}
OpenSteps == RowSteps \ {"record"}

\* A restore keeps the restore point it has found.
PointIsEvent ==
    \A p \in Proc : proc[p].pc \in {"snapshot", "write", "reread", "event"} /\ KeyOf(p).op = "restore" =>
        proc[p].point \in 1 .. Len(events)

\* While a process executes a command, its record says "accepted".
RecordIsOpen == \A p \in Proc : Executing(p) => records[KeyOf(p)].status = "accepted"

\* No attempt without a record.
RowsHaveRecords == \A i \in 1 .. Len(ledger) : records[ledger[i].key].status # "none"

\* A process that is about to open its row finds none for its command.
StartHasNoRow ==
    \A p \in Proc : At(p, "start") => \A i \in 1 .. Len(ledger) : ledger[i].key # KeyOf(p)

\* A process knows its own row, which stays open until it finishes it.
OwnRow ==
    \A p \in Proc : proc[p].pc \in RowSteps =>
        proc[p].row \in 1 .. Len(ledger) /\ ledger[proc[p].row].key = KeyOf(p)

RowIsOpen == \A p \in Proc : proc[p].pc \in OpenSteps => ledger[proc[p].row].status = "started"

Inv ==
    /\ TypeOK /\ PointIsEvent
    /\ ExecutedAtMostOnce /\ RecordIsOpen /\ RowsHaveRecords
    /\ StartHasNoRow /\ OwnRow /\ RowIsOpen

-----------------------------------------------------------------------------
\* The provider a command would write is a provider.
LEMMA TargetType ==
    ASSUME TypeOK, NEW k \in Key, NEW e \in Nat,
           k.op = "restore" => e \in 1 .. Len(events)
    PROVE  Target(k, e) \in Provider
<1>1. k.op \in {"apply", "restore"} /\ k.run \in Run
  BY DEF Key
<1>2. CASE k.op = "apply"
  BY <1>1, <1>2, OptimizeAssumption DEF Target
<1>3. CASE k.op = "restore"
  <2>1. events[e] \in Event
    BY <1>3 DEF TypeOK
  <2>2. QED
    BY <1>3, <2>1 DEF Target, Event
<1>4. QED
  BY <1>1, <1>2, <1>3

-----------------------------------------------------------------------------
(***************************************************************************)
(* How the entry of one process changes                                    *)
(***************************************************************************)
ProcTyped ==
    /\ proc \in [Proc -> Process]
    /\ \A p \in Proc : ~At(p, "idle") => KeyOf(p) \in Key /\ proc[p].seen \in Provider
    /\ \A p \in Proc : At(p, "event") => proc[p].after \in Provider

OthersStay(p) == \A q \in Proc : q # p => proc'[q] = proc[q]

\* Writing a well-typed entry for one process: what every action does.
LEMMA ProcStep ==
    ASSUME TypeOK, NEW p \in Proc, NEW r \in Process,
           proc' = [proc EXCEPT ![p] = r],
           r.pc # "idle" => r.key \in Key /\ r.seen \in Provider,
           r.pc = "event" => r.after \in Provider
    PROVE  ProcTyped' /\ OthersStay(p) /\ proc'[p] = r
BY DEF TypeOK, ProcTyped, OthersStay, At, KeyOf

\* A process that only moves on to its next statement.
LEMMA GotoStep ==
    ASSUME TypeOK, NEW p \in Proc, ~At(p, "idle"), NEW pc \in Step \ {"event"}, Goto(p, pc)
    PROVE  /\ ProcTyped' /\ OthersStay(p)
           /\ proc'[p].pc = pc /\ proc'[p].key = proc[p].key
           /\ proc'[p].row = proc[p].row /\ proc'[p].point = proc[p].point
           /\ proc'[p].event = proc[p].event /\ proc'[p].result = proc[p].result
           /\ proc'[p].seen = proc[p].seen
<1> DEFINE r == [proc[p] EXCEPT !.pc = pc]
<1>1. proc[p] \in Process
  BY DEF TypeOK
<1>2. /\ r \in Process /\ r.pc = pc /\ r.key = KeyOf(p) /\ r.seen = proc[p].seen
      /\ r.row = proc[p].row /\ r.point = proc[p].point
      /\ r.event = proc[p].event /\ r.result = proc[p].result
  BY <1>1 DEF Process, KeyOf
<1>3. proc' = [proc EXCEPT ![p] = r]
  BY DEF Goto
<1>4. r.key \in Key /\ r.seen \in Provider
  BY <1>2 DEF TypeOK
<1> HIDE DEF r
<1>5. ProcTyped' /\ OthersStay(p) /\ proc'[p] = r
  BY <1>2, <1>3, <1>4, ProcStep
<1>6. QED
  BY <1>2, <1>5, Zenon DEF KeyOf

\* An error the caller catches leaves the process where it is.
LEMMA CatchStep ==
    ASSUME TypeOK, NEW p \in Proc, ~At(p, "idle"), CatchError(p)
    PROVE  /\ ProcTyped' /\ OthersStay(p)
           /\ proc'[p].pc = proc[p].pc /\ proc'[p].key = proc[p].key
           /\ proc'[p].row = proc[p].row /\ proc'[p].point = proc[p].point
           /\ proc'[p].event = proc[p].event /\ proc'[p].result = proc[p].result
           /\ proc'[p].seen = proc[p].seen
<1> DEFINE r == [proc[p] EXCEPT !.threw = TRUE]
<1>1. proc[p] \in Process
  BY DEF TypeOK
<1>2. /\ r \in Process /\ r.pc = proc[p].pc /\ r.key = proc[p].key /\ r.seen = proc[p].seen
      /\ r.row = proc[p].row /\ r.point = proc[p].point
      /\ r.event = proc[p].event /\ r.result = proc[p].result /\ r.after = proc[p].after
  BY <1>1 DEF Process
<1>3. proc' = [proc EXCEPT ![p] = r]
  BY DEF CatchError
<1> HIDE DEF r
<1>4. proc[p].key \in Key /\ proc[p].seen \in Provider /\ (proc[p].pc = "event" => proc[p].after \in Provider)
  BY DEF TypeOK, At, KeyOf
<1>5. QED
  BY <1>2, <1>3, <1>4, ProcStep

\* A process that answers its caller is idle.
LEMMA AnswerStep ==
    ASSUME TypeOK, NEW p \in Proc, NEW a, Answer(p, a)
    PROVE  ProcTyped' /\ OthersStay(p) /\ proc'[p].pc = "idle"
<1> DEFINE r == IF a = "changed" THEN [Idle EXCEPT !.answer = a] ELSE Idle
<1>2. r \in Process /\ r.pc = "idle"
  BY DEF Process, Idle, Step, Result
<1>3. proc' = [proc EXCEPT ![p] = r]
  BY DEF Answer
<1>4. QED
  BY <1>2, <1>3, ProcStep

-----------------------------------------------------------------------------
(***************************************************************************)
(* Type correctness                                                        *)
(***************************************************************************)
StoreTyped ==
    /\ catalog \in Provider
    /\ records \in [Key -> Record \cup {NoRecord}]
    /\ ledger \in Seq(LedgerRow)
    /\ snapshots \subseteq Nat
    /\ events \in Seq(Event)
    /\ issued \in 0 .. MaxAttempts

\* The types of the store and those of the processes are all types.
LEMMA TypeParts == (TypeOK <=> StoreTyped /\ ProcTyped) /\ (TypeOK' <=> StoreTyped' /\ ProcTyped')
BY DEF TypeOK, StoreTyped, ProcTyped

\* Storing the status of a record keeps it a record.
LEMMA RecordFailed ==
    \A rec \in Record \cup {NoRecord} : [rec EXCEPT !.status = "failed"] \in Record
BY DEF Record, NoRecord

\* Finishing a row of the ledger changes that row only, and not its command.
LEMMA RowFinished ==
    ASSUME ledger \in Seq(LedgerRow), NEW i \in 1 .. Len(ledger), NEW row \in LedgerRow,
           row.key = ledger[i].key, ledger' = [ledger EXCEPT ![i] = row]
    PROVE  /\ ledger' \in Seq(LedgerRow) /\ Len(ledger') = Len(ledger)
           /\ \A j \in 1 .. Len(ledger) : /\ ledger'[j].key = ledger[j].key
                                          /\ j # i => ledger'[j] = ledger[j]
BY ExceptSeq

\* The three ways an attempt finishes its row.
LEMMA StatusFinished ==
    ASSUME ledger \in Seq(LedgerRow), NEW i \in 1 .. Len(ledger),
           NEW st \in {"succeeded", "noop", "dry_run_succeeded", "failed"}, NEW ev \in Nat,
           \/ ledger' = [ledger EXCEPT ![i].status = st]
           \/ ledger' = [ledger EXCEPT ![i].status = st, ![i].event = ev]
    PROVE  /\ ledger' \in Seq(LedgerRow) /\ Len(ledger') = Len(ledger)
           /\ \A j \in 1 .. Len(ledger) : /\ ledger'[j].key = ledger[j].key
                                          /\ j # i => ledger'[j] = ledger[j]
<1>1. ledger[i] \in LedgerRow
  OBVIOUS
<1>2. CASE ledger' = [ledger EXCEPT ![i].status = st]
  <2> DEFINE row == [ledger[i] EXCEPT !.status = st]
  <2>1. row \in LedgerRow /\ row.key = ledger[i].key
    BY <1>1 DEF LedgerRow
  <2>2. ledger' = [ledger EXCEPT ![i] = row]
    BY <1>2
  <2> HIDE DEF row
  <2>3. QED
    BY <2>1, <2>2, RowFinished
<1>3. CASE ledger' = [ledger EXCEPT ![i].status = st, ![i].event = ev]
  <2> DEFINE row == [ledger[i] EXCEPT !.status = st, !.event = ev]
  <2>1. row \in LedgerRow /\ row.key = ledger[i].key
    BY <1>1 DEF LedgerRow
  <2>2. ledger' = [ledger EXCEPT ![i] = row]
    BY <1>3
  <2> HIDE DEF row
  <2>3. QED
    BY <2>1, <2>2, RowFinished
<1>4. QED
  BY <1>2, <1>3

PointSteps == {"snapshot", "write", "reread", "event"}

\* Restore points stay events when a process moves on and keeps its own.
LEMMA PointStays ==
    ASSUME PointIsEvent, NEW p \in Proc, OthersStay(p), UNCHANGED events,
           proc'[p].pc \in PointSteps =>
               /\ proc[p].pc \in PointSteps
               /\ proc'[p].key = proc[p].key /\ proc'[p].point = proc[p].point
    PROVE  PointIsEvent'
<1>1. ASSUME NEW q \in Proc PROVE
         (proc'[q].pc \in PointSteps /\ proc'[q].key.op = "restore" => proc'[q].point \in 1 .. Len(events))
  BY DEF PointIsEvent, OthersStay, PointSteps, KeyOf
<1>2. QED
  BY <1>1 DEF PointIsEvent, PointSteps, KeyOf

\* Steps that neither write the store nor need a restore point afterwards keep
\* the types: a process that goes on, or one that answers.
LEMMA GotoType ==
    ASSUME TypeOK, PointIsEvent, NEW p \in Proc, ~At(p, "idle"),
           NEW pc \in {"fail", "failRecord", "record", "start"},
           Goto(p, pc), StoreTyped', UNCHANGED events
    PROVE  TypeOK' /\ PointIsEvent'
<1>1. pc \in Step /\ pc \notin PointSteps
  BY DEF Step, PointSteps
<1>2. ProcTyped' /\ OthersStay(p) /\ proc'[p].pc = pc
  BY <1>1, GotoStep
<1>3. QED
  BY <1>1, <1>2, PointStays, TypeParts

\* Answering the caller keeps the types.
LEMMA AnswerType ==
    ASSUME TypeOK, PointIsEvent, NEW p \in Proc, NEW a, Answer(p, a), StoreTyped', UNCHANGED events
    PROVE  TypeOK' /\ PointIsEvent'
<1>1. ProcTyped' /\ OthersStay(p) /\ proc'[p].pc = "idle"
  BY AnswerStep
<1>2. proc'[p].pc \notin PointSteps
  BY <1>1 DEF PointSteps
<1>3. QED
  BY <1>1, <1>2, PointStays, TypeParts

\* An error the caller catches keeps the types.
LEMMA CatchType ==
    ASSUME TypeOK, PointIsEvent, NEW p \in Proc, ~At(p, "idle"), CatchError(p),
           StoreTyped', UNCHANGED events
    PROVE  TypeOK' /\ PointIsEvent'
BY CatchStep, PointStays, TypeParts

\* Every step keeps the types, and restore points stay events.
LEMMA StepType == TypeOK /\ PointIsEvent /\ OwnRow /\ [Next]_vars => TypeOK' /\ PointIsEvent'
<1> SUFFICES ASSUME TypeOK, PointIsEvent, OwnRow, [Next]_vars PROVE TypeOK' /\ PointIsEvent'
  OBVIOUS
<1>0. StoreTyped /\ ProcTyped
  BY TypeParts
<1>a. ASSUME UNCHANGED <<catalog, store, issued>> PROVE StoreTyped' /\ UNCHANGED events
  BY <1>a, <1>0 DEF StoreTyped, store
<1>b. ASSUME NEW q \in Proc, ~At(q, "idle")
      PROVE  proc[q] \in Process /\ KeyOf(q) \in Key /\ proc[q].seen \in Provider /\ proc[q].key = KeyOf(q)
             /\ KeyOf(q).op \in {"apply", "restore"}
             /\ proc[q].row \in Nat /\ proc[q].event \in Nat /\ proc[q].point \in Nat
             /\ proc[q].result \in Result \cup {None}
  <2>1. proc[q] \in Process /\ KeyOf(q) \in Key /\ proc[q].seen \in Provider
    BY <1>0, <1>b DEF ProcTyped
  <2>2. QED
    BY <2>1 DEF KeyOf, Key, Process
<1>1. ASSUME NEW p \in Proc, NEW k \in Key, IssueCommand(p, k) PROVE TypeOK' /\ PointIsEvent'
  <2> DEFINE r == [Idle EXCEPT !.pc = "accept", !.key = k, !.seen = catalog]
  <2>1. catalog \in Provider
    BY <1>0 DEF StoreTyped
  <2>2. r \in Process /\ r.pc = "accept" /\ r.key = k /\ r.seen = catalog
    BY <2>1 DEF Idle, Process, Step
  <2>3. proc' = [proc EXCEPT ![p] = r]
    BY <1>1 DEF IssueCommand
  <2> HIDE DEF r
  <2>4. ProcTyped' /\ OthersStay(p) /\ proc'[p].pc = "accept"
    BY <2>1, <2>2, <2>3, ProcStep
  <2>5. StoreTyped' /\ UNCHANGED events
    BY <1>1, <1>0, OptimizeAssumption DEF IssueCommand, store, StoreTyped
  <2>6. QED
    BY <2>4, <2>5, PointStays, TypeParts DEF PointSteps
<1>2. ASSUME NEW p \in Proc, accept(p) PROVE TypeOK' /\ PointIsEvent'
  <2>1. StoreTyped' /\ UNCHANGED events
    BY <1>2, <1>0 DEF accept, StoreTyped, Record
  <2>2. ~At(p, "idle")
    BY <1>2 DEF accept, At
  <2>3. QED
    BY <1>2, <2>1, <2>2, GotoType, AnswerType DEF accept
<1>3. ASSUME NEW p \in Proc, complete(p) PROVE TypeOK' /\ PointIsEvent'
  <2>1. ~At(p, "idle")
    BY <1>3 DEF complete, At
  <2>2. StoreTyped' /\ UNCHANGED events
    BY <1>3, <1>0, <1>b, <2>1 DEF complete, StoreTyped, Record, NoRecord
  <2>3. QED
    BY <1>3, <2>2, AnswerType DEF complete
<1>4. ASSUME NEW p \in Proc, CompleteThrows(p) PROVE TypeOK' /\ PointIsEvent'
  <2>1. ~At(p, "idle")
    BY <1>4 DEF CompleteThrows, At
  <2>2. QED
    BY <1>4, <1>a, <2>1, GotoType, AnswerType, CatchType DEF CompleteThrows, CompletionThrows
<1>5. ASSUME NEW p \in Proc, fail(p) PROVE TypeOK' /\ PointIsEvent'
  <2>1. ~At(p, "idle")
    BY <1>5 DEF fail, At
  <2>2. StoreTyped' /\ UNCHANGED events
    BY <1>5, <1>0, <1>b, <2>1, RecordFailed DEF fail, StoreTyped
  <2>3. QED
    BY <1>5, <2>2, AnswerType DEF fail
<1>6. ASSUME NEW p \in Proc, recordOptimizeControlPlaneActionStarted(p) PROVE TypeOK' /\ PointIsEvent'
  <2> DEFINE r == [proc[p] EXCEPT !.pc = "check", !.row = Len(ledger')]
  <2>1. ~At(p, "idle")
    BY <1>6 DEF recordOptimizeControlPlaneActionStarted, At
  <2>2. StoreTyped' /\ UNCHANGED events
    BY <1>6, <1>0, <1>b, <2>1 DEF recordOptimizeControlPlaneActionStarted, StoreTyped, LedgerRow
  <2>3. Len(ledger') \in Nat
    BY <2>2 DEF StoreTyped
  <2>4. r \in Process /\ r.pc = "check" /\ r.key = KeyOf(p) /\ r.seen = proc[p].seen
    BY <1>b, <2>1, <2>3 DEF Process, Step
  <2>5. proc' = [proc EXCEPT ![p] = r]
    BY <1>6 DEF recordOptimizeControlPlaneActionStarted
  <2> HIDE DEF r
  <2>6. ProcTyped' /\ OthersStay(p) /\ proc'[p].pc = "check"
    BY <1>b, <2>1, <2>4, <2>5, ProcStep
  <2>7. QED
    BY <2>2, <2>6, PointStays, TypeParts DEF PointSteps
<1>7. ASSUME NEW p \in Proc, StartThrows(p) PROVE TypeOK' /\ PointIsEvent'
  BY <1>7, <1>a, GotoType DEF StartThrows, At
<1>8. ASSUME NEW p \in Proc, ChecksPass(p) PROVE TypeOK' /\ PointIsEvent'
  <2>1. ~At(p, "idle")
    BY <1>8 DEF ChecksPass, At
  <2>2. PICK e \in 0 .. Len(events) :
          /\ RestorePoint(p, e)
          /\ \/ /\ ledger' = [ledger EXCEPT ![proc[p].row].status = "dry_run_succeeded"]
                /\ proc' = [proc EXCEPT ![p].pc = "record", ![p].point = e, ![p].result = "unchanged"]
             \/ /\ proc' = [proc EXCEPT ![p].pc = "snapshot", ![p].point = e, ![p].result = "changed"]
                /\ UNCHANGED ledger
             \/ /\ proc' = [proc EXCEPT ![p].pc = "complete", ![p].point = e, ![p].result = "unchanged"]
                /\ UNCHANGED ledger
    BY <1>8 DEF ChecksPass
  <2>3. e \in Nat /\ (KeyOf(p).op = "restore" => e \in 1 .. Len(events))
    BY <1>0, <2>2 DEF RestorePoint, findOptimizeApplyRestorePoints, StoreTyped
  <2>4. StoreTyped' /\ UNCHANGED events
    <3>1. proc[p].row \in 1 .. Len(ledger)
      BY <1>8 DEF ChecksPass, At, OwnRow, RowSteps
    <3>2. ledger' \in Seq(LedgerRow)
      BY <1>0, <2>2, <3>1, StatusFinished DEF StoreTyped
    <3>3. QED
      BY <1>8, <1>0, <3>2 DEF ChecksPass, StoreTyped
  <2>5. PICK pc \in {"record", "snapshot", "complete"}, res \in {"changed", "unchanged"} :
          proc' = [proc EXCEPT ![p].pc = pc, ![p].point = e, ![p].result = res]
    BY <2>2
  <2> DEFINE r == [proc[p] EXCEPT !.pc = pc, !.point = e, !.result = res]
  <2>6. r \in Process /\ r.pc = pc /\ r.key = KeyOf(p) /\ r.seen = proc[p].seen /\ r.point = e
    BY <1>b, <2>1, <2>3, ZenonT(60) DEF Process, Step, Result
  <2>7. proc' = [proc EXCEPT ![p] = r]
    BY <2>5
  <2> HIDE DEF r
  <2>8. ProcTyped' /\ OthersStay(p) /\ proc'[p].key = KeyOf(p) /\ proc'[p].point = e
    BY <1>b, <2>1, <2>6, <2>7, ProcStep, ZenonT(60)
  <2>9. ASSUME NEW q \in Proc PROVE
          (proc'[q].pc \in PointSteps /\ proc'[q].key.op = "restore" => proc'[q].point \in 1 .. Len(events))
    BY <2>3, <2>8 DEF PointIsEvent, OthersStay, PointSteps, KeyOf
  <2>10. PointIsEvent'
    BY <2>4, <2>9 DEF PointIsEvent, PointSteps, KeyOf
  <2>11. QED
    BY <2>4, <2>8, <2>10, TypeParts
<1>9. ASSUME NEW p \in Proc, ChecksRefuse(p) PROVE TypeOK' /\ PointIsEvent'
  BY <1>9, <1>a, GotoType DEF ChecksRefuse, At
<1>10. ASSUME NEW p \in Proc, createOptimizeConfigSnapshot(p) PROVE TypeOK' /\ PointIsEvent'
  <2>1. At(p, "snapshot") /\ ~At(p, "idle") /\ "write" \in Step
    BY <1>10 DEF createOptimizeConfigSnapshot, At, Step
  <2>2. StoreTyped' /\ UNCHANGED events
    BY <1>10, <1>0, <1>b, <2>1 DEF createOptimizeConfigSnapshot, StoreTyped
  <2>3. ProcTyped' /\ OthersStay(p) /\ proc'[p].key = proc[p].key /\ proc'[p].point = proc[p].point
    BY <1>10, <2>1, GotoStep DEF createOptimizeConfigSnapshot
  <2>4. QED
    BY <2>1, <2>2, <2>3, PointStays, TypeParts DEF PointSteps, At
<1>11. ASSUME NEW p \in Proc, SnapshotThrows(p) PROVE TypeOK' /\ PointIsEvent'
  BY <1>11, <1>a, GotoType DEF SnapshotThrows, At
<1>12. ASSUME NEW p \in Proc, updateRouteProviderTarget(p) PROVE TypeOK' /\ PointIsEvent'
  <2>1. At(p, "write") /\ ~At(p, "idle") /\ "reread" \in Step \ {"event"}
    BY <1>12 DEF updateRouteProviderTarget, At, Step
  <2>2. Target(KeyOf(p), proc[p].point) \in Provider
    BY <1>b, <2>1, TargetType DEF PointIsEvent, At
  <2>3. StoreTyped' /\ UNCHANGED events
    BY <1>12, <1>0, <2>2 DEF updateRouteProviderTarget, store, StoreTyped
  <2>4. ProcTyped' /\ OthersStay(p) /\ proc'[p].key = proc[p].key /\ proc'[p].point = proc[p].point
    BY <1>12, <2>1, GotoStep DEF updateRouteProviderTarget
  <2>5. QED
    BY <2>1, <2>3, <2>4, PointStays, TypeParts DEF PointSteps, At
<1>13. ASSUME NEW p \in Proc, UpdateThrows(p) PROVE TypeOK' /\ PointIsEvent'
  <2>1. At(p, "write") /\ ~At(p, "idle")
    BY <1>13 DEF UpdateThrows, At
  <2>2. Target(KeyOf(p), proc[p].point) \in Provider
    BY <1>b, <2>1, TargetType DEF PointIsEvent, At
  <2>3. StoreTyped' /\ UNCHANGED events
    BY <1>13, <1>0, <2>2 DEF UpdateThrows, StoreTyped
  <2>4. QED
    BY <1>13, <2>1, <2>3, GotoType DEF UpdateThrows, At
<1>14. ASSUME NEW p \in Proc, recordOptimizeMutationEvent(p) PROVE TypeOK' /\ PointIsEvent'
  <2> DEFINE r == [proc[p] EXCEPT !.pc = "complete", !.event = Len(events')]
             ev == [key |-> KeyOf(p), before |-> proc[p].seen, after |-> proc[p].after,
                    snapshot |-> proc[p].row, parent |-> proc[p].point]
  <2>1. At(p, "event") /\ ~At(p, "idle")
    BY <1>14 DEF recordOptimizeMutationEvent, At
  <2>2. proc[p].after \in Provider
    BY <1>0, <2>1 DEF ProcTyped
  <2>3. ev \in Event
    BY <1>b, <2>1, <2>2 DEF Event
  <2>4. events' = Append(events, ev)
    BY <1>14 DEF recordOptimizeMutationEvent
  <2> HIDE DEF ev
  <2>5. StoreTyped' /\ Len(events') = Len(events) + 1 /\ Len(events) \in Nat
    BY <1>14, <1>0, <2>3, <2>4 DEF recordOptimizeMutationEvent, StoreTyped
  <2>6. r \in Process /\ r.pc = "complete" /\ r.key = KeyOf(p) /\ r.seen = proc[p].seen
    <3>1. Len(events') \in Nat
      BY <2>5
    <3>2. QED
      BY <1>b, <2>1, <3>1 DEF Process, Step
  <2>7. proc' = [proc EXCEPT ![p] = r]
    BY <1>14 DEF recordOptimizeMutationEvent
  <2> HIDE DEF r
  <2>8. ProcTyped' /\ OthersStay(p) /\ proc'[p].pc = "complete"
    BY <1>b, <2>1, <2>6, <2>7, ProcStep
  <2>9. ASSUME NEW q \in Proc PROVE
          (proc'[q].pc \in PointSteps /\ proc'[q].key.op = "restore" => proc'[q].point \in 1 .. Len(events'))
    BY <2>5, <2>8 DEF PointIsEvent, OthersStay, PointSteps, KeyOf
  <2>10. PointIsEvent'
    BY <2>9 DEF PointIsEvent, PointSteps, KeyOf
  <2>11. QED
    BY <2>5, <2>8, <2>10, TypeParts
<1>15. ASSUME NEW p \in Proc, EventThrows(p) PROVE TypeOK' /\ PointIsEvent'
  BY <1>15, <1>a, GotoType DEF EventThrows, At
<1>16. ASSUME NEW p \in Proc, completeLedger(p) PROVE TypeOK' /\ PointIsEvent'
  <2>1. ~At(p, "idle")
    BY <1>16 DEF completeLedger, At
  <2>2. StoreTyped' /\ UNCHANGED events
    <3>1. proc[p].row \in 1 .. Len(ledger) /\ proc[p].event \in Nat
      BY <1>16, <1>b, <2>1 DEF completeLedger, At, OwnRow, RowSteps
    <3>2. ledger' \in Seq(LedgerRow)
      BY <1>16, <1>0, <3>1, StatusFinished DEF StoreTyped, completeLedger
    <3>3. QED
      BY <1>16, <1>0, <3>2 DEF completeLedger, StoreTyped
  <2>3. QED
    BY <1>16, <2>1, <2>2, GotoType DEF completeLedger
<1>17. ASSUME NEW p \in Proc, CompleteLedgerThrows(p) PROVE TypeOK' /\ PointIsEvent'
  <2>1. ~At(p, "idle")
    BY <1>17 DEF CompleteLedgerThrows, At
  <2>2. QED
    BY <1>17, <1>a, <2>1, AnswerType, CatchType DEF CompleteLedgerThrows, CompletionThrows
<1>18. ASSUME NEW p \in Proc, failMutation(p) PROVE TypeOK' /\ PointIsEvent'
  <2> DEFINE r == [proc[p] EXCEPT !.pc = "record", !.result = "refused"]
  <2>1. ~At(p, "idle")
    BY <1>18 DEF failMutation, At
  <2>2. StoreTyped' /\ UNCHANGED events
    <3>1. proc[p].row \in 1 .. Len(ledger)
      BY <1>18 DEF failMutation, At, OwnRow, RowSteps
    <3>2. ledger' \in Seq(LedgerRow)
      BY <1>18, <1>0, <3>1, StatusFinished DEF StoreTyped, failMutation
    <3>3. QED
      BY <1>18, <1>0, <3>2 DEF failMutation, StoreTyped
  <2>3. r \in Process /\ r.pc = "record" /\ r.key = KeyOf(p) /\ r.seen = proc[p].seen
    BY <1>b, <2>1 DEF Process, Step, Result
  <2>4. proc' = [proc EXCEPT ![p] = r]
    BY <1>18 DEF failMutation
  <2> HIDE DEF r
  <2>5. ProcTyped' /\ OthersStay(p) /\ proc'[p].pc = "record"
    BY <1>b, <2>1, <2>3, <2>4, ProcStep
  <2>6. QED
    BY <2>2, <2>5, PointStays, TypeParts DEF PointSteps
<1>19. ASSUME NEW p \in Proc, FailMutationThrows(p) PROVE TypeOK' /\ PointIsEvent'
  BY <1>19, <1>a, GotoType DEF FailMutationThrows, At
<1>20. ASSUME NEW p \in Proc, Crash(p) PROVE TypeOK' /\ PointIsEvent'
  <2>1. Idle \in Process /\ Idle.pc = "idle"
    BY DEF Idle, Process, Step
  <2>2. ProcTyped' /\ OthersStay(p) /\ proc'[p].pc = "idle"
    BY <1>20, <2>1, ProcStep DEF Crash
  <2>3. StoreTyped' /\ UNCHANGED events
    BY <1>20, <1>a DEF Crash
  <2>4. QED
    BY <2>2, <2>3, PointStays, TypeParts DEF PointSteps
<1>21. ASSUME NEW v \in Provider, RouteEdited(v) PROVE TypeOK' /\ PointIsEvent'
  <2>1. StoreTyped' /\ ProcTyped'
    BY <1>21, <1>0, OptimizeAssumption DEF RouteEdited, store, StoreTyped, ProcTyped, At, KeyOf
  <2>2. QED
    BY <1>21, <2>1, TypeParts DEF RouteEdited, store, PointIsEvent, KeyOf
<1>22. CASE UNCHANGED vars
  BY <1>22 DEF vars, store, TypeOK, PointIsEvent, At, KeyOf
<1>23. ASSUME NEW p \in Proc, AnswerUncompleted(p) PROVE TypeOK' /\ PointIsEvent'
  BY <1>23, <1>a, AnswerType DEF AnswerUncompleted
<1>24. ASSUME NEW p \in Proc, PostActionThrows(p) PROVE TypeOK' /\ PointIsEvent'
  <2>1. ~At(p, "idle")
    BY <1>24 DEF PostActionThrows, At
  <2>2. QED
    BY <1>24, <1>a, <2>1, CatchType DEF PostActionThrows
<1>25. ASSUME NEW p \in Proc, loadReadModel(p) PROVE TypeOK' /\ PointIsEvent'
  <2>1. At(p, "reread") /\ ~At(p, "idle")
    BY <1>25 DEF loadReadModel, At
  <2>2. Target(KeyOf(p), proc[p].point) \in Provider
    BY <1>b, <2>1, TargetType DEF PointIsEvent, At
  <2>3. PICK v \in Provider : proc' = [proc EXCEPT ![p].pc = "event", ![p].after = v]
    BY <1>25, <1>0, <2>2 DEF loadReadModel, StoreTyped
  <2> DEFINE r == [proc[p] EXCEPT !.pc = "event", !.after = v]
  <2>4. r \in Process /\ r.pc = "event" /\ r.key = KeyOf(p) /\ r.seen = proc[p].seen
        /\ r.point = proc[p].point /\ r.after = v
    BY <1>b, <2>1 DEF Process, Step
  <2>5. proc' = [proc EXCEPT ![p] = r]
    BY <2>3
  <2> HIDE DEF r
  <2>6. ProcTyped' /\ OthersStay(p) /\ proc'[p].key = proc[p].key /\ proc'[p].point = proc[p].point
    BY <1>b, <2>1, <2>4, <2>5, ProcStep
  <2>7. StoreTyped' /\ UNCHANGED events
    BY <1>25, <1>a DEF loadReadModel
  <2>8. QED
    BY <2>1, <2>6, <2>7, PointStays, TypeParts DEF PointSteps, At
<1>26. QED
  BY <1>1, <1>2, <1>3, <1>4, <1>5, <1>6, <1>7, <1>8, <1>9, <1>10, <1>11, <1>12, <1>13, <1>14,
     <1>15, <1>16, <1>17, <1>18, <1>19, <1>20, <1>21, <1>22, <1>23, <1>24, <1>25,
     CommandAssumption DEF Next

-----------------------------------------------------------------------------
(***************************************************************************)
(* Executed once, with a final outcome                                     *)
(***************************************************************************)
Once ==
    /\ ExecutedAtMostOnce /\ RecordIsOpen /\ RowsHaveRecords
    /\ StartHasNoRow /\ OwnRow /\ RowIsOpen

FinalStep ==
    /\ \A k \in Key : records[k].status \in {"completed", "failed"} => records'[k] = records[k]
    /\ \A i \in 1 .. Len(ledger) : ledger[i].status # "started" => ledger'[i] = ledger[i]

\* Processes that run a command and rows of the ledger have a key.
LEMMA KeyTypes ==
    ASSUME TypeOK
    PROVE  /\ \A q \in Proc : ~At(q, "idle") => KeyOf(q) \in Key
           /\ \A i \in 1 .. Len(ledger) : ledger[i].key \in Key
<1>1. \A q \in Proc : ~At(q, "idle") => KeyOf(q) \in Key
  BY DEF TypeOK
<1>2. ASSUME NEW i \in 1 .. Len(ledger) PROVE ledger[i].key \in Key
  <2>1. ledger[i] \in LedgerRow
    BY DEF TypeOK
  <2>2. QED
    BY <2>1 DEF LedgerRow
<1>3. QED
  BY <1>1, <1>2

\* Steps that write neither a record nor the ledger: the process leaves the
\* command, or goes on with it and keeps its row.
LEMMA QuietStep ==
    ASSUME Inv, NEW p \in Proc, OthersStay(p), UNCHANGED <<records, ledger>>,
           \/ proc'[p].pc \in {"idle", "accept"}
           \/ /\ Executing(p) /\ proc'[p].pc # "start"
              /\ proc'[p].key = proc[p].key /\ proc'[p].row = proc[p].row
              /\ proc'[p].pc \in RowSteps => proc[p].pc \in RowSteps
              /\ proc'[p].pc \in OpenSteps => proc[p].pc \in OpenSteps
    PROVE  Once' /\ FinalStep
<1> USE DEF Inv, OthersStay, Executing, At, KeyOf
<1>1. ExecutedAtMostOnce'
  BY DEF ExecutedAtMostOnce
<1>2. RecordIsOpen' /\ RowsHaveRecords'
  BY DEF RecordIsOpen, RowsHaveRecords
<1>3. StartHasNoRow'
  BY DEF StartHasNoRow
<1>4. OwnRow' /\ RowIsOpen'
  BY DEF OwnRow, RowIsOpen, RowSteps, OpenSteps
<1>5. QED
  BY <1>1, <1>2, <1>3, <1>4 DEF Once, FinalStep

\* A process finishes its row: no other process has that row.
LEMMA FinishStep ==
    ASSUME Inv, NEW p \in Proc, OthersStay(p), UNCHANGED records,
           proc[p].pc \in OpenSteps, proc'[p].pc = "record",
           proc'[p].key = proc[p].key, proc'[p].row = proc[p].row,
           Len(ledger') = Len(ledger),
           \A j \in 1 .. Len(ledger) : /\ ledger'[j].key = ledger[j].key
                                       /\ j # proc[p].row => ledger'[j] = ledger[j]
    PROVE  Once' /\ FinalStep
<1> USE DEF Inv, OthersStay, Executing, At, KeyOf
<1>0. Executing(p) /\ proc[p].pc \in RowSteps
  BY DEF RowSteps, OpenSteps
<1>1. ExecutedAtMostOnce'
  BY <1>0 DEF ExecutedAtMostOnce
<1>2. RecordIsOpen' /\ RowsHaveRecords'
  BY <1>0 DEF RecordIsOpen, RowsHaveRecords
<1>3. StartHasNoRow'
  BY DEF StartHasNoRow
<1>4. OwnRow'
  BY <1>0 DEF OwnRow
<1>5. ASSUME NEW q \in Proc, proc'[q].pc \in OpenSteps PROVE ledger'[proc'[q].row].status = "started"
  <2>1. q # p /\ proc'[q] = proc[q] /\ proc[q].pc \in RowSteps /\ Executing(q)
    BY <1>5 DEF RowSteps, OpenSteps
  <2>2. KeyOf(q) # KeyOf(p)
    BY <1>0, <2>1 DEF ExecutedAtMostOnce
  <2>3. proc[q].row # proc[p].row /\ proc[q].row \in 1 .. Len(ledger)
    BY <1>0, <2>1, <2>2 DEF OwnRow
  <2>4. QED
    BY <1>5, <2>1, <2>3 DEF RowIsOpen
<1>6. RowIsOpen'
  BY <1>5 DEF RowIsOpen
<1>7. FinalStep
  BY DEF FinalStep, RowIsOpen
<1>8. QED
  BY <1>1, <1>2, <1>3, <1>4, <1>6, <1>7 DEF Once

\* A process stores the outcome of its command and answers.
LEMMA OutcomeStep ==
    ASSUME Inv, NEW p \in Proc, OthersStay(p), UNCHANGED ledger,
           Executing(p), proc'[p].pc = "idle",
           \A k \in Key : IF k = KeyOf(p) THEN records'[k].status # "none" ELSE records'[k] = records[k]
    PROVE  Once' /\ FinalStep
<1> USE DEF Inv, OthersStay, Executing, At, KeyOf
<1>0. /\ \A q \in Proc : ~At(q, "idle") => KeyOf(q) \in Key
      /\ \A i \in 1 .. Len(ledger) : ledger[i].key \in Key
  BY KeyTypes
<1>1. ExecutedAtMostOnce'
  BY DEF ExecutedAtMostOnce
<1>2. ASSUME NEW q \in Proc, Executing(q)' PROVE records'[proc'[q].key].status = "accepted"
  <2>1. q # p /\ Executing(q) /\ proc'[q] = proc[q]
    BY <1>2
  <2>2. KeyOf(q) # KeyOf(p)
    BY <2>1 DEF ExecutedAtMostOnce
  <2>3. QED
    BY <1>0, <2>1, <2>2 DEF RecordIsOpen
<1>3. RecordIsOpen'
  BY <1>2 DEF RecordIsOpen
<1>4. RowsHaveRecords'
  BY <1>0 DEF RowsHaveRecords
<1>5. StartHasNoRow'
  BY DEF StartHasNoRow
<1>6. OwnRow' /\ RowIsOpen'
  BY DEF OwnRow, RowIsOpen, RowSteps, OpenSteps
<1>7. FinalStep
  BY DEF FinalStep, RecordIsOpen
<1>8. QED
  BY <1>1, <1>3, <1>4, <1>5, <1>6, <1>7 DEF Once

\* The first process to offer a command gets it: nobody executes it, and it has
\* no row, because both would have left a record.
LEMMA AcceptStep ==
    ASSUME Inv, NEW p \in Proc, OthersStay(p), UNCHANGED ledger,
           proc[p].pc = "accept", proc'[p].pc = "start", proc'[p].key = proc[p].key,
           records[KeyOf(p)] = NoRecord,
           \A k \in Key : records'[k] = IF k = KeyOf(p) THEN [status |-> "accepted", result |-> None]
                                        ELSE records[k]
    PROVE  Once' /\ FinalStep
<1> USE DEF Inv, OthersStay, Executing, At, KeyOf
<1>0. /\ \A q \in Proc : ~At(q, "idle") => KeyOf(q) \in Key
      /\ \A i \in 1 .. Len(ledger) : ledger[i].key \in Key
  BY KeyTypes
<1>1. records[KeyOf(p)].status = "none"
  BY DEF NoRecord
<1>2. \A q \in Proc : Executing(q) => KeyOf(q) # KeyOf(p)
  BY <1>1 DEF RecordIsOpen
<1>3. \A i \in 1 .. Len(ledger) : ledger[i].key # KeyOf(p)
  BY <1>1 DEF RowsHaveRecords
<1>4. ExecutedAtMostOnce'
  BY <1>2 DEF ExecutedAtMostOnce
<1>5. RecordIsOpen'
  BY <1>0, <1>2 DEF RecordIsOpen
<1>6. RowsHaveRecords'
  BY <1>0 DEF RowsHaveRecords
<1>7. StartHasNoRow'
  BY <1>3 DEF StartHasNoRow
<1>8. OwnRow' /\ RowIsOpen'
  BY DEF OwnRow, RowIsOpen, RowSteps, OpenSteps
<1>9. FinalStep
  BY <1>1 DEF FinalStep
<1>10. QED
  BY <1>4, <1>5, <1>6, <1>7, <1>8, <1>9 DEF Once

\* The attempt opens its row, the only one of its command.
LEMMA RowStep ==
    ASSUME Inv, NEW p \in Proc, OthersStay(p), UNCHANGED records,
           proc[p].pc = "start", proc'[p].pc = "check",
           proc'[p].key = proc[p].key, proc'[p].row = Len(ledger) + 1,
           ledger' = Append(ledger, [key |-> KeyOf(p), status |-> "started", event |-> 0])
    PROVE  Once' /\ FinalStep
<1> USE DEF Inv, OthersStay, Executing, At, KeyOf
<1>0. /\ Len(ledger) \in Nat /\ Len(ledger') = Len(ledger) + 1
      /\ \A i \in 1 .. Len(ledger) : ledger'[i] = ledger[i]
      /\ ledger'[Len(ledger) + 1].key = KeyOf(p) /\ ledger'[Len(ledger) + 1].status = "started"
  BY DEF TypeOK
<1>1. Executing(p) /\ \A i \in 1 .. Len(ledger) : ledger[i].key # KeyOf(p)
  BY DEF StartHasNoRow
<1> DEFINE last == Len(ledger) + 1
<1>2. \A i \in 1 .. Len(ledger') : i = last \/ i \in 1 .. Len(ledger)
  BY <1>0
<1>3. ExecutedAtMostOnce'
  BY <1>0, <1>1, <1>2 DEF ExecutedAtMostOnce
<1>4. RecordIsOpen'
  BY <1>1 DEF RecordIsOpen
<1>5. RowsHaveRecords'
  BY <1>0, <1>1, <1>2 DEF RowsHaveRecords, RecordIsOpen
<1>6. ASSUME NEW q \in Proc, At(q, "start")', NEW i \in 1 .. Len(ledger') PROVE ledger'[i].key # proc'[q].key
  <2>1. q # p /\ proc'[q] = proc[q] /\ Executing(q)
    BY <1>6
  <2>2. KeyOf(q) # KeyOf(p)
    BY <1>1, <2>1 DEF ExecutedAtMostOnce
  <2>3. QED
    BY <1>0, <1>2, <1>6, <2>1, <2>2 DEF StartHasNoRow
<1>7. StartHasNoRow'
  BY <1>6 DEF StartHasNoRow
<1>8. OwnRow'
  BY <1>0 DEF OwnRow, RowSteps
<1>9. ASSUME NEW q \in Proc, proc'[q].pc \in OpenSteps PROVE ledger'[proc'[q].row].status = "started"
  BY <1>0, <1>9 DEF OwnRow, RowIsOpen, RowSteps, OpenSteps
<1>10. RowIsOpen'
  BY <1>9 DEF RowIsOpen
<1>11. FinalStep
  BY <1>0 DEF FinalStep
<1>12. QED
  BY <1>3, <1>4, <1>5, <1>7, <1>8, <1>10, <1>11 DEF Once

\* Every step keeps the facts about execution, and is final.
LEMMA StepOnce == Inv /\ [Next]_vars => Once' /\ FinalStep
<1> SUFFICES ASSUME Inv, [Next]_vars PROVE Once' /\ FinalStep
  OBVIOUS
<1>0. TypeOK /\ OwnRow /\ RowIsOpen
  BY DEF Inv
<1>a. ASSUME NEW p \in Proc, NEW a, Answer(p, a), UNCHANGED <<records, ledger>> PROVE Once' /\ FinalStep
  BY <1>a, <1>0, AnswerStep, QuietStep
<1>b. ASSUME NEW p \in Proc, Executing(p), NEW pc \in {"fail", "failRecord"}, Goto(p, pc),
             pc = "fail" => proc[p].pc \in OpenSteps, UNCHANGED <<records, ledger>>
      PROVE  Once' /\ FinalStep
  <2>1. ~At(p, "idle") /\ pc \in Step /\ pc # "start"
    BY <1>b DEF Executing, Step
  <2>2. /\ OthersStay(p) /\ proc'[p].pc = pc
        /\ proc'[p].key = proc[p].key /\ proc'[p].row = proc[p].row
    BY <1>b, <1>0, <2>1, GotoStep
  <2>3. QED
    BY <1>b, <2>1, <2>2, QuietStep DEF RowSteps, OpenSteps
<1>t. ASSUME NEW p \in Proc, Executing(p), proc[p].pc # "start", CatchError(p),
             UNCHANGED <<records, ledger>>
      PROVE  Once' /\ FinalStep
  <2>1. ~At(p, "idle")
    BY <1>t DEF Executing
  <2>2. QED
    BY <1>t, <1>0, <2>1, CatchStep, QuietStep
<1>c. ASSUME NEW p \in Proc, NEW r \in Process, proc' = [proc EXCEPT ![p] = r]
      PROVE  OthersStay(p) /\ proc'[p] = r
  BY <1>c, <1>0 DEF TypeOK, OthersStay
<1>d. ASSUME NEW p \in Proc
      PROVE  proc[p] \in Process /\ proc[p].row \in Nat /\ proc[p].event \in Nat /\ proc[p].point \in Nat
  BY <1>0 DEF TypeOK, Process
<1>e. ASSUME NEW p \in Proc, proc[p].pc \in RowSteps
      PROVE  proc[p].row \in 1 .. Len(ledger) /\ ledger \in Seq(LedgerRow) /\ Executing(p)
  BY <1>e, <1>0 DEF OwnRow, TypeOK, RowSteps, Executing, At
<1>1. ASSUME NEW p \in Proc, NEW k \in Key, IssueCommand(p, k) PROVE Once' /\ FinalStep
  <2>1. OthersStay(p) /\ proc'[p].pc = "accept" /\ UNCHANGED <<records, ledger>>
    BY <1>1, <1>0 DEF IssueCommand, store, OthersStay, TypeOK, Idle
  <2>2. QED
    BY <2>1, QuietStep
<1>2. ASSUME NEW p \in Proc, accept(p) PROVE Once' /\ FinalStep
  <2>1. CASE records[KeyOf(p)] # NoRecord
    BY <1>2, <1>a, <2>1 DEF accept
  <2>2. CASE records[KeyOf(p)] = NoRecord
    <3>1. /\ proc[p].pc = "accept" /\ ~At(p, "idle") /\ Goto(p, "start") /\ UNCHANGED ledger
          /\ records' = [records EXCEPT ![KeyOf(p)] = [status |-> "accepted", result |-> None]]
      BY <1>2, <2>2 DEF accept, At
    <3>2. OthersStay(p) /\ proc'[p].pc = "start" /\ proc'[p].key = proc[p].key
      BY <1>0, <3>1, GotoStep DEF Step
    <3>3. \A k \in Key : records'[k] = IF k = KeyOf(p) THEN [status |-> "accepted", result |-> None]
                                       ELSE records[k]
      BY <1>0, <3>1 DEF TypeOK
    <3>4. QED
      BY <2>2, <3>1, <3>2, <3>3, AcceptStep
  <2>3. QED
    BY <2>1, <2>2
<1>3. ASSUME NEW p \in Proc, complete(p) PROVE Once' /\ FinalStep
  <2>1. Executing(p) /\ UNCHANGED ledger /\ OthersStay(p) /\ proc'[p].pc = "idle"
    BY <1>3, <1>0, AnswerStep DEF complete, Executing, At
  <2>2. \A k \in Key : IF k = KeyOf(p) THEN records'[k].status # "none" ELSE records'[k] = records[k]
    BY <1>3, <1>0 DEF complete, TypeOK, Record, NoRecord
  <2>3. QED
    BY <2>1, <2>2, OutcomeStep
<1>4. ASSUME NEW p \in Proc, CompleteThrows(p) PROVE Once' /\ FinalStep
  <2>1. Executing(p) /\ proc[p].pc # "start" /\ UNCHANGED <<records, ledger>>
    BY <1>4 DEF CompleteThrows, Executing, At, store
  <2>2. QED
    BY <1>4, <1>a, <1>b, <1>t, <2>1 DEF CompleteThrows, CompletionThrows
<1>5. ASSUME NEW p \in Proc, fail(p) PROVE Once' /\ FinalStep
  <2>1. Executing(p) /\ UNCHANGED ledger /\ OthersStay(p) /\ proc'[p].pc = "idle"
    BY <1>5, <1>0, AnswerStep DEF fail, Executing, At
  <2>2. \A k \in Key : IF k = KeyOf(p) THEN records'[k].status # "none" ELSE records'[k] = records[k]
    BY <1>5, <1>0 DEF fail, TypeOK, Record, NoRecord
  <2>3. QED
    BY <2>1, <2>2, OutcomeStep
<1>6. ASSUME NEW p \in Proc, recordOptimizeControlPlaneActionStarted(p) PROVE Once' /\ FinalStep
  <2> DEFINE r == [proc[p] EXCEPT !.pc = "check", !.row = Len(ledger')]
  <2>1. /\ proc[p].pc = "start" /\ UNCHANGED records /\ proc' = [proc EXCEPT ![p] = r]
        /\ ledger' = Append(ledger, [key |-> KeyOf(p), status |-> "started", event |-> 0])
    BY <1>6 DEF recordOptimizeControlPlaneActionStarted, At
  <2>2. Len(ledger') = Len(ledger) + 1 /\ Len(ledger') \in Nat
    BY <1>0, <2>1 DEF TypeOK
  <2>3. r \in Process /\ r.pc = "check" /\ r.key = proc[p].key /\ r.row = Len(ledger')
    BY <1>d, <2>2 DEF Process, Step
  <2> HIDE DEF r
  <2>4. OthersStay(p) /\ proc'[p] = r
    BY <1>c, <2>1, <2>3
  <2>5. QED
    BY <2>1, <2>2, <2>3, <2>4, RowStep
<1>7. ASSUME NEW p \in Proc, StartThrows(p) PROVE Once' /\ FinalStep
  <2>1. Executing(p) /\ UNCHANGED <<records, ledger>>
    BY <1>7 DEF StartThrows, Executing, At, store
  <2>2. QED
    BY <1>7, <1>b, <2>1 DEF StartThrows
<1>8. ASSUME NEW p \in Proc, ChecksPass(p) PROVE Once' /\ FinalStep
  <2>1. proc[p].pc = "check" /\ proc[p].pc \in OpenSteps /\ proc[p].pc \in RowSteps /\ UNCHANGED records
    BY <1>8 DEF ChecksPass, At, RowSteps, OpenSteps
  <2>2. PICK e \in 0 .. Len(events), pc \in {"record", "snapshot", "complete"}, res \in Result :
          /\ proc' = [proc EXCEPT ![p].pc = pc, ![p].point = e, ![p].result = res]
          /\ IF pc = "record" THEN ledger' = [ledger EXCEPT ![proc[p].row].status = "dry_run_succeeded"]
             ELSE UNCHANGED ledger
    BY <1>8 DEF ChecksPass, Result
  <2> DEFINE r == [proc[p] EXCEPT !.pc = pc, !.point = e, !.result = res]
  <2>3. e \in Nat
    BY <1>0 DEF TypeOK
  <2>4. r \in Process /\ r.pc = pc /\ r.key = proc[p].key /\ r.row = proc[p].row
    BY <1>d, <2>3 DEF Process, Step
  <2>5. proc' = [proc EXCEPT ![p] = r]
    BY <2>2
  <2> HIDE DEF r
  <2>6. OthersStay(p) /\ proc'[p] = r
    BY <1>c, <2>4, <2>5
  <2>7. CASE pc = "record"
    BY <1>e, <2>1, <2>2, <2>4, <2>6, <2>7, StatusFinished, FinishStep
  <2>8. CASE pc # "record"
    BY <1>e, <2>1, <2>2, <2>4, <2>6, <2>8, QuietStep
  <2>9. QED
    BY <2>7, <2>8
<1>9. ASSUME NEW p \in Proc, ChecksRefuse(p) PROVE Once' /\ FinalStep
  <2>1. Executing(p) /\ UNCHANGED <<records, ledger>> /\ proc[p].pc \in OpenSteps
    BY <1>9 DEF ChecksRefuse, Executing, At, store, RowSteps, OpenSteps
  <2>2. QED
    BY <1>9, <1>b, <2>1 DEF ChecksRefuse
<1>10. ASSUME NEW p \in Proc, createOptimizeConfigSnapshot(p) PROVE Once' /\ FinalStep
  <2>1. /\ proc[p].pc \in OpenSteps /\ proc[p].pc \in RowSteps /\ Executing(p) /\ ~At(p, "idle")
        /\ UNCHANGED <<records, ledger>> /\ Goto(p, "write")
    BY <1>10 DEF createOptimizeConfigSnapshot, At, Executing, RowSteps, OpenSteps
  <2>2. /\ OthersStay(p) /\ proc'[p].pc = "write"
        /\ proc'[p].key = proc[p].key /\ proc'[p].row = proc[p].row
    BY <1>0, <2>1, GotoStep DEF Step
  <2>3. QED
    BY <2>1, <2>2, QuietStep
<1>11. ASSUME NEW p \in Proc, SnapshotThrows(p) PROVE Once' /\ FinalStep
  <2>1. Executing(p) /\ UNCHANGED <<records, ledger>> /\ proc[p].pc \in OpenSteps
    BY <1>11 DEF SnapshotThrows, Executing, At, store, RowSteps, OpenSteps
  <2>2. QED
    BY <1>11, <1>b, <2>1 DEF SnapshotThrows
<1>12. ASSUME NEW p \in Proc, updateRouteProviderTarget(p) PROVE Once' /\ FinalStep
  <2>1. /\ proc[p].pc \in OpenSteps /\ proc[p].pc \in RowSteps /\ Executing(p) /\ ~At(p, "idle")
        /\ UNCHANGED <<records, ledger>> /\ Goto(p, "reread")
    BY <1>12 DEF updateRouteProviderTarget, At, Executing, RowSteps, OpenSteps, store
  <2>2. /\ OthersStay(p) /\ proc'[p].pc = "reread"
        /\ proc'[p].key = proc[p].key /\ proc'[p].row = proc[p].row
    BY <1>0, <2>1, GotoStep DEF Step
  <2>3. QED
    BY <2>1, <2>2, QuietStep
<1>13. ASSUME NEW p \in Proc, UpdateThrows(p) PROVE Once' /\ FinalStep
  <2>1. Executing(p) /\ UNCHANGED <<records, ledger>> /\ proc[p].pc \in OpenSteps
    BY <1>13 DEF UpdateThrows, Executing, At, RowSteps, OpenSteps
  <2>2. QED
    BY <1>13, <1>b, <2>1 DEF UpdateThrows
<1>14. ASSUME NEW p \in Proc, recordOptimizeMutationEvent(p) PROVE Once' /\ FinalStep
  <2> DEFINE r == [proc[p] EXCEPT !.pc = "complete", !.event = Len(events')]
  <2>1. /\ proc[p].pc \in OpenSteps /\ proc[p].pc \in RowSteps /\ Executing(p)
        /\ UNCHANGED <<records, ledger>> /\ proc' = [proc EXCEPT ![p] = r]
    BY <1>14 DEF recordOptimizeMutationEvent, At, Executing, RowSteps, OpenSteps
  <2>2. Len(events') \in Nat
    BY <1>14, <1>0 DEF recordOptimizeMutationEvent, TypeOK
  <2>3. r \in Process /\ r.pc = "complete" /\ r.key = proc[p].key /\ r.row = proc[p].row
    BY <1>d, <2>2 DEF Process, Step
  <2> HIDE DEF r
  <2>4. OthersStay(p) /\ proc'[p] = r
    BY <1>c, <2>1, <2>3
  <2>5. QED
    BY <2>1, <2>3, <2>4, QuietStep
<1>15. ASSUME NEW p \in Proc, EventThrows(p) PROVE Once' /\ FinalStep
  <2>1. Executing(p) /\ UNCHANGED <<records, ledger>> /\ proc[p].pc \in OpenSteps
    BY <1>15 DEF EventThrows, Executing, At, store, RowSteps, OpenSteps
  <2>2. QED
    BY <1>15, <1>b, <2>1 DEF EventThrows
<1>16. ASSUME NEW p \in Proc, completeLedger(p) PROVE Once' /\ FinalStep
  <2>1. /\ proc[p].pc \in OpenSteps /\ proc[p].pc \in RowSteps /\ ~At(p, "idle")
        /\ UNCHANGED records /\ Goto(p, "record")
        /\ ledger' = [ledger EXCEPT
               ![proc[p].row].status = IF proc[p].result = "changed" THEN "succeeded" ELSE "noop",
               ![proc[p].row].event = proc[p].event]
    BY <1>16 DEF completeLedger, At, RowSteps, OpenSteps
  <2>2. /\ OthersStay(p) /\ proc'[p].pc = "record"
        /\ proc'[p].key = proc[p].key /\ proc'[p].row = proc[p].row
    BY <1>0, <2>1, GotoStep DEF Step
  <2>3. QED
    BY <1>d, <1>e, <2>1, <2>2, StatusFinished, FinishStep
<1>17. ASSUME NEW p \in Proc, CompleteLedgerThrows(p) PROVE Once' /\ FinalStep
  <2>1. Executing(p) /\ proc[p].pc # "start" /\ UNCHANGED <<records, ledger>>
    BY <1>17 DEF CompleteLedgerThrows, Executing, At, store
  <2>2. QED
    BY <1>17, <1>a, <1>t, <2>1 DEF CompleteLedgerThrows, CompletionThrows
<1>18. ASSUME NEW p \in Proc, failMutation(p) PROVE Once' /\ FinalStep
  <2> DEFINE r == [proc[p] EXCEPT !.pc = "record", !.result = "refused"]
  <2>1. /\ proc[p].pc \in OpenSteps /\ proc[p].pc \in RowSteps /\ UNCHANGED records
        /\ proc' = [proc EXCEPT ![p] = r]
        /\ ledger' = [ledger EXCEPT ![proc[p].row].status = "failed"]
    BY <1>18 DEF failMutation, At, RowSteps, OpenSteps
  <2>2. r \in Process /\ r.pc = "record" /\ r.key = proc[p].key /\ r.row = proc[p].row
    BY <1>d DEF Process, Step, Result
  <2> HIDE DEF r
  <2>3. OthersStay(p) /\ proc'[p] = r
    BY <1>c, <2>1, <2>2
  <2>4. QED
    BY <1>e, <2>1, <2>2, <2>3, StatusFinished, FinishStep
<1>19. ASSUME NEW p \in Proc, FailMutationThrows(p) PROVE Once' /\ FinalStep
  <2>1. Executing(p) /\ UNCHANGED <<records, ledger>>
    BY <1>19 DEF FailMutationThrows, Executing, At, store
  <2>2. QED
    BY <1>19, <1>b, <2>1 DEF FailMutationThrows
<1>20. ASSUME NEW p \in Proc, Crash(p) PROVE Once' /\ FinalStep
  <2>1. Idle \in Process /\ Idle.pc = "idle"
    BY DEF Idle, Process, Step
  <2>2. OthersStay(p) /\ proc'[p].pc = "idle" /\ UNCHANGED <<records, ledger>>
    BY <1>20, <1>c, <2>1 DEF Crash, store
  <2>3. QED
    BY <2>2, QuietStep
<1>21. ASSUME UNCHANGED <<records, ledger, proc>> PROVE Once' /\ FinalStep
  BY <1>21 DEF Inv, Once, FinalStep, ExecutedAtMostOnce, RecordIsOpen, RowsHaveRecords, StartHasNoRow,
     OwnRow, RowIsOpen, Executing, At, KeyOf
<1>22. ASSUME NEW v \in Provider, RouteEdited(v) PROVE Once' /\ FinalStep
  BY <1>21, <1>22 DEF RouteEdited, store
<1>23. CASE UNCHANGED vars
  BY <1>21, <1>23 DEF vars, store
<1>24. ASSUME NEW p \in Proc, AnswerUncompleted(p) PROVE Once' /\ FinalStep
  BY <1>24, <1>a DEF AnswerUncompleted, store
<1>25. ASSUME NEW p \in Proc, PostActionThrows(p) PROVE Once' /\ FinalStep
  <2>1. Executing(p) /\ proc[p].pc # "start" /\ UNCHANGED <<records, ledger>>
    BY <1>25 DEF PostActionThrows, Executing, At, store
  <2>2. QED
    BY <1>25, <1>t, <2>1 DEF PostActionThrows
<1>26. ASSUME NEW p \in Proc, loadReadModel(p) PROVE Once' /\ FinalStep
  <2>1. PICK v \in {catalog, Target(KeyOf(p), proc[p].point)} :
           proc' = [proc EXCEPT ![p].pc = "event", ![p].after = v]
    BY <1>26 DEF loadReadModel
  <2> DEFINE r == [proc[p] EXCEPT !.pc = "event", !.after = v]
  <2>2. /\ proc[p].pc \in OpenSteps /\ proc[p].pc \in RowSteps /\ Executing(p)
        /\ UNCHANGED <<records, ledger>> /\ proc' = [proc EXCEPT ![p] = r]
    BY <1>26, <2>1 DEF loadReadModel, At, Executing, RowSteps, OpenSteps, store
  <2>3. r.pc = "event" /\ r.key = proc[p].key /\ r.row = proc[p].row
    BY <1>d DEF Process
  <2> HIDE DEF r
  <2>4. OthersStay(p) /\ proc'[p] = r
    BY <1>0, <2>2 DEF TypeOK, OthersStay
  <2>5. QED
    BY <2>2, <2>3, <2>4, QuietStep
<1>27. QED
  BY <1>1, <1>2, <1>3, <1>4, <1>5, <1>6, <1>7, <1>8, <1>9, <1>10, <1>11, <1>12, <1>13, <1>14,
     <1>15, <1>16, <1>17, <1>18, <1>19, <1>20, <1>22, <1>23, <1>24, <1>25, <1>26,
     CommandAssumption DEF Next

-----------------------------------------------------------------------------
\* The inductive invariant holds initially: there is no record, row or command.
LEMMA InitInv == Init => Inv
<1> SUFFICES ASSUME Init PROVE Inv
  OBVIOUS
<1>1. Idle \in Process /\ Idle.pc = "idle"
  BY DEF Idle, Process, Step
<1>2. proc \in [Proc -> Process] /\ \A p \in Proc : proc[p].pc = "idle"
  BY <1>1 DEF Init
<1>3. /\ records \in [Key -> Record \cup {NoRecord}]
      /\ ledger \in Seq(LedgerRow) /\ Len(ledger) = 0 /\ events \in Seq(Event)
  BY DEF Init
<1>4. TypeOK
  BY <1>2, <1>3, OptimizeAssumption DEF Init, TypeOK, At
<1>5. PointIsEvent /\ RecordIsOpen /\ StartHasNoRow /\ OwnRow /\ RowIsOpen
  BY <1>2 DEF PointIsEvent, RecordIsOpen, StartHasNoRow, OwnRow, RowIsOpen, RowSteps, OpenSteps,
     Executing, At
<1>6. ExecutedAtMostOnce /\ RowsHaveRecords
  BY <1>2, <1>3 DEF ExecutedAtMostOnce, RowsHaveRecords, Executing, At
<1>7. QED
  BY <1>4, <1>5, <1>6 DEF Inv

\* Inv is inductive.
LEMMA StepInv == Inv /\ [Next]_vars => Inv'
<1> SUFFICES ASSUME Inv, [Next]_vars PROVE Inv'
  OBVIOUS
<1>1. TypeOK' /\ PointIsEvent'
  BY StepType DEF Inv
<1>2. Once'
  BY StepOnce
<1>3. QED
  BY <1>1, <1>2 DEF Inv, Once

-----------------------------------------------------------------------------
(***************************************************************************)
(* What an outcome rests on                                                *)
(***************************************************************************)
BeforeEvent == {"start", "check", "snapshot", "write", "reread", "event"}

\* What the entry r of a process can rely on in a ledger l, with snapshots s and
\* events ev: its restore point is an apply of its own run whose event left the route as
\* the process found it, no event has its command before it records one, from the
\* snapshot on its snapshot is stored, and what it reports as changed has an event.
Own(r, l, s, ev) ==
    /\ r.pc \in PointSteps /\ r.key.op = "restore" =>
           /\ ev[r.point].key.op = "apply" /\ ev[r.point].key.run = r.key.run
           /\ r.seen = ev[r.point].after
    /\ r.pc \in BeforeEvent => \A e \in 1 .. Len(ev) : ev[e].key # r.key
    /\ r.pc \in {"write", "reread", "event"} => r.row \in s
    /\ r.pc = "complete" /\ r.result = "changed" => r.event \in 1 .. Len(ev) /\ ev[r.event].key = r.key
    /\ r.pc = "record" /\ r.result = "changed" =>
           /\ l[r.row].status = "succeeded" /\ l[r.row].event \in 1 .. Len(ev)
           /\ ev[l[r.row].event].key = r.key

\* An event has the snapshot and the ledger row of its attempt.
EventsAreFounded ==
    \A e \in 1 .. Len(events) :
        /\ events[e].snapshot \in snapshots /\ events[e].snapshot \in 1 .. Len(ledger)
        /\ ledger[events[e].snapshot].key = events[e].key

\* SuccessIsBacked but for the snapshot, which EventsAreFounded has.
RecordsBacked ==
    \A k \in Key : records[k].result = "changed" =>
        \E i \in 1 .. Len(ledger) :
            /\ ledger[i].key = k /\ ledger[i].status = "succeeded"
            /\ ledger[i].event \in 1 .. Len(events) /\ events[ledger[i].event].key = k

Trail ==
    /\ \A p \in Proc : Own(proc[p], ledger, snapshots, events)
    /\ EventsAreFounded /\ RestoresNameApplies /\ RecordsBacked

\* A process that has finished, or that reports no change, relies on nothing.
LEMMA OwnNothing ==
    ASSUME NEW r, NEW l, NEW s, NEW ev,
           \/ r.pc \in {"idle", "accept", "fail", "failRecord"}
           \/ r.pc \in {"complete", "record"} /\ r.result # "changed"
    PROVE  Own(r, l, s, ev)
BY DEF Own, PointSteps, BeforeEvent

\* What a process relies on is still there when the store grows: events are appended
\* that are not its own, its snapshot is kept, and its finished row is kept.
LEMMA OwnKept ==
    ASSUME NEW r, NEW l, NEW l2, NEW s, NEW s2, NEW ev, NEW ev2,
           Own(r, l, s, ev), Len(ev) \in Nat, Len(ev2) \in Nat, Len(ev) <= Len(ev2),
           \A e \in 1 .. Len(ev) : ev2[e] = ev[e],
           r.pc \in BeforeEvent => \A e \in 1 .. Len(ev2) : e > Len(ev) => ev2[e].key # r.key,
           r.pc \in PointSteps /\ r.key.op = "restore" => r.point \in 1 .. Len(ev),
           r.pc \in {"write", "reread", "event"} /\ r.row \in s => r.row \in s2,
           r.pc = "record" /\ l[r.row].status = "succeeded" => l2[r.row] = l[r.row]
    PROVE  Own(r, l2, s2, ev2)
<1>1. r.pc \in BeforeEvent => \A e \in 1 .. Len(ev2) : ev2[e].key # r.key
  BY DEF Own
<1>2. r.pc \in PointSteps /\ r.key.op = "restore" =>
           /\ ev2[r.point].key.op = "apply" /\ ev2[r.point].key.run = r.key.run
           /\ r.seen = ev2[r.point].after
  BY DEF Own
<1>3. r.pc = "complete" /\ r.result = "changed" =>
           r.event \in 1 .. Len(ev2) /\ ev2[r.event].key = r.key
  BY DEF Own
<1>4. r.pc = "record" /\ r.result = "changed" =>
           /\ l2[r.row].status = "succeeded" /\ l2[r.row].event \in 1 .. Len(ev2)
           /\ ev2[l2[r.row].event].key = r.key
  BY DEF Own
<1>5. QED
  BY <1>1, <1>2, <1>3, <1>4 DEF Own

\* The ledger only grows, and finished rows are kept.
LedgerKept ==
    /\ Len(ledger) <= Len(ledger')
    /\ \A i \in 1 .. Len(ledger) :
          ledger'[i].key = ledger[i].key /\ (ledger[i].status # "started" => ledger'[i] = ledger[i])

\* The row of a process that is about to write is no other process's, and no event's.
LEMMA RowIsPrivate ==
    ASSUME Inv, Trail, NEW p \in Proc, proc[p].pc = "write"
    PROVE  /\ \A q \in Proc : q # p /\ proc[q].pc \in {"write", "reread", "event"} => proc[q].row # proc[p].row
           /\ \A e \in 1 .. Len(events) : events[e].snapshot # proc[p].row
<1>1. proc[p].pc \in RowSteps /\ proc[p].pc \in BeforeEvent /\ Executing(p)
  BY DEF RowSteps, BeforeEvent, Executing, At
<1>2. ledger[proc[p].row].key = KeyOf(p)
  BY <1>1 DEF Inv, OwnRow
<1>3. ASSUME NEW q \in Proc, q # p, proc[q].pc \in {"write", "reread", "event"} PROVE proc[q].row # proc[p].row
  <2>1. proc[q].pc \in RowSteps /\ Executing(q)
    BY <1>3 DEF RowSteps, Executing, At
  <2>2. ledger[proc[q].row].key = KeyOf(q)
    BY <2>1 DEF Inv, OwnRow
  <2>3. KeyOf(q) # KeyOf(p)
    BY <1>1, <1>3, <2>1 DEF Inv, ExecutedAtMostOnce
  <2>4. QED
    BY <1>2, <2>2, <2>3
<1>4. ASSUME NEW e \in 1 .. Len(events) PROVE events[e].snapshot # proc[p].row
  <2>1. events[e].key # KeyOf(p)
    BY <1>1 DEF Trail, Own, KeyOf
  <2>2. ledger[events[e].snapshot].key = events[e].key
    BY DEF Trail, EventsAreFounded
  <2>3. QED
    BY <1>2, <2>1, <2>2
<1>5. QED
  BY <1>3, <1>4

\* A step of p that records no event keeps the trail, when p itself can rely on what
\* it needs next: the snapshots stay, but for that of an attempt whose write failed,
\* and a new outcome "changed" is that of a process that has finished its row.
LEMMA KeptTrail ==
    ASSUME Inv, Trail, NEW p \in Proc, OthersStay(p), UNCHANGED events, LedgerKept, Len(ledger') \in Nat,
           \A i \in snapshots : i \in snapshots' \/ (proc[p].pc = "write" /\ i = proc[p].row),
           \A k \in Key : records'[k].result = "changed" =>
               \/ records[k].result = "changed"
               \/ k = KeyOf(p) /\ proc[p].pc = "record" /\ proc[p].result = "changed",
           Own(proc'[p], ledger', snapshots', events)
    PROVE  Trail'
<1>0. Len(events) \in Nat /\ Len(ledger) \in Nat
  BY DEF Inv, TypeOK
<1>1. ASSUME NEW q \in Proc PROVE Own(proc'[q], ledger', snapshots', events')
  <2>1. CASE q = p
    BY <2>1
  <2>2. CASE q # p
    <3>1. proc'[q] = proc[q] /\ Own(proc[q], ledger, snapshots, events)
      BY <2>2 DEF OthersStay, Trail
    <3>2. proc[q].pc \in PointSteps /\ proc[q].key.op = "restore" => proc[q].point \in 1 .. Len(events)
      BY DEF Inv, PointIsEvent, PointSteps, KeyOf
    <3>3. proc[q].pc \in {"write", "reread", "event"} /\ proc[q].row \in snapshots => proc[q].row \in snapshots'
      BY <2>2, RowIsPrivate
    <3>4. proc[q].pc = "record" /\ ledger[proc[q].row].status = "succeeded" =>
             ledger'[proc[q].row] = ledger[proc[q].row]
      BY DEF Inv, OwnRow, RowSteps, LedgerKept
    <3>5. Own(proc[q], ledger', snapshots', events)
      BY <1>0, <3>1, <3>2, <3>3, <3>4, OwnKept
    <3>6. QED
      BY <3>1, <3>5
  <2>3. QED
    BY <2>1, <2>2
<1>2. EventsAreFounded'
  <2> SUFFICES ASSUME NEW e \in 1 .. Len(events)
               PROVE  /\ events[e].snapshot \in snapshots' /\ events[e].snapshot \in 1 .. Len(ledger')
                      /\ ledger'[events[e].snapshot].key = events[e].key
    BY DEF EventsAreFounded
  <2>1. /\ events[e].snapshot \in snapshots /\ events[e].snapshot \in 1 .. Len(ledger)
        /\ ledger[events[e].snapshot].key = events[e].key
    BY DEF Trail, EventsAreFounded
  <2>2. events[e].snapshot \in snapshots'
    BY <2>1, RowIsPrivate
  <2>3. QED
    BY <1>0, <2>1, <2>2 DEF LedgerKept
<1>3. RestoresNameApplies'
  BY DEF Trail, RestoresNameApplies, AppliesRun
<1>4. RecordsBacked'
  <2> SUFFICES ASSUME NEW k \in Key, records'[k].result = "changed"
               PROVE  \E i \in 1 .. Len(ledger') :
                         /\ ledger'[i].key = k /\ ledger'[i].status = "succeeded"
                         /\ ledger'[i].event \in 1 .. Len(events) /\ events[ledger'[i].event].key = k
    BY DEF RecordsBacked
  <2>1. PICK i \in 1 .. Len(ledger) :
           /\ ledger[i].key = k /\ ledger[i].status = "succeeded"
           /\ ledger[i].event \in 1 .. Len(events) /\ events[ledger[i].event].key = k
    <3>1. CASE records[k].result = "changed"
      BY <3>1 DEF Trail, RecordsBacked
    <3>2. CASE k = KeyOf(p) /\ proc[p].pc = "record" /\ proc[p].result = "changed"
      <4>1. proc[p].row \in 1 .. Len(ledger) /\ ledger[proc[p].row].key = k
        BY <3>2 DEF Inv, OwnRow, RowSteps
      <4>2. Own(proc[p], ledger, snapshots, events)
        BY DEF Trail
      <4>3. QED
        BY <3>2, <4>1, <4>2 DEF Own, KeyOf
    <3>3. QED
      BY <3>1, <3>2
  <2>2. ledger'[i] = ledger[i] /\ i \in 1 .. Len(ledger')
    BY <1>0, <2>1 DEF LedgerKept
  <2>3. QED
    BY <2>1, <2>2
<1>5. QED
  BY <1>1, <1>2, <1>3, <1>4 DEF Trail

\* recordOptimizeMutationEvent: the new event has the snapshot and the row of its
\* attempt, and undoes the apply its command has found.
LEMMA EventTrail ==
    ASSUME Inv, Trail, NEW p \in Proc, recordOptimizeMutationEvent(p)
    PROVE  Trail'
<1> DEFINE new == [key |-> KeyOf(p), before |-> proc[p].seen, after |-> proc[p].after,
                   snapshot |-> proc[p].row, parent |-> proc[p].point]
           r == [proc[p] EXCEPT !.pc = "complete", !.event = Len(events')]
<1>0. /\ TypeOK /\ proc[p].pc = "event" /\ events' = Append(events, new)
      /\ proc' = [proc EXCEPT ![p] = r] /\ UNCHANGED <<records, ledger, snapshots>>
  BY DEF recordOptimizeMutationEvent, At, Inv
<1>1. /\ events \in Seq(Event) /\ Len(events) \in Nat /\ Len(ledger) \in Nat
  BY <1>0 DEF TypeOK
<1>2. /\ new.key = KeyOf(p) /\ new.snapshot = proc[p].row /\ new.parent = proc[p].point
      /\ new.before = proc[p].seen
  OBVIOUS
<1>3. proc[p] \in Process
  BY <1>0 DEF TypeOK
<1>4. r.pc = "complete" /\ r.key = KeyOf(p) /\ r.event = Len(events')
  BY <1>3 DEF Process, KeyOf
<1> HIDE DEF new, r
<1>5. /\ Len(events') = Len(events) + 1 /\ events'[Len(events')] = new
      /\ \A e \in 1 .. Len(events) : events'[e] = events[e]
  BY <1>0, <1>1
<1>6. proc'[p] = r /\ \A q \in Proc : q # p => proc'[q] = proc[q]
  BY <1>0 DEF TypeOK
<1>7. /\ Own(proc[p], ledger, snapshots, events)
      /\ proc[p].row \in 1 .. Len(ledger) /\ ledger[proc[p].row].key = KeyOf(p)
  BY <1>0 DEF Trail, Inv, OwnRow, RowSteps
<1>8. ASSUME NEW q \in Proc PROVE Own(proc'[q], ledger', snapshots', events')
  <2>1. CASE q = p
    <3>1. proc'[q] = r
      BY <1>6, <2>1
    <3>2. r.event \in 1 .. Len(events') /\ events'[r.event].key = r.key
      BY <1>1, <1>2, <1>4, <1>5
    <3>3. Own(r, ledger', snapshots', events')
      BY <1>4, <3>2 DEF Own, PointSteps, BeforeEvent
    <3>4. QED
      BY <3>1, <3>3
  <2>2. CASE q # p
    <3>1. proc'[q] = proc[q] /\ Own(proc[q], ledger, snapshots, events)
      BY <1>6, <2>2 DEF Trail
    <3>2. proc[q].pc \in BeforeEvent => new.key # proc[q].key
      <4>1. proc[q].pc \in BeforeEvent => Executing(q)
        BY DEF BeforeEvent, Executing, At
      <4>2. Executing(p)
        BY <1>0 DEF Executing, At
      <4>3. QED
        BY <1>2, <2>2, <4>1, <4>2 DEF Inv, ExecutedAtMostOnce, KeyOf
    <3>3. proc[q].pc \in BeforeEvent =>
             \A e \in 1 .. Len(events') : e > Len(events) => events'[e].key # proc[q].key
      BY <1>1, <1>5, <3>2
    <3>4. proc[q].pc \in PointSteps /\ proc[q].key.op = "restore" => proc[q].point \in 1 .. Len(events)
      BY DEF Inv, PointIsEvent, PointSteps, KeyOf
    <3>5. Len(events') \in Nat /\ Len(events) <= Len(events')
      BY <1>1, <1>5
    <3>6. ledger' = ledger /\ snapshots' = snapshots
      BY <1>0
    <3>7. Own(proc[q], ledger, snapshots, events')
      BY <1>1, <1>5, <3>1, <3>3, <3>4, <3>5, OwnKept
    <3>8. QED
      BY <3>1, <3>6, <3>7
  <2>3. QED
    BY <2>1, <2>2
<1>9. EventsAreFounded'
  <2> SUFFICES ASSUME NEW e \in 1 .. Len(events')
               PROVE  /\ events'[e].snapshot \in snapshots /\ events'[e].snapshot \in 1 .. Len(ledger)
                      /\ ledger[events'[e].snapshot].key = events'[e].key
    BY <1>0 DEF EventsAreFounded
  <2>1. CASE e \in 1 .. Len(events)
    BY <1>5, <2>1 DEF Trail, EventsAreFounded
  <2>2. CASE e = Len(events')
    BY <1>0, <1>2, <1>5, <1>7, <2>2 DEF Own
  <2>3. QED
    BY <1>1, <1>5, <2>1, <2>2
<1>10. RestoresNameApplies'
  <2> SUFFICES ASSUME NEW e \in 1 .. Len(events'), events'[e].key.op = "restore"
               PROVE  /\ events'[e].parent \in 1 .. (e - 1)
                      /\ events'[events'[e].parent].key.op = "apply"
                      /\ events'[events'[e].parent].key.run = events'[e].key.run
                      /\ events'[e].before = events'[events'[e].parent].after
    BY DEF RestoresNameApplies, AppliesRun
  <2>1. CASE e \in 1 .. Len(events)
    <3>1. events'[e] = events[e]
      BY <1>5, <2>1
    <3>2. /\ events[e].parent \in 1 .. (e - 1)
          /\ events[events[e].parent].key.op = "apply"
          /\ events[events[e].parent].key.run = events[e].key.run
          /\ events[e].before = events[events[e].parent].after
      BY <2>1, <3>1 DEF Trail, RestoresNameApplies, AppliesRun
    <3>3. events'[events[e].parent] = events[events[e].parent]
      BY <1>1, <1>5, <2>1, <3>2
    <3>4. QED
      BY <3>1, <3>2, <3>3
  <2>2. CASE e = Len(events')
    <3>1. events'[e] = new /\ KeyOf(p).op = "restore"
      BY <1>2, <1>5, <2>2
    <3>2. proc[p].point \in 1 .. Len(events)
      BY <1>0, <3>1 DEF Inv, PointIsEvent
    <3>3. /\ events[proc[p].point].key.op = "apply" /\ events[proc[p].point].key.run = KeyOf(p).run
          /\ proc[p].seen = events[proc[p].point].after
      BY <1>0, <1>7, <3>1 DEF Own, PointSteps, KeyOf
    <3>5. events'[proc[p].point] = events[proc[p].point] /\ proc[p].point \in 1 .. (e - 1)
      BY <1>1, <1>5, <2>2, <3>2
    <3>6. QED
      BY <1>2, <3>1, <3>3, <3>5
  <2>3. QED
    BY <1>1, <1>5, <2>1, <2>2
<1>11. RecordsBacked'
  BY <1>0, <1>1, <1>5 DEF Trail, RecordsBacked
<1>12. QED
  BY <1>8, <1>9, <1>10, <1>11 DEF Trail

\* Every step keeps the trail.
LEMMA StepTrail == Inv /\ Trail /\ [Next]_vars => Trail'
<1> SUFFICES ASSUME Inv, Trail, [Next]_vars PROVE Trail'
  OBVIOUS
<1>0. TypeOK /\ OwnRow /\ RowIsOpen /\ Len(ledger) \in Nat
  BY DEF Inv, TypeOK
<1>a. ASSUME NEW p \in Proc, OthersStay(p), UNCHANGED store, Own(proc'[p], ledger, snapshots, events)
      PROVE  Trail'
  <2>1. LedgerKept
    BY <1>a, <1>0 DEF LedgerKept, store
  <2>2. QED
    BY <1>a, <1>0, <2>1, KeptTrail DEF store
<1>b. ASSUME NEW p \in Proc, ~At(p, "idle"), NEW pc \in {"fail", "failRecord"}, Goto(p, pc), UNCHANGED store
      PROVE  Trail'
  <2>1. OthersStay(p) /\ proc'[p].pc = pc
    BY <1>b, <1>0, GotoStep DEF Step
  <2>2. Own(proc'[p], ledger, snapshots, events)
    BY <2>1, OwnNothing
  <2>3. QED
    BY <1>a, <1>b, <2>1, <2>2
<1>c. ASSUME NEW p \in Proc, NEW a, Answer(p, a), UNCHANGED store PROVE Trail'
  <2>1. OthersStay(p) /\ proc'[p].pc = "idle"
    BY <1>c, <1>0, AnswerStep
  <2>2. QED
    BY <1>a, <1>c, <2>1, OwnNothing
<1>d. ASSUME NEW p \in Proc, ~At(p, "idle"), CatchError(p), UNCHANGED store PROVE Trail'
  <2>1. /\ OthersStay(p) /\ proc'[p].pc = proc[p].pc /\ proc'[p].key = proc[p].key
        /\ proc'[p].row = proc[p].row /\ proc'[p].point = proc[p].point
        /\ proc'[p].event = proc[p].event /\ proc'[p].result = proc[p].result
        /\ proc'[p].seen = proc[p].seen
    BY <1>d, <1>0, CatchStep
  <2>2. Own(proc'[p], ledger, snapshots, events)
    BY <2>1 DEF Trail, Own
  <2>3. QED
    BY <1>a, <1>d, <2>1, <2>2
<1>e. ASSUME NEW p \in Proc, NEW r \in Process, proc' = [proc EXCEPT ![p] = r]
      PROVE  OthersStay(p) /\ proc'[p] = r
  BY <1>e, <1>0 DEF TypeOK, OthersStay
<1>f. ASSUME NEW p \in Proc
      PROVE  /\ proc[p] \in Process /\ proc[p].row \in Nat /\ proc[p].event \in Nat /\ proc[p].point \in Nat
             /\ Own(proc[p], ledger, snapshots, events)
  BY <1>0 DEF TypeOK, Process, Trail
<1>g. ASSUME NEW p \in Proc, proc[p].pc \in OpenSteps,
             NEW st \in {"succeeded", "noop", "dry_run_succeeded", "failed"}, NEW ev \in Nat,
             \/ ledger' = [ledger EXCEPT ![proc[p].row].status = st]
             \/ ledger' = [ledger EXCEPT ![proc[p].row].status = st, ![proc[p].row].event = ev]
      PROVE  LedgerKept /\ Len(ledger') \in Nat
  <2>1. proc[p].row \in 1 .. Len(ledger) /\ ledger[proc[p].row].status = "started"
    BY <1>g, <1>0 DEF OwnRow, RowIsOpen, OpenSteps
  <2>2. /\ Len(ledger') = Len(ledger)
        /\ \A j \in 1 .. Len(ledger) : /\ ledger'[j].key = ledger[j].key
                                       /\ j # proc[p].row => ledger'[j] = ledger[j]
    <3>1. ledger \in Seq(LedgerRow)
      BY <1>0 DEF TypeOK
    <3>2. CASE ledger' = [ledger EXCEPT ![proc[p].row].status = st]
      BY <2>1, <3>1, <3>2, StatusFinished
    <3>3. CASE ledger' = [ledger EXCEPT ![proc[p].row].status = st, ![proc[p].row].event = ev]
      BY <2>1, <3>1, <3>3, StatusFinished
    <3>4. QED
      BY <1>g, <3>2, <3>3
  <2>3. QED
    BY <1>0, <2>1, <2>2 DEF LedgerKept
<1>1. ASSUME NEW p \in Proc, NEW k \in Key, IssueCommand(p, k) PROVE Trail'
  <2> DEFINE r == [Idle EXCEPT !.pc = "accept", !.key = k, !.seen = catalog]
  <2>1. proc' = [proc EXCEPT ![p] = r] /\ UNCHANGED store
    BY <1>1 DEF IssueCommand
  <2>2. r \in Process /\ r.pc = "accept"
    BY <1>0 DEF Idle, Process, Step, TypeOK
  <2> HIDE DEF r
  <2>3. QED
    BY <1>a, <1>e, <2>1, <2>2, OwnNothing
<1>2. ASSUME NEW p \in Proc, accept(p) PROVE Trail'
  <2>1. CASE records[KeyOf(p)] # NoRecord
    <3>1. UNCHANGED store /\ \E a : Answer(p, a)
      BY <1>2, <2>1 DEF accept, store
    <3>2. QED
      BY <1>c, <3>1
  <2>2. CASE records[KeyOf(p)] = NoRecord
    <3>1. /\ ~At(p, "idle") /\ Goto(p, "start") /\ UNCHANGED <<ledger, snapshots, events>>
          /\ records' = [records EXCEPT ![KeyOf(p)] = [status |-> "accepted", result |-> None]]
      BY <1>2, <2>2 DEF accept, At
    <3>2. OthersStay(p) /\ proc'[p].pc = "start" /\ proc'[p].key = proc[p].key
      BY <1>0, <3>1, GotoStep DEF Step
    <3>3. \A e \in 1 .. Len(events) : events[e].key # KeyOf(p)
      BY <2>2 DEF Trail, EventsAreFounded, Inv, RowsHaveRecords, NoRecord
    <3>4. Own(proc'[p], ledger', snapshots', events)
      BY <3>2, <3>3 DEF Own, PointSteps, KeyOf
    <3>5. \A k \in Key : records'[k].result = "changed" => records[k].result = "changed"
      BY <1>0, <3>1, NoneAssumption DEF TypeOK, Result
    <3>6. LedgerKept
      BY <1>0, <3>1 DEF LedgerKept
    <3>7. QED
      BY <1>0, <3>1, <3>2, <3>4, <3>5, <3>6, KeptTrail
  <2>3. QED
    BY <2>1, <2>2
<1>3. ASSUME NEW p \in Proc, complete(p) PROVE Trail'
  <2>1. /\ proc[p].pc = "record" /\ UNCHANGED <<ledger, snapshots, events>>
        /\ OthersStay(p) /\ proc'[p].pc = "idle"
    BY <1>3, <1>0, AnswerStep DEF complete, At
  <2>2. \A k \in Key : /\ k # KeyOf(p) => records'[k] = records[k]
                       /\ k = KeyOf(p) => records'[k].result = proc[p].result
    BY <1>3, <1>0 DEF complete, TypeOK, Record, NoRecord
  <2>3. LedgerKept /\ Own(proc'[p], ledger', snapshots', events)
    BY <1>0, <2>1, OwnNothing DEF LedgerKept
  <2>4. QED
    BY <1>0, <2>1, <2>2, <2>3, KeptTrail
<1>4. ASSUME NEW p \in Proc, CompleteThrows(p) PROVE Trail'
  <2>1. ~At(p, "idle") /\ UNCHANGED store
    BY <1>4 DEF CompleteThrows, At
  <2>2. QED
    BY <1>4, <1>b, <1>c, <1>d, <2>1 DEF CompleteThrows, CompletionThrows
<1>5. ASSUME NEW p \in Proc, fail(p) PROVE Trail'
  <2>1. OthersStay(p) /\ proc'[p].pc = "idle" /\ UNCHANGED <<ledger, snapshots, events>>
    BY <1>5, <1>0, AnswerStep DEF fail
  <2>2. \A k \in Key : records'[k].result = records[k].result
    BY <1>5, <1>0 DEF fail, TypeOK, Record, NoRecord
  <2>3. LedgerKept /\ Own(proc'[p], ledger', snapshots', events)
    BY <1>0, <2>1, OwnNothing DEF LedgerKept
  <2>4. QED
    BY <1>0, <2>1, <2>2, <2>3, KeptTrail
<1>6. ASSUME NEW p \in Proc, recordOptimizeControlPlaneActionStarted(p) PROVE Trail'
  <2> DEFINE r == [proc[p] EXCEPT !.pc = "check", !.row = Len(ledger')]
  <2>1. /\ proc[p].pc = "start" /\ UNCHANGED <<records, snapshots, events>> /\ proc' = [proc EXCEPT ![p] = r]
        /\ ledger' = Append(ledger, [key |-> KeyOf(p), status |-> "started", event |-> 0])
    BY <1>6 DEF recordOptimizeControlPlaneActionStarted, At
  <2>2. Len(ledger') = Len(ledger) + 1 /\ Len(ledger') \in Nat /\ LedgerKept
    BY <1>0, <2>1 DEF TypeOK, LedgerKept
  <2>3. r \in Process /\ r.pc = "check" /\ r.key = proc[p].key
    BY <1>f, <2>2 DEF Process, Step
  <2> HIDE DEF r
  <2>4. OthersStay(p) /\ proc'[p] = r
    BY <1>e, <2>1, <2>3
  <2>5. Own(proc'[p], ledger', snapshots', events)
    BY <1>f, <2>1, <2>3, <2>4 DEF Own, PointSteps, BeforeEvent
  <2>6. QED
    BY <2>1, <2>2, <2>4, <2>5, KeptTrail
<1>7. ASSUME NEW p \in Proc, \/ StartThrows(p) \/ ChecksRefuse(p) \/ SnapshotThrows(p) \/ EventThrows(p)
                             \/ FailMutationThrows(p)
      PROVE  Trail'
  <2>1. ~At(p, "idle") /\ UNCHANGED store /\ \E pc \in {"fail", "failRecord"} : Goto(p, pc)
    BY <1>7 DEF StartThrows, ChecksRefuse, SnapshotThrows, EventThrows, FailMutationThrows, At
  <2>2. QED
    BY <1>b, <2>1
<1>8. ASSUME NEW p \in Proc, ChecksPass(p) PROVE Trail'
  <2>1. /\ proc[p].pc = "check" /\ proc[p].pc \in OpenSteps /\ proc[p].pc \in BeforeEvent
        /\ UNCHANGED <<records, snapshots, events>>
    BY <1>8 DEF ChecksPass, At, RowSteps, OpenSteps, BeforeEvent
  <2>2. PICK e \in 0 .. Len(events), pc \in {"record", "snapshot", "complete"}, res \in Result :
          /\ RestorePoint(p, e) /\ (pc # "snapshot" => res # "changed")
          /\ proc' = [proc EXCEPT ![p].pc = pc, ![p].point = e, ![p].result = res]
          /\ \/ ledger' = [ledger EXCEPT ![proc[p].row].status = "dry_run_succeeded"]
             \/ UNCHANGED ledger
    BY <1>8 DEF ChecksPass, Result
  <2> DEFINE r == [proc[p] EXCEPT !.pc = pc, !.point = e, !.result = res]
  <2>3. e \in Nat
    BY <1>0 DEF TypeOK
  <2>4. /\ r \in Process /\ r.pc = pc /\ r.key = KeyOf(p) /\ r.point = e /\ r.result = res
        /\ r.seen = proc[p].seen
    BY <1>f, <2>3 DEF Process, Step, KeyOf
  <2>5. proc' = [proc EXCEPT ![p] = r]
    BY <2>2
  <2> HIDE DEF r
  <2>6. OthersStay(p) /\ proc'[p] = r
    BY <1>e, <2>4, <2>5
  <2>7. LedgerKept /\ Len(ledger') \in Nat
    <3>1. CASE UNCHANGED ledger
      BY <1>0, <3>1 DEF LedgerKept
    <3>2. CASE ledger' = [ledger EXCEPT ![proc[p].row].status = "dry_run_succeeded"]
      BY <1>g, <2>1, <3>2
    <3>3. QED
      BY <2>2, <3>1, <3>2
  <2>8. Own(r, ledger', snapshots', events)
    <3>1. CASE pc = "snapshot"
      <4>1. KeyOf(p).op = "restore" =>
               /\ events[e].key.op = "apply" /\ events[e].key.run = KeyOf(p).run
               /\ proc[p].seen = events[e].after
        BY <2>2 DEF RestorePoint, findOptimizeApplyRestorePoints
      <4>2. \A i \in 1 .. Len(events) : events[i].key # KeyOf(p)
        BY <1>f, <2>1 DEF Own, KeyOf
      <4>3. QED
        BY <2>4, <3>1, <4>1, <4>2 DEF Own, PointSteps
    <3>2. CASE pc # "snapshot"
      BY <2>2, <2>4, <3>2, OwnNothing
    <3>3. QED
      BY <3>1, <3>2
  <2>9. QED
    BY <2>1, <2>6, <2>7, <2>8, KeptTrail
<1>9. ASSUME NEW p \in Proc, createOptimizeConfigSnapshot(p) PROVE Trail'
  <2>1. /\ proc[p].pc = "snapshot" /\ ~At(p, "idle") /\ Goto(p, "write")
        /\ snapshots' = snapshots \cup {proc[p].row} /\ UNCHANGED <<records, ledger, events>>
    BY <1>9 DEF createOptimizeConfigSnapshot, At
  <2>2. /\ OthersStay(p) /\ proc'[p].pc = "write" /\ proc'[p].key = proc[p].key
        /\ proc'[p].row = proc[p].row /\ proc'[p].point = proc[p].point
        /\ proc'[p].seen = proc[p].seen
    BY <1>0, <2>1, GotoStep DEF Step
  <2>3. Own(proc'[p], ledger', snapshots', events)
    BY <1>f, <2>1, <2>2 DEF Own, PointSteps, BeforeEvent
  <2>4. LedgerKept
    BY <1>0, <2>1 DEF LedgerKept
  <2>5. QED
    BY <1>0, <2>1, <2>2, <2>3, <2>4, KeptTrail
<1>10. ASSUME NEW p \in Proc, updateRouteProviderTarget(p) PROVE Trail'
  <2>1. proc[p].pc = "write" /\ ~At(p, "idle") /\ UNCHANGED store /\ Goto(p, "reread")
    BY <1>10 DEF updateRouteProviderTarget, At
  <2>2. /\ OthersStay(p) /\ proc'[p].pc = "reread" /\ proc'[p].key = proc[p].key
        /\ proc'[p].row = proc[p].row /\ proc'[p].point = proc[p].point
        /\ proc'[p].seen = proc[p].seen
    BY <1>0, <2>1, GotoStep DEF Step
  <2>3. Own(proc'[p], ledger, snapshots, events)
    BY <1>f, <2>1, <2>2 DEF Own, PointSteps, BeforeEvent
  <2>4. QED
    BY <1>a, <2>1, <2>2, <2>3
<1>11. ASSUME NEW p \in Proc, UpdateThrows(p) PROVE Trail'
  <2>1. /\ proc[p].pc = "write" /\ ~At(p, "idle") /\ Goto(p, "fail")
        /\ snapshots' \in {snapshots, snapshots \ {proc[p].row}} /\ UNCHANGED <<records, ledger, events>>
    BY <1>11 DEF UpdateThrows, At
  <2>2. OthersStay(p) /\ proc'[p].pc = "fail"
    BY <1>0, <2>1, GotoStep DEF Step
  <2>3. LedgerKept /\ Own(proc'[p], ledger', snapshots', events)
    BY <1>0, <2>1, <2>2, OwnNothing DEF LedgerKept
  <2>4. QED
    BY <1>0, <2>1, <2>2, <2>3, KeptTrail
<1>12. ASSUME NEW p \in Proc, recordOptimizeMutationEvent(p) PROVE Trail'
  BY <1>12, EventTrail
<1>13. ASSUME NEW p \in Proc, AnswerUncompleted(p) PROVE Trail'
  BY <1>13, <1>c DEF AnswerUncompleted
<1>14. ASSUME NEW p \in Proc, PostActionThrows(p) PROVE Trail'
  BY <1>14, <1>d DEF PostActionThrows, At
<1>15. ASSUME NEW p \in Proc, CompleteLedgerThrows(p) PROVE Trail'
  BY <1>15, <1>c, <1>d DEF CompleteLedgerThrows, CompletionThrows, At
<1>16. ASSUME NEW p \in Proc, completeLedger(p) PROVE Trail'
  <2> DEFINE st == IF proc[p].result = "changed" THEN "succeeded" ELSE "noop"
  <2>1. /\ proc[p].pc = "complete" /\ proc[p].pc \in OpenSteps /\ ~At(p, "idle") /\ Goto(p, "record")
        /\ UNCHANGED <<records, snapshots, events>>
        /\ ledger' = [ledger EXCEPT ![proc[p].row].status = st, ![proc[p].row].event = proc[p].event]
    BY <1>16 DEF completeLedger, At, RowSteps, OpenSteps
  <2>2. /\ OthersStay(p) /\ proc'[p].pc = "record" /\ proc'[p].key = proc[p].key
        /\ proc'[p].row = proc[p].row /\ proc'[p].result = proc[p].result
    BY <1>0, <2>1, GotoStep DEF Step
  <2>3. st \in {"succeeded", "noop"} /\ (proc[p].result = "changed" => st = "succeeded")
    OBVIOUS
  <2> HIDE DEF st
  <2>4. LedgerKept /\ Len(ledger') \in Nat
    BY <1>f, <1>g, <2>1, <2>3
  <2>5. ledger'[proc[p].row].status = st /\ ledger'[proc[p].row].event = proc[p].event
    <3>1. proc[p].row \in 1 .. Len(ledger) /\ ledger[proc[p].row] \in LedgerRow
      BY <1>0, <2>1 DEF TypeOK, OwnRow, OpenSteps
    <3>2. QED
      BY <1>0, <2>1, <3>1 DEF TypeOK, LedgerRow
  <2>6. Own(proc'[p], ledger', snapshots', events)
    BY <1>f, <2>1, <2>2, <2>3, <2>5, ZenonT(60) DEF Own, PointSteps, BeforeEvent
  <2>7. QED
    BY <2>1, <2>2, <2>4, <2>6, KeptTrail
<1>17. ASSUME NEW p \in Proc, failMutation(p) PROVE Trail'
  <2> DEFINE r == [proc[p] EXCEPT !.pc = "record", !.result = "refused"]
  <2>1. /\ proc[p].pc \in OpenSteps /\ UNCHANGED <<records, snapshots, events>>
        /\ proc' = [proc EXCEPT ![p] = r]
        /\ ledger' = [ledger EXCEPT ![proc[p].row].status = "failed"]
    BY <1>17 DEF failMutation, At, RowSteps, OpenSteps
  <2>2. r \in Process /\ r.pc = "record" /\ r.result = "refused"
    BY <1>f DEF Process, Step, Result
  <2> HIDE DEF r
  <2>3. OthersStay(p) /\ proc'[p] = r
    BY <1>e, <2>1, <2>2
  <2>4. LedgerKept /\ Len(ledger') \in Nat
    BY <1>g, <2>1
  <2>5. Own(proc'[p], ledger', snapshots', events)
    BY <2>2, <2>3, OwnNothing
  <2>6. QED
    BY <2>1, <2>3, <2>4, <2>5, KeptTrail
<1>18. ASSUME NEW p \in Proc, Crash(p) PROVE Trail'
  <2>1. Idle \in Process /\ Idle.pc = "idle"
    BY DEF Idle, Process, Step
  <2>2. OthersStay(p) /\ proc'[p] = Idle /\ UNCHANGED store
    BY <1>18, <1>e, <2>1 DEF Crash
  <2>3. QED
    BY <1>a, <2>1, <2>2, OwnNothing
<1>19. ASSUME UNCHANGED <<store, proc>> PROVE Trail'
  BY <1>19 DEF store, Trail, EventsAreFounded, RestoresNameApplies, AppliesRun, RecordsBacked
<1>20. ASSUME NEW v \in Provider, RouteEdited(v) PROVE Trail'
  BY <1>19, <1>20 DEF RouteEdited
<1>21. CASE UNCHANGED vars
  BY <1>19, <1>21 DEF vars
<1>22. ASSUME NEW p \in Proc, loadReadModel(p) PROVE Trail'
  <2>1. PICK v \in {catalog, Target(KeyOf(p), proc[p].point)} :
           proc' = [proc EXCEPT ![p].pc = "event", ![p].after = v]
    BY <1>22 DEF loadReadModel
  <2> DEFINE r == [proc[p] EXCEPT !.pc = "event", !.after = v]
  <2>2. proc[p].pc = "reread" /\ UNCHANGED store /\ proc' = [proc EXCEPT ![p] = r]
    BY <1>22, <2>1 DEF loadReadModel, At
  <2>3. /\ r.pc = "event" /\ r.key = proc[p].key /\ r.row = proc[p].row
        /\ r.point = proc[p].point /\ r.seen = proc[p].seen
    BY <1>f DEF Process
  <2> HIDE DEF r
  <2>4. OthersStay(p) /\ proc'[p] = r
    BY <1>0, <2>2 DEF TypeOK, OthersStay
  <2>5. Own(proc'[p], ledger, snapshots, events)
    BY <1>f, <2>2, <2>3, <2>4 DEF Own, PointSteps, BeforeEvent
  <2>6. QED
    BY <1>a, <2>2, <2>4, <2>5
<1>23. QED
  BY <1>1, <1>2, <1>3, <1>4, <1>5, <1>6, <1>7, <1>8, <1>9, <1>10, <1>11, <1>12, <1>13, <1>14,
     <1>15, <1>16, <1>17, <1>18, <1>20, <1>21, <1>22, CommandAssumption DEF Next

\* There is no trail to keep initially.
LEMMA InitTrail == Init => Trail
<1> SUFFICES ASSUME Init PROVE Trail
  OBVIOUS
<1>1. \A p \in Proc : proc[p].pc = "idle"
  BY DEF Init, Idle
<1>2. \A p \in Proc : Own(proc[p], ledger, snapshots, events)
  BY <1>1, OwnNothing
<1>3. \A k \in Key : records[k].result # "changed"
  BY NoneAssumption DEF Init, NoRecord, Result
<1>4. EventsAreFounded /\ RestoresNameApplies
  BY DEF Init, EventsAreFounded, RestoresNameApplies
<1>5. QED
  BY <1>2, <1>3, <1>4 DEF Trail, RecordsBacked

\* A reachable state has its trail.
LEMMA TrailHolds == Spec => [](Inv /\ Trail)
<1>1. Inv /\ Trail /\ [Next]_vars => (Inv /\ Trail)'
  BY StepInv, StepTrail
<1>2. QED
  BY <1>1, InitInv, InitTrail, PTL DEF Spec

\* A command whose record will replay "changed" really changed the route: its ledger
\* row succeeded and names a mutation event of the command, and the snapshot of that
\* event is stored.  No crash, failed statement or second process between the catalog
\* write of runOptimizeApplyMutation and the deferred completion undoes that.
THEOREM ChangedIsBacked == Spec => []SuccessIsBacked
<1>1. Inv /\ Trail => SuccessIsBacked
  BY DEF Trail, RecordsBacked, EventsAreFounded, SuccessIsBacked
<1>2. QED
  BY <1>1, TrailHolds, PTL

\* What a restore writes is what the apply of its restore point had found.
LEMMA RestoreWrites == Inv /\ Trail /\ [Next]_vars => [\A p \in Proc : WritesBack(p)]_vars
<1> SUFFICES ASSUME Inv, Trail, [Next]_vars, NEW p \in Proc,
                    proc[p].pc = "write", proc'[p] # proc[p], KeyOf(p).op = "restore", catalog' # catalog
             PROVE  \E e \in 1 .. Len(events) :
                        /\ AppliesRun(e, KeyOf(p).run)
                        /\ proc[p].seen = events[e].after /\ catalog' = events[e].before
  BY DEF WritesBack, At
<1> DEFINE e == proc[p].point
<1>1. e \in 1 .. Len(events)
  BY DEF Inv, PointIsEvent
<1>2. AppliesRun(e, KeyOf(p).run) /\ proc[p].seen = events[e].after
  BY DEF Trail, Own, PointSteps, KeyOf, AppliesRun
<1>3. catalog' = Target(KeyOf(p), e)
  <2>1. ASSUME NEW q \in Proc, updateRouteProviderTarget(q) \/ UpdateThrows(q)
        PROVE  catalog' = Target(KeyOf(q), proc[q].point) /\ \A v \in Proc : v # q => proc'[v] = proc[v]
    BY <2>1 DEF updateRouteProviderTarget, UpdateThrows, Goto, Inv, TypeOK
  <2>2. \E q \in Proc : updateRouteProviderTarget(q) \/ UpdateThrows(q)
    BY DEF Next, vars, IssueCommand, accept, complete, CompleteThrows, fail,
       recordOptimizeControlPlaneActionStarted, StartThrows, ChecksPass, ChecksRefuse,
       createOptimizeConfigSnapshot, SnapshotThrows, loadReadModel, recordOptimizeMutationEvent,
       EventThrows, AnswerUncompleted, PostActionThrows, completeLedger, CompleteLedgerThrows,
       failMutation, FailMutationThrows, Crash, RouteEdited
  <2>3. QED
    BY <2>1, <2>2
<1>4. QED
  BY <1>1, <1>2, <1>3 DEF Target

\* The event of a restore names an earlier apply of its own run, and found the route as
\* that apply's event had left it; and updateRouteProviderTarget puts back the provider
\* that the apply had found, also when the restore then fails.  So it is whatever other
\* commands and edits did between the look at the restore point, the write, the second
\* loadReadModel and the event.
THEOREM RestoresAreInverse == Spec => RestoresUndoApplies
<1>1. Trail => RestoresNameApplies
  BY DEF Trail
<1>2. QED
  BY <1>1, TrailHolds, RestoreWrites, PTL DEF Spec, RestoresUndoApplies

\* A command is executed at most once however often, by however many processes and
\* across whatever crashes and failed statements it is issued: the promise of the
\* idempotency record accepted before runOptimizeApplyMutation is called.
THEOREM CommandExecutedOnce == Spec => [](TypeOK /\ ExecutedAtMostOnce)
<1>1. Spec => []Inv
  BY InitInv, StepInv, PTL DEF Spec
<1>2. Inv => TypeOK /\ ExecutedAtMostOnce
  BY DEF Inv
<1>3. QED
  BY <1>1, <1>2, PTL

\* A completed or failed idempotency record, and a finished row of the ledger, are
\* never written again, by any process.
THEOREM RecordedOutcomesAreFinal == Spec => OutcomesAreFinal
<1>1. Inv /\ [Next]_vars => [FinalStep]_vars
  BY StepOnce
<1>2. Spec => []Inv
  BY InitInv, StepInv, PTL DEF Spec
<1>3. QED
  BY <1>1, <1>2, PTL DEF Spec, OutcomesAreFinal, FinalStep
===============================================================================
