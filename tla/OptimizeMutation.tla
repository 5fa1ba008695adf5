--------------------------- MODULE OptimizeMutation ---------------------------
(***************************************************************************)
(* "optimize apply" and "optimize restore" as the CLI and the MCP server   *)
(* run them: the idempotency record that lets a command through once, the  *)
(* ledger row of the attempt, the snapshot, the catalog write, the         *)
(* mutation event that later is a restore point, and the deferred          *)
(* completion after reload and verification.                               *)
(*                                                                         *)
(* Every step is one statement on the SQLite store or one locked rewrite   *)
(* of the catalog.  A process may die between any two, a statement may     *)
(* fail, and a command may be issued again by any process.  One target     *)
(* route is kept, and of it the provider, which stands for the three       *)
(* fields that are rewritten together; a run is named by the provider it   *)
(* recommends.  A restore is selected by run and route.                    *)
(***************************************************************************)
EXTENDS Naturals, Sequences, FiniteSets

CONSTANTS
    Proc,        \* processes that issue commands: CLI invocations and MCP servers
    Mcp,         \* those of them that are MCP servers
    Provider,    \* the providers the target route may use
    Run,         \* completed optimization runs
    Flags,       \* the values of the flags --dry-run, --reload and --verify
    DryRun,      \* those of them with --dry-run
    Plain,       \* those of them with neither --reload nor --verify
    Command,     \* the commands that are issued
    MaxAttempts, \* bound: commands issued and edits of the route
    None         \* no record, no answer

ASSUME OptimizeAssumption ==
    /\ Run \subseteq Provider
    /\ Mcp \subseteq Proc
    /\ DryRun \subseteq Flags /\ Plain \subseteq Flags
    /\ MaxAttempts \in Nat

\* The idempotency key is derived from the command itself.  Its digest also covers
\* who issued it, and from where: whether the digests of two commands with the same
\* key agree is left open.
Key == [op : {"apply", "restore"}, run : Run, flags : Flags]

ASSUME CommandAssumption == Command \subseteq Key

VARIABLES
    catalog,   \* the provider of the target route in catalog.json
    records,   \* optimize_mutation_idempotency
    ledger,    \* control_plane_action_events
    snapshots, \* config_snapshots, named by the ledger row of their attempt
    events,    \* config_mutation_events
    proc,      \* what each process is doing
    issued     \* commands issued and edits made so far

store == <<records, ledger, snapshots, events>>
vars  == <<catalog, store, proc, issued>>

Result == {"changed", "unchanged", "refused"}

ASSUME NoneAssumption == None \notin Result

NoRecord == [status |-> "none", result |-> None]
Record   == [status : {"accepted", "completed", "failed"}, result : Result \cup {None}]

LedgerRow == [key : Key, status : {"started", "succeeded", "noop", "dry_run_succeeded", "failed"},
              event : Nat]

\* parent: the apply event a restore undoes; 0 is no event.
Event == [key : Key, before : Provider, after : Provider, snapshot : Nat, parent : Nat]

Step == {"idle", "accept", "start", "check", "snapshot", "write", "reread", "event",
         "complete", "record", "fail", "failRecord"}

\* seen: the route in the read model the command began with; row: the ledger row of the
\* attempt; point: the restore point; after: the route in the read model that is loaded
\* after the catalog was written; threw: whether the caller caught an error after the mutation,
\* which it will report whatever becomes of the completion.
Process == [pc : Step, key : Key \cup {None}, seen : Provider \cup {None}, row : Nat, point : Nat,
            event : Nat, after : Provider \cup {None}, threw : BOOLEAN,
            result : Result \cup {None}, answer : {"changed", None}]

Idle == [pc |-> "idle", key |-> None, seen |-> None, row |-> 0, point |-> 0, event |-> 0,
         after |-> None, threw |-> FALSE, result |-> None, answer |-> None]

Init ==
    /\ catalog \in Provider
    /\ records = [k \in Key |-> NoRecord]
    /\ ledger = << >> /\ snapshots = {} /\ events = << >>
    /\ proc = [p \in Proc |-> Idle]
    /\ issued = 0

At(p, pc)   == proc[p].pc = pc
Goto(p, pc) == proc' = [proc EXCEPT ![p].pc = pc]
KeyOf(p)    == proc[p].key
IsDryRun(p) == KeyOf(p).flags \in DryRun

\* Of what the caller is told, only that the route was changed is kept.
Answer(p, a) ==
    proc' = [proc EXCEPT ![p] = IF a = "changed" THEN [Idle EXCEPT !.answer = a] ELSE Idle]

-----------------------------------------------------------------------------
(***************************************************************************)
(* The idempotency bridge                                                  *)
(***************************************************************************)

\* The caller loads the read model, against which all checks are made.
IssueCommand(p, k) ==
    /\ At(p, "idle") /\ issued < MaxAttempts
    /\ issued' = issued + 1
    /\ proc' = [proc EXCEPT ![p] = [Idle EXCEPT !.pc = "accept", !.key = k, !.seen = catalog]]
    /\ UNCHANGED <<catalog, store>>

replayKindForRecord(r) ==
    CASE r.status = "completed" -> r.result
      [] r.status = "failed"    -> "error"
      [] OTHER                  -> "unknown_completion"

\* Mutant: a command that failed is let through again.
AcceptRetriesFailed(p) ==
    /\ At(p, "accept")
    /\ LET r == records[KeyOf(p)]
       IN  \/ /\ r.status \in {"none", "failed"}
              /\ records' = [records EXCEPT ![KeyOf(p)] = [status |-> "accepted", result |-> None]]
              /\ Goto(p, "start")
           \/ /\ r.status \notin {"none", "failed"}
              /\ Answer(p, replayKindForRecord(r))
              /\ UNCHANGED records
    /\ UNCHANGED <<catalog, ledger, snapshots, events, issued>>

\* INSERT OR IGNORE, then the record that was there.
accept(p) ==
    /\ At(p, "accept")
    /\ LET r == records[KeyOf(p)]
       IN  \/ /\ r = NoRecord
              /\ records' = [records EXCEPT ![KeyOf(p)] = [status |-> "accepted", result |-> None]]
              /\ Goto(p, "start")
           \/ /\ r # NoRecord
              /\ Answer(p, "digest_mismatch") \/ Answer(p, replayKindForRecord(r))
              /\ UNCHANGED records
    /\ UNCHANGED <<catalog, ledger, snapshots, events, issued>>

\* repository.complete: the result of the mutation service, a refusal included.
complete(p) ==
    /\ At(p, "record")
    /\ records' = [records EXCEPT ![KeyOf(p)].status = "completed", ![KeyOf(p)].result = proc[p].result]
    /\ Answer(p, IF proc[p].threw THEN "error" ELSE proc[p].result)
    /\ UNCHANGED <<catalog, ledger, snapshots, events, issued>>

\* Mutant: a completion that cannot be stored turns the attempt into a failed one.
CompleteThrowsFailsMutation(p) ==
    /\ At(p, "record")
    /\ Goto(p, "fail")
    /\ UNCHANGED <<catalog, store, issued>>

CatchError(p) == proc' = [proc EXCEPT ![p].threw = TRUE]

\* The deferred completion throws.  The caller tries it once more and then reports the
\* error; the CLI closed its store on the first attempt, so there the retry fails.
CompletionThrows(p) ==
    IF p \in Mcp /\ ~proc[p].threw THEN CatchError(p) ELSE Answer(p, "error")

\* The same statement failing: before the deferred completion the bridge records a
\* failure, after it the record stays accepted unless the retry gets through.
CompleteThrows(p) ==
    /\ At(p, "record")
    /\ IF proc[p].result = "refused" \/ IsDryRun(p) THEN Goto(p, "failRecord") ELSE CompletionThrows(p)
    /\ UNCHANGED <<catalog, store, issued>>

fail(p) ==
    /\ At(p, "failRecord")
    /\ records' = [records EXCEPT ![KeyOf(p)].status = "failed"]
    /\ Answer(p, "error")
    /\ UNCHANGED <<catalog, ledger, snapshots, events, issued>>

-----------------------------------------------------------------------------
(***************************************************************************)
(* The mutation service: runOptimizeApplyMutation and its restore twin     *)
(***************************************************************************)
recordOptimizeControlPlaneActionStarted(p) ==
    /\ At(p, "start")
    /\ ledger' = Append(ledger, [key |-> KeyOf(p), status |-> "started", event |-> 0])
    /\ proc' = [proc EXCEPT ![p].pc = "check", ![p].row = Len(ledger')]
    /\ UNCHANGED <<catalog, records, snapshots, events, issued>>

\* It stands outside the try block.
StartThrows(p) ==
    /\ At(p, "start")
    /\ Goto(p, "failRecord")
    /\ UNCHANGED <<catalog, store, issued>>

findOptimizeApplyRestorePoints(run) ==
    {e \in 1 .. Len(events) : events[e].key.op = "apply" /\ events[e].key.run = run}

\* What the command would write, given its restore point.
Target(k, e) == IF k.op = "apply" THEN k.run ELSE events[e].before

\* Mutant: the route may have changed since the apply.
RestorePointUnchecked(p, e) ==
    IF KeyOf(p).op = "apply" THEN e = 0 ELSE findOptimizeApplyRestorePoints(KeyOf(p).run) = {e}

\* A restore needs one restore point, and the route to be as the apply left it.
RestorePoint(p, e) ==
    IF KeyOf(p).op = "apply" THEN e = 0
    ELSE /\ findOptimizeApplyRestorePoints(KeyOf(p).run) = {e}
         /\ proc[p].seen = events[e].after

\* All checks pass; whether there is anything to change is decided on the read
\* model.  A dry run only finishes its row.  An attempt that changes nothing still
\* loads the read model again, which adds nothing to it but another way to fail, as
\* in ChecksRefuse.
ChecksPass(p) ==
    /\ At(p, "check")
    /\ \E e \in 0 .. Len(events) :
         /\ RestorePoint(p, e)
         /\ LET target == Target(KeyOf(p), e)
            IN  \/ /\ IsDryRun(p)
                   /\ ledger' = [ledger EXCEPT ![proc[p].row].status = "dry_run_succeeded"]
                   /\ proc' = [proc EXCEPT ![p].pc = "record", ![p].point = e, ![p].result = "unchanged"]
                \/ /\ ~IsDryRun(p) /\ proc[p].seen # target
                   /\ proc' = [proc EXCEPT ![p].pc = "snapshot", ![p].point = e, ![p].result = "changed"]
                   /\ UNCHANGED ledger
                \/ /\ ~IsDryRun(p) /\ proc[p].seen = target
                   /\ proc' = [proc EXCEPT ![p].pc = "complete", ![p].point = e, ![p].result = "unchanged"]
                   /\ UNCHANGED ledger
    /\ UNCHANGED <<catalog, records, snapshots, events, issued>>

\* A check refuses: a run, route, winner or provider that is gone or has changed, a
\* missing key in the environment, no or several restore points.
ChecksRefuse(p) ==
    /\ At(p, "check")
    /\ Goto(p, "fail")
    /\ UNCHANGED <<catalog, store, issued>>

createOptimizeConfigSnapshot(p) ==
    /\ At(p, "snapshot")
    /\ snapshots' = snapshots \cup {proc[p].row}
    /\ Goto(p, "write")
    /\ UNCHANGED <<catalog, records, ledger, events, issued>>

SnapshotThrows(p) ==
    /\ At(p, "snapshot")
    /\ Goto(p, "fail")
    /\ UNCHANGED <<catalog, store, issued>>

\* The rewrite under the configuration lock does not look at the provider it replaces.
updateRouteProviderTarget(p) ==
    /\ At(p, "write")
    /\ catalog' = Target(KeyOf(p), proc[p].point)
    /\ Goto(p, "reread")
    /\ UNCHANGED <<store, issued>>

\* The lock was taken, the document refused, or config.json could not be written
\* after catalog.json was.  The snapshot is deleted either way, if that does not
\* fail too.
UpdateThrows(p) ==
    /\ At(p, "write")
    /\ catalog' \in {catalog, Target(KeyOf(p), proc[p].point)}
    /\ snapshots' \in {snapshots, snapshots \ {proc[p].row}}
    /\ Goto(p, "fail")
    /\ UNCHANGED <<records, ledger, events, issued>>

\* The read model is loaded again, without the lock: the route may have been edited
\* since.  A route that is gone is taken to be as written.
loadReadModel(p) ==
    /\ At(p, "reread")
    /\ \E v \in {catalog, Target(KeyOf(p), proc[p].point)} :
           proc' = [proc EXCEPT ![p].pc = "event", ![p].after = v]
    /\ UNCHANGED <<catalog, store, issued>>

\* "before" is the route in the first read model, "after" that in the second.
recordOptimizeMutationEvent(p) ==
    /\ At(p, "event")
    /\ events' = Append(events,
           [key |-> KeyOf(p), before |-> proc[p].seen, after |-> proc[p].after,
            snapshot |-> proc[p].row, parent |-> proc[p].point])
    /\ proc' = [proc EXCEPT ![p].pc = "complete", ![p].event = Len(events')]
    /\ UNCHANGED <<catalog, records, ledger, snapshots, issued>>

\* Either throws: the attempt then fails although the catalog was rewritten.
EventThrows(p) ==
    /\ At(p, "reread") \/ At(p, "event")
    /\ Goto(p, "fail")
    /\ UNCHANGED <<catalog, store, issued>>

\* Mutant: the ledger row is not linked to the event.
CompleteUnlinked(p) ==
    /\ At(p, "complete") /\ ~(p \in Mcp /\ KeyOf(p).flags \in Plain)
    /\ ledger' = [ledger EXCEPT
           ![proc[p].row].status = IF proc[p].result = "changed" THEN "succeeded" ELSE "noop"]
    /\ Goto(p, "record")
    /\ UNCHANGED <<catalog, records, snapshots, events, issued>>

\* Without --reload and --verify the MCP server answers here: it never calls the
\* deferred completion.
AnswersUncompleted(p) == p \in Mcp /\ KeyOf(p).flags \in Plain

AnswerUncompleted(p) ==
    /\ At(p, "complete") /\ AnswersUncompleted(p)
    /\ Answer(p, proc[p].result)
    /\ UNCHANGED <<catalog, store, issued>>

\* The reload or the verification throws; the caller still completes the mutation.
PostActionThrows(p) ==
    /\ At(p, "complete") /\ KeyOf(p).flags \notin Plain /\ ~proc[p].threw
    /\ CatchError(p)
    /\ UNCHANGED <<catalog, store, issued>>

\* The deferred completion, called once reload and verification are done.
completeLedger(p) ==
    /\ At(p, "complete") /\ ~AnswersUncompleted(p)
    /\ ledger' = [ledger EXCEPT
           ![proc[p].row].status = IF proc[p].result = "changed" THEN "succeeded" ELSE "noop",
           ![proc[p].row].event = proc[p].event]
    /\ Goto(p, "record")
    /\ UNCHANGED <<catalog, records, snapshots, events, issued>>

CompleteLedgerThrows(p) ==
    /\ At(p, "complete") /\ ~AnswersUncompleted(p)
    /\ CompletionThrows(p)
    /\ UNCHANGED <<catalog, store, issued>>

failMutation(p) ==
    /\ At(p, "fail")
    /\ ledger' = [ledger EXCEPT ![proc[p].row].status = "failed"]
    /\ proc' = [proc EXCEPT ![p].pc = "record", ![p].result = "refused"]
    /\ UNCHANGED <<catalog, records, snapshots, events, issued>>

FailMutationThrows(p) ==
    /\ At(p, "fail")
    /\ Goto(p, "failRecord")
    /\ UNCHANGED <<catalog, store, issued>>

-----------------------------------------------------------------------------
\* The process dies; another one takes its name.
Crash(p) ==
    /\ ~At(p, "idle")
    /\ proc' = [proc EXCEPT ![p] = Idle]
    /\ UNCHANGED <<catalog, store, issued>>

\* Someone points the route at another provider ("route update").
RouteEdited(v) ==
    /\ v # catalog /\ issued < MaxAttempts
    /\ catalog' = v
    /\ issued' = issued + 1
    /\ UNCHANGED <<store, proc>>

Next ==
    \/ \E p \in Proc :
          \/ \E k \in Command : IssueCommand(p, k)
          \/ accept(p) \/ complete(p) \/ CompleteThrows(p) \/ fail(p)
          \/ recordOptimizeControlPlaneActionStarted(p) \/ StartThrows(p)
          \/ ChecksPass(p) \/ ChecksRefuse(p)
          \/ createOptimizeConfigSnapshot(p) \/ SnapshotThrows(p)
          \/ updateRouteProviderTarget(p) \/ UpdateThrows(p)
          \/ loadReadModel(p) \/ recordOptimizeMutationEvent(p) \/ EventThrows(p)
          \/ AnswerUncompleted(p) \/ PostActionThrows(p)
          \/ completeLedger(p) \/ CompleteLedgerThrows(p)
          \/ failMutation(p) \/ FailMutationThrows(p)
          \/ Crash(p)
    \/ \E v \in Provider : RouteEdited(v)

Spec == Init /\ [][Next]_vars

-----------------------------------------------------------------------------
\* The types of the variables.
TypeOK ==
    /\ catalog \in Provider
    /\ records \in [Key -> Record \cup {NoRecord}]
    /\ ledger \in Seq(LedgerRow)
    /\ snapshots \subseteq Nat
    /\ events \in Seq(Event)
    /\ proc \in [Proc -> Process]
    /\ \A p \in Proc : ~At(p, "idle") => KeyOf(p) \in Key /\ proc[p].seen \in Provider
    /\ \A p \in Proc : At(p, "event") => proc[p].after \in Provider
    /\ issued \in 0 .. MaxAttempts

\* However often a command is issued, by whichever processes and across crashes,
\* it is executed once: it has one attempt in the ledger, and at most one process
\* is past the idempotency record with it.
Executing(p) == ~At(p, "idle") /\ ~At(p, "accept")

ExecutedAtMostOnce ==
    /\ \A i, j \in 1 .. Len(ledger) : ledger[i].key = ledger[j].key => i = j
    /\ \A p, q \in Proc : Executing(p) /\ Executing(q) /\ KeyOf(p) = KeyOf(q) => p = q

\* A record that will replay "changed" is backed by a ledger row that says so, by a
\* mutation event and by the snapshot taken before the catalog was written.
SuccessIsBacked ==
    \A k \in Key : records[k].result = "changed" =>
        \E i \in 1 .. Len(ledger) :
            /\ ledger[i].key = k /\ ledger[i].status = "succeeded"
            /\ ledger[i].event \in 1 .. Len(events)
            /\ events[ledger[i].event].key = k
            /\ events[ledger[i].event].snapshot \in snapshots

AppliesRun(e, run) == events[e].key.op = "apply" /\ events[e].key.run = run

\* The event of a restore names the apply it undoes, and found the route as the event
\* of that apply had left it.
RestoresNameApplies ==
    \A e \in 1 .. Len(events) : events[e].key.op = "restore" =>
        LET parent == events[e].parent
        IN  /\ parent \in 1 .. (e - 1) /\ AppliesRun(parent, events[e].key.run)
            /\ events[e].before = events[parent].after

\* If p, restoring, changes the catalog, then to what an apply of its run had found.
WritesBack(p) ==
    At(p, "write") /\ proc'[p] # proc[p] /\ KeyOf(p).op = "restore" /\ catalog' # catalog =>
        \E e \in 1 .. Len(events) :
            /\ AppliesRun(e, KeyOf(p).run)
            /\ proc[p].seen = events[e].after /\ catalog' = events[e].before

\* A restore undoes an effective apply of its own run.  Its event says so; and what a
\* restore writes, even one that then fails, is what such an apply had found.  What an
\* apply left behind, according to its event, is what was read after the write, the
\* edits of others included.
RestoresUndoApplies ==
    /\ []RestoresNameApplies
    /\ [][\A p \in Proc : WritesBack(p)]_vars

\* What was once recorded as the outcome of a command or of an attempt is what
\* every later replay and every later reader of the ledger gets.
OutcomesAreFinal ==
    [][ /\ \A k \in Key : records[k].status \in {"completed", "failed"} => records'[k] = records[k]
        /\ \A i \in 1 .. Len(ledger) : ledger[i].status # "started" => ledger'[i] = ledger[i] ]_vars

\* What the ledger's specification says of an apply or a restore that changes the
\* provider: its row has succeeded by the time the caller hears of it.
ChangedIsInLedger ==
    [][ \A p \in Proc : proc[p].pc # "idle" /\ proc'[p].pc = "idle" /\ proc'[p].answer = "changed" =>
            \E i \in 1 .. Len(ledger') : ledger'[i].key = KeyOf(p) /\ ledger'[i].status = "succeeded" ]_vars
===============================================================================
