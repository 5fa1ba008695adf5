---------------------------- MODULE ConfigMutation ----------------------------
(***************************************************************************)
(* Processes (CLI commands, the MCP server) that change config.json and    *)
(* catalog.json: the pre-checks of each entity operation, the lock file of *)
(* withConfigMutationLock with its stale-lock recovery, and the            *)
(* read-mutate-validate-write cycle of mutateConfigDocument.               *)
(*                                                                         *)
(* A process runs one operation at a time and synchronously, so processes  *)
(* interleave at their file-system calls, the steps of this module.  Of    *)
(* the catalog only what refers to what is kept: an entity is a model or a *)
(* service provider, a route refers to one.  A file is replaced by a       *)
(* rename, so a reader sees the old document or the new one; the backup    *)
(* written before it is read by no operation and is left out.              *)
(***************************************************************************)
EXTENDS Naturals, FiniteSets

CONSTANTS
    Proc,      \* the processes
    Remote,    \* those of them on another host, which shares the files
    Ghost,     \* a process of this host that crashed before the others started
    Entity,    \* model and service provider names
    Route,     \* route names
    Setting,   \* the values of config.json's own settings
    SlowOps,   \* whether operations may take longer than a lock is good for
    None       \* no such route, no lock file

ASSUME ProcAssumption ==
    /\ Remote \subseteq Proc /\ Ghost \notin Proc
    /\ SlowOps \in BOOLEAN
    /\ Setting # {}
    /\ \A x \in Entity : x # None

VARIABLES
    lock,     \* the lock file: who created it, whether its metadata is in it, its age
    catalog,  \* catalog.json
    config,   \* config.json, without the sections the catalog owns
    proc,     \* where each process is
    crashed   \* the processes that died in the middle of an operation

vars == <<lock, catalog, config, proc, crashed>>

Owner   == Proc \cup {Ghost}
Lock    == [owner : Owner, stamped : BOOLEAN, aged : BOOLEAN]
Catalog == [entities : SUBSET Entity, routes : [Route -> Entity \cup {None}]]

RouteOps  == {"createRoute", "updateRoute"}
Operation ==
         [kind : RouteOps, route : Route, entity : Entity]
    \cup [kind : {"deleteRoute"}, route : Route]
    \cup [kind : {"createEntity", "deleteEntity"}, entity : Entity]
    \cup [kind : {"setConfig"}, setting : Setting]
    \cup [kind : {"importConfig"}, catalog : Catalog, setting : Setting]

NoOperation == [kind |-> "none"]
EmptyCatalog == [entities |-> {}, routes |-> [r \in Route |-> None]]

\* seen: the read model loaded before the lock; doc and conf: the documents
\* loaded under it and, after the mutator, the ones to write.
Idle == [pc |-> "idle", op |-> NoOperation, seen |-> EmptyCatalog, doc |-> EmptyCatalog,
         conf |-> CHOOSE s \in Setting : TRUE]

\* What route validation asks of a whole document: no unknown reference.
Consistent(c) == \A r \in Route : c.routes[r] \in c.entities \cup {None}

Exists(c, r) == c.routes[r] # None

Init ==
    /\ lock \in {None} \cup [owner : {Ghost}, stamped : BOOLEAN, aged : {FALSE}]
    /\ catalog \in {c \in Catalog : Consistent(c)}
    /\ config \in Setting
    /\ proc = [p \in Proc |-> Idle]
    /\ crashed = {Ghost}

Goto(p, pc) == proc' = [proc EXCEPT ![p].pc = pc]

At(p, pc) == p \notin crashed /\ proc[p].pc = pc

-----------------------------------------------------------------------------
(***************************************************************************)
(* The operations of mutation/route.ts, model.ts and provider.ts, "config  *)
(* set" and "config import", up to mutateConfigDocument.                   *)
(***************************************************************************)

\* The checks against a read model loaded without the lock.
PreCheck(op, seen) ==
    CASE op.kind = "createRoute"  -> ~Exists(seen, op.route) /\ op.entity \in seen.entities
      [] op.kind = "updateRoute"  -> Exists(seen, op.route)
      [] op.kind = "deleteRoute"  -> Exists(seen, op.route)
      [] op.kind = "deleteEntity" -> /\ op.entity \in seen.entities
                                     /\ \A r \in Route : seen.routes[r] # op.entity
      [] op.kind = "importConfig" -> Consistent(op.catalog)
      [] OTHER -> TRUE

\* An operation that fails its pre-check ends there.
StartOperation(p, op) ==
    /\ At(p, "idle")
    /\ PreCheck(op, catalog)
    /\ proc' = [proc EXCEPT ![p].pc = "open", ![p].op = op, ![p].seen = catalog]
    /\ UNCHANGED <<lock, catalog, config, crashed>>

-----------------------------------------------------------------------------
(***************************************************************************)
(* withConfigMutationLock                                                  *)
(***************************************************************************)
NewLock(p) == [owner |-> p, stamped |-> FALSE, aged |-> FALSE]

\* open(lockPath, "wx"), the first time and after a stale lock was removed.
tryAcquireConfigMutationLock(p) ==
    /\ At(p, "open") \/ At(p, "reopen")
    /\ IF lock = None
       THEN lock' = NewLock(p) /\ Goto(p, "stamp")
       ELSE /\ Goto(p, IF At(p, "open") THEN "judge" ELSE "release")
            /\ UNCHANGED lock
    /\ UNCHANGED <<catalog, config, crashed>>

\* process.kill(pid, 0) tells only about this host.
isPidLive(p, q) == (p \in Remote <=> q \in Remote) /\ q \notin crashed

\* A lock that is gone by now has no age.
isStaleConfigMutationLock(p) ==
    /\ lock # None
    /\ ~(lock.stamped /\ isPidLive(p, lock.owner))
    /\ lock.aged

JudgeLock(p) ==
    /\ At(p, "judge")
    /\ Goto(p, IF isStaleConfigMutationLock(p) THEN "unlinkStale" ELSE "release")
    /\ UNCHANGED <<lock, catalog, config, crashed>>

\* The unlink is by path: whatever lock is there by now goes.
UnlinkStaleLock(p) ==
    /\ At(p, "unlinkStale")
    /\ lock' = None
    /\ Goto(p, "reopen")
    /\ UNCHANGED <<catalog, config, crashed>>

\* The metadata goes to the file the process opened, which may be unlinked.
WriteLockMetadata(p) ==
    /\ At(p, "stamp")
    /\ lock' = IF lock # None /\ lock.owner = p
               THEN [lock EXCEPT !.stamped = TRUE, !.aged = FALSE]
               ELSE lock
    /\ Goto(p, "load")
    /\ UNCHANGED <<catalog, config, crashed>>

\* CONFIG_MUTATION_LOCK_STALE_AFTER_MS go by.
LockAges ==
    /\ SlowOps /\ lock # None /\ ~lock.aged
    /\ lock' = [lock EXCEPT !.aged = TRUE]
    /\ UNCHANGED <<catalog, config, proc, crashed>>

\* The "finally" of withConfigMutationLock: the lock path is unlinked
\* whether or not this process acquired the lock.
ReleaseConfigMutationLock(p) ==
    /\ At(p, "release")
    /\ lock' = None
    /\ proc' = [proc EXCEPT ![p] = Idle]
    /\ UNCHANGED <<catalog, config, crashed>>

-----------------------------------------------------------------------------
(***************************************************************************)
(* mutateConfigDocument, under the lock                                    *)
(***************************************************************************)
LoadConfigJsonDocument(p) ==
    /\ At(p, "load")
    /\ proc' = [proc EXCEPT ![p].pc = "loadCatalog", ![p].conf = config]
    /\ UNCHANGED <<lock, catalog, config, crashed>>

\* The mutator's own checks; the others throw.
MutatorAccepts(op, seen, doc) ==
    CASE op.kind = "createEntity" -> op.entity \notin doc.entities
      [] op.kind = "updateRoute"  -> Exists(doc, op.route) /\ op.entity \in seen.entities
      [] OTHER -> TRUE

MutatedCatalog(op, doc) ==
    CASE op.kind \in RouteOps     -> [doc EXCEPT !.routes[op.route] = op.entity]
      [] op.kind = "deleteRoute"  -> [doc EXCEPT !.routes[op.route] = None]
      [] op.kind = "createEntity" -> [doc EXCEPT !.entities = @ \cup {op.entity}]
      [] op.kind = "deleteEntity" -> [doc EXCEPT !.entities = @ \ {op.entity}]
      [] op.kind = "importConfig" -> op.catalog
      [] OTHER -> doc

MutatedConfig(op, conf) ==
    IF op.kind \in {"setConfig", "importConfig"} THEN op.setting ELSE conf

\* Mutant: only the changed entity is validated, not the document.
ValidatesNothingElse(doc) == TRUE

\* normalizeAndValidateConfigDocumentForMutation, on the whole document.
normalizeAndValidate(doc) == Consistent(doc)

\* Mutant: an operation that throws ends without the "finally".
ThrowSkipsRelease(p) ==
    LET op  == proc[p].op
        new == MutatedCatalog(op, catalog)
    IN  /\ At(p, "loadCatalog")
        /\ proc' = [proc EXCEPT ![p] =
               IF MutatorAccepts(op, @.seen, catalog) /\ normalizeAndValidate(new)
               THEN [@ EXCEPT !.pc = "writeCatalog", !.doc = new,
                              !.conf = MutatedConfig(op, @)]
               ELSE Idle]
        /\ UNCHANGED <<lock, catalog, config, crashed>>

\* Loading the catalog, the mutator, the validation and the split.
MutateDocument(p) ==
    LET op  == proc[p].op
        new == MutatedCatalog(op, catalog)
    IN  /\ At(p, "loadCatalog")
        /\ IF MutatorAccepts(op, proc[p].seen, catalog) /\ normalizeAndValidate(new)
           THEN proc' = [proc EXCEPT ![p].pc = "writeCatalog", ![p].doc = new,
                                     ![p].conf = MutatedConfig(op, @)]
           ELSE Goto(p, "release")
        /\ UNCHANGED <<lock, catalog, config, crashed>>

\* A read or a write throws, and leaves the file as it was.
OperationThrows(p) ==
    /\ \E pc \in {"stamp", "load", "loadCatalog", "writeCatalog", "writeConfig"} : At(p, pc)
    /\ Goto(p, "release")
    /\ UNCHANGED <<lock, catalog, config, crashed>>

writeCatalogJsonDocumentIfChanged(p) ==
    /\ At(p, "writeCatalog")
    /\ catalog' = proc[p].doc
    /\ Goto(p, "writeConfig")
    /\ UNCHANGED <<lock, config, crashed>>

writeConfigJsonDocumentIfChanged(p) ==
    /\ At(p, "writeConfig")
    /\ config' = proc[p].conf
    /\ Goto(p, "release")
    /\ UNCHANGED <<lock, catalog, crashed>>

Crash(p) ==
    /\ p \notin crashed /\ proc[p].pc # "idle"
    /\ crashed' = crashed \cup {p}
    /\ UNCHANGED <<lock, catalog, config, proc>>

-----------------------------------------------------------------------------
Step(p) ==
    \/ \E op \in Operation : StartOperation(p, op)
    \/ tryAcquireConfigMutationLock(p)
    \/ JudgeLock(p)
    \/ UnlinkStaleLock(p)
    \/ WriteLockMetadata(p)
    \/ LoadConfigJsonDocument(p)
    \/ MutateDocument(p)
    \/ OperationThrows(p)
    \/ writeCatalogJsonDocumentIfChanged(p)
    \/ writeConfigJsonDocumentIfChanged(p)
    \/ ReleaseConfigMutationLock(p)
    \/ Crash(p)

Next == LockAges \/ \E p \in Proc : Step(p)

Spec == Init /\ [][Next]_vars

-----------------------------------------------------------------------------
Stage == {"idle", "open", "judge", "unlinkStale", "reopen", "stamp", "load", "loadCatalog",
          "writeCatalog", "writeConfig", "release"}

\* The steps of a process that acquired the lock.
Holding == {"stamp", "load", "loadCatalog", "writeCatalog", "writeConfig", "release"}

\* The types of the variables.
TypeOK ==
    /\ lock \in Lock \cup {None}
    /\ catalog \in Catalog
    /\ config \in Setting
    /\ proc \in [Proc -> [pc : Stage, op : Operation \cup {NoOperation}, seen : Catalog,
                          doc : Catalog, conf : Setting]]
    /\ crashed \in SUBSET Owner

(***************************************************************************)
(* catalog.json never holds a route with an unknown reference, whatever    *)
(* processes race, crash or steal each other's lock.  The checks made      *)
(* before the lock are on a catalog that may have changed since (a route   *)
(* may refer to a model that is deleted meanwhile); it is the validation   *)
(* of the whole document, under the lock, that this rests on, and the      *)
(* single rename of a file that holds all three sections.                  *)
(***************************************************************************)
CatalogIsConsistent == Consistent(catalog)

(***************************************************************************)
(* A lock file is somebody's: of a process in the middle of its operation, *)
(* or of one that crashed, which the age and the pid check recover from.   *)
(* No path through an error leaves one behind.                             *)
(***************************************************************************)
NoLeakedLock ==
    lock # None => lock.owner \in crashed \/ proc[lock.owner].pc \in Holding

(***************************************************************************)
(* The read-mutate-write cycle is serialized (the test of that name): the  *)
(* catalog a process replaces is the one it loaded and changed, so no      *)
(* change made in between is lost.                                         *)
(***************************************************************************)
ReadMutateWriteSerialized ==
    [][\A p \in Proc : At(p, "writeCatalog") /\ proc'[p].pc = "writeConfig"
           => proc[p].doc = MutatedCatalog(proc[p].op, catalog)]_vars

=============================================================================
