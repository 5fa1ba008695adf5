------------------------- MODULE ConfigMutationProofs -------------------------
(***************************************************************************)
(* Proofs about ConfigMutation for any number of processes, entities and   *)
(* routes: the type invariant, that catalog.json stays consistent, and     *)
(* that no lock file is leaked.                                            *)
(***************************************************************************)
EXTENDS ConfigMutation, TLAPS

Process == [pc : Stage, op : Operation \cup {NoOperation}, seen : Catalog,
            doc : Catalog, conf : Setting]

(***************************************************************************)
(* The record of a process that runs nothing is well-formed.               *)
(***************************************************************************)
LEMMA IdleType == Idle \in Process
<1>1. EmptyCatalog \in Catalog
  BY DEF EmptyCatalog, Catalog
<1>2. (CHOOSE s \in Setting : TRUE) \in Setting
  BY ProcAssumption
<1> QED
  BY <1>1, <1>2 DEF Idle, Process, Stage

(***************************************************************************)
(* Every mutator turns a well-formed catalog into a well-formed one.       *)
(***************************************************************************)
LEMMA MutatedCatalogType ==
    ASSUME NEW op \in Operation \cup {NoOperation}, NEW c \in Catalog
    PROVE  MutatedCatalog(op, c) \in Catalog
<1>1. CASE op \in [kind : RouteOps, route : Route, entity : Entity]
  BY <1>1 DEF MutatedCatalog, Catalog, RouteOps
<1>2. CASE op \in [kind : {"deleteRoute"}, route : Route]
  BY <1>2 DEF MutatedCatalog, Catalog, RouteOps
<1>3. CASE op \in [kind : {"createEntity", "deleteEntity"}, entity : Entity]
  BY <1>3 DEF MutatedCatalog, Catalog, RouteOps
<1>4. CASE op \in [kind : {"setConfig"}, setting : Setting]
  BY <1>4 DEF MutatedCatalog, Catalog, RouteOps
<1>5. CASE op \in [kind : {"importConfig"}, catalog : Catalog, setting : Setting]
  BY <1>5 DEF MutatedCatalog, RouteOps
<1>6. CASE op = NoOperation
  BY <1>6 DEF MutatedCatalog, NoOperation, RouteOps
<1> QED
  BY <1>1, <1>2, <1>3, <1>4, <1>5, <1>6 DEF Operation

(***************************************************************************)
(* Every mutator leaves a setting of config.json a setting.                *)
(***************************************************************************)
LEMMA MutatedConfigType ==
    ASSUME NEW op \in Operation \cup {NoOperation}, NEW s \in Setting
    PROVE  MutatedConfig(op, s) \in Setting
<1>1. CASE op \in [kind : {"setConfig"}, setting : Setting]
  BY <1>1 DEF MutatedConfig
<1>2. CASE op \in [kind : {"importConfig"}, catalog : Catalog, setting : Setting]
  BY <1>2 DEF MutatedConfig
<1>3. CASE op.kind \notin {"setConfig", "importConfig"}
  BY <1>3 DEF MutatedConfig
<1> QED
  BY <1>1, <1>2, <1>3 DEF Operation, NoOperation, RouteOps

(***************************************************************************)
(* The inductive invariant: besides the types and the two properties, a    *)
(* document on its way into catalog.json has passed the validation.        *)
(***************************************************************************)
ValidatedDocument ==
    \A p \in Proc : proc[p].pc = "writeCatalog" => Consistent(proc[p].doc)

Inv ==
    /\ TypeOK
    /\ CatalogIsConsistent /\ ValidatedDocument
    /\ NoLeakedLock /\ Ghost \in crashed

(***************************************************************************)
(* One step of one process keeps the types.                                *)
(***************************************************************************)
LEMMA StepType ==
    ASSUME TypeOK, NEW p \in Proc, Step(p)
    PROVE  TypeOK'
<1> USE DEF TypeOK
<1>p. proc \in [Proc -> Process]
  BY DEF Process
<1>g. ASSUME NEW s \in Stage, Goto(p, s)
      PROVE  proc' \in [Proc -> Process]
  BY <1>p, <1>g DEF Goto, Process
<1>s. /\ "open" \in Stage /\ "judge" \in Stage /\ "unlinkStale" \in Stage
      /\ "reopen" \in Stage /\ "stamp" \in Stage /\ "load" \in Stage
      /\ "loadCatalog" \in Stage /\ "writeCatalog" \in Stage
      /\ "writeConfig" \in Stage /\ "release" \in Stage
  BY DEF Stage
<1>1. ASSUME NEW op \in Operation, StartOperation(p, op)
      PROVE  TypeOK'
  <2>1. proc' \in [Proc -> Process]
    BY <1>1, <1>p, <1>s, ZenonT(60) DEF StartOperation, Process
  <2> QED
    BY <1>1, <2>1 DEF StartOperation, Process
<1>2. CASE tryAcquireConfigMutationLock(p)
  <2>1. proc' \in [Proc -> Process]
    <3>1. Goto(p, "stamp") \/ Goto(p, "judge") \/ Goto(p, "release")
      BY <1>2 DEF tryAcquireConfigMutationLock
    <3> QED
      BY <3>1, <1>g, <1>s
  <2>2. lock' \in Lock \cup {None}
    <3>1. NewLock(p) \in Lock
      BY DEF NewLock, Lock, Owner
    <3>2. lock' = NewLock(p) \/ lock' = lock
      BY <1>2 DEF tryAcquireConfigMutationLock
    <3> QED
      BY <3>1, <3>2
  <2> QED
    BY <1>2, <2>1, <2>2 DEF tryAcquireConfigMutationLock, Process
<1>3. CASE JudgeLock(p)
  <2>1. proc' \in [Proc -> Process]
    BY <1>3, <1>g, <1>s DEF JudgeLock
  <2> QED
    BY <1>3, <2>1 DEF JudgeLock, Process
<1>4. CASE UnlinkStaleLock(p)
  <2>1. proc' \in [Proc -> Process]
    BY <1>4, <1>g, <1>s DEF UnlinkStaleLock
  <2> QED
    BY <1>4, <2>1 DEF UnlinkStaleLock, Process
<1>5. CASE WriteLockMetadata(p)
  <2>1. proc' \in [Proc -> Process]
    BY <1>5, <1>g, <1>s DEF WriteLockMetadata
  <2>2. lock' \in Lock \cup {None}
    BY <1>5 DEF WriteLockMetadata, Lock
  <2> QED
    BY <1>5, <2>1, <2>2 DEF WriteLockMetadata, Process
<1>6. CASE LoadConfigJsonDocument(p)
  <2>1. proc' \in [Proc -> Process]
    BY <1>6, <1>p, <1>s DEF LoadConfigJsonDocument, Process
  <2> QED
    BY <1>6, <2>1 DEF LoadConfigJsonDocument, Process
<1>7. CASE MutateDocument(p)
  <2>1. proc[p].op \in Operation \cup {NoOperation} /\ proc[p].conf \in Setting
    BY <1>p DEF Process
  <2>2. /\ MutatedCatalog(proc[p].op, catalog) \in Catalog
        /\ MutatedConfig(proc[p].op, proc[p].conf) \in Setting
    BY <2>1, MutatedCatalogType, MutatedConfigType
  <2>3. proc' \in [Proc -> Process]
    BY <1>7, <1>p, <1>s, <2>2, <1>g DEF MutateDocument, Process
  <2> QED
    BY <1>7, <2>3 DEF MutateDocument, Process
<1>8. CASE OperationThrows(p)
  <2>1. proc' \in [Proc -> Process]
    BY <1>8, <1>g, <1>s DEF OperationThrows
  <2> QED
    BY <1>8, <2>1 DEF OperationThrows, Process
<1>9. CASE writeCatalogJsonDocumentIfChanged(p)
  <2>1. proc' \in [Proc -> Process]
    BY <1>9, <1>g, <1>s DEF writeCatalogJsonDocumentIfChanged
  <2>2. catalog' \in Catalog
    BY <1>9, <1>p DEF writeCatalogJsonDocumentIfChanged, Process
  <2> QED
    BY <1>9, <2>1, <2>2 DEF writeCatalogJsonDocumentIfChanged, Process
<1>10. CASE writeConfigJsonDocumentIfChanged(p)
  <2>1. proc' \in [Proc -> Process]
    BY <1>10, <1>g, <1>s DEF writeConfigJsonDocumentIfChanged
  <2>2. config' \in Setting
    BY <1>10, <1>p DEF writeConfigJsonDocumentIfChanged, Process
  <2> QED
    BY <1>10, <2>1, <2>2 DEF writeConfigJsonDocumentIfChanged, Process
<1>11. CASE ReleaseConfigMutationLock(p)
  <2>1. proc' \in [Proc -> Process]
    BY <1>11, <1>p, IdleType DEF ReleaseConfigMutationLock
  <2> QED
    BY <1>11, <2>1 DEF ReleaseConfigMutationLock, Process
<1>12. CASE Crash(p)
  BY <1>12 DEF Crash, Owner
<1> QED
  BY <1>1, <1>2, <1>3, <1>4, <1>5, <1>6, <1>7, <1>8, <1>9, <1>10, <1>11, <1>12 DEF Step

(***************************************************************************)
(* A document is validated before it is written and written as it was      *)
(* validated, so the catalog stays consistent.                             *)
(***************************************************************************)
LEMMA StepConsistent ==
    ASSUME TypeOK, CatalogIsConsistent, ValidatedDocument, NEW p \in Proc, Step(p)
    PROVE  CatalogIsConsistent' /\ ValidatedDocument'
<1> USE DEF CatalogIsConsistent, ValidatedDocument
<1>p. proc \in [Proc -> Process]
  BY DEF TypeOK, Process
<1>g. ASSUME NEW s, s # "writeCatalog", Goto(p, s), UNCHANGED catalog
      PROVE  CatalogIsConsistent' /\ ValidatedDocument'
  BY <1>p, <1>g DEF Goto, Process, Consistent
<1>1. ASSUME NEW op \in Operation, StartOperation(p, op)
      PROVE  CatalogIsConsistent' /\ ValidatedDocument'
  BY <1>1, <1>p DEF StartOperation, Process, Consistent
<1>2. CASE tryAcquireConfigMutationLock(p)
  <2>1. Goto(p, "stamp") \/ Goto(p, "judge") \/ Goto(p, "release")
    BY <1>2 DEF tryAcquireConfigMutationLock
  <2> QED
    BY <1>2, <2>1, <1>g DEF tryAcquireConfigMutationLock
<1>3. CASE JudgeLock(p)
  BY <1>3, <1>g DEF JudgeLock
<1>4. CASE UnlinkStaleLock(p)
  BY <1>4, <1>g DEF UnlinkStaleLock
<1>5. CASE WriteLockMetadata(p)
  BY <1>5, <1>g DEF WriteLockMetadata
<1>6. CASE LoadConfigJsonDocument(p)
  BY <1>6, <1>p DEF LoadConfigJsonDocument, Process, Consistent
<1>7. CASE MutateDocument(p)
  <2>1. CASE Goto(p, "release")
    BY <1>7, <2>1, <1>g DEF MutateDocument
  <2>2. CASE ~Goto(p, "release")
    <3> DEFINE new == MutatedCatalog(proc[p].op, catalog)
    <3>1. /\ Consistent(new)
          /\ proc' = [proc EXCEPT ![p].pc = "writeCatalog", ![p].doc = new,
                                 ![p].conf = MutatedConfig(proc[p].op, @)]
          /\ catalog' = catalog
      BY <1>7, <2>2 DEF MutateDocument, normalizeAndValidate
    <3> HIDE DEF new
    <3> QED
      BY <3>1, <1>p DEF Process, Consistent
  <2> QED
    BY <2>1, <2>2
<1>8. CASE OperationThrows(p)
  BY <1>8, <1>g DEF OperationThrows
<1>9. CASE writeCatalogJsonDocumentIfChanged(p)
  <2>1. Consistent(proc[p].doc)
    BY <1>9 DEF writeCatalogJsonDocumentIfChanged, At
  <2> QED
    BY <1>9, <2>1, <1>p DEF writeCatalogJsonDocumentIfChanged, Goto, Process, Consistent
<1>10. CASE writeConfigJsonDocumentIfChanged(p)
  BY <1>10, <1>g DEF writeConfigJsonDocumentIfChanged
<1>11. CASE ReleaseConfigMutationLock(p)
  BY <1>11, <1>p DEF ReleaseConfigMutationLock, Process, Idle, Consistent
<1>12. CASE Crash(p)
  BY <1>12 DEF Crash, Consistent
<1> QED
  BY <1>1, <1>2, <1>3, <1>4, <1>5, <1>6, <1>7, <1>8, <1>9, <1>10, <1>11, <1>12 DEF Step

(***************************************************************************)
(* Whoever creates the lock file goes on to a step that holds it, and      *)
(* leaves those only by unlinking it or by crashing.                       *)
(***************************************************************************)
LEMMA StepNoLeakedLock ==
    ASSUME TypeOK, NoLeakedLock, Ghost \in crashed, NEW p \in Proc, Step(p)
    PROVE  NoLeakedLock' /\ Ghost \in crashed'
<1> USE DEF NoLeakedLock
<1>p. proc \in [Proc -> Process]
  BY DEF TypeOK, Process
<1>o. lock # None => lock.owner \in crashed \/ lock.owner \in Proc
  BY DEF TypeOK, Owner, Lock
<1>g. ASSUME NEW s, Goto(p, s), s \in Holding \/ proc[p].pc \notin Holding,
             UNCHANGED <<lock, crashed>>
      PROVE  NoLeakedLock' /\ Ghost \in crashed'
  BY <1>g, <1>p, <1>o DEF Goto, Process
<1>1. ASSUME NEW op \in Operation, StartOperation(p, op)
      PROVE  NoLeakedLock' /\ Ghost \in crashed'
  BY <1>1, <1>p, <1>o DEF StartOperation, Process, At, Holding
<1>2. CASE tryAcquireConfigMutationLock(p)
  <2>1. CASE lock = None
    BY <1>2, <2>1, <1>p DEF tryAcquireConfigMutationLock, Goto, NewLock, Process, Holding
  <2>2. CASE lock # None
    <3>1. Goto(p, "judge") \/ Goto(p, "release")
      BY <1>2, <2>2 DEF tryAcquireConfigMutationLock
    <3>2. proc[p].pc \notin Holding
      BY <1>2 DEF tryAcquireConfigMutationLock, At, Holding
    <3> QED
      BY <1>2, <2>2, <3>1, <3>2, <1>g DEF tryAcquireConfigMutationLock
  <2> QED
    BY <2>1, <2>2
<1>3. CASE JudgeLock(p)
  BY <1>3, <1>g DEF JudgeLock, At, Holding
<1>4. CASE UnlinkStaleLock(p)
  BY <1>4 DEF UnlinkStaleLock
<1>5. CASE WriteLockMetadata(p)
  <2>1. lock' # None => lock # None /\ lock'.owner = lock.owner
    BY <1>5, <1>o DEF WriteLockMetadata, TypeOK, Lock
  <2>2. \A q \in Proc : proc[q].pc \in Holding => proc'[q].pc \in Holding
    BY <1>5, <1>p DEF WriteLockMetadata, Goto, Process, Holding
  <2> QED
    BY <1>5, <1>o, <2>1, <2>2 DEF WriteLockMetadata
<1>6. CASE LoadConfigJsonDocument(p)
  BY <1>6, <1>p, <1>o DEF LoadConfigJsonDocument, Process, Holding
<1>7. CASE MutateDocument(p)
  <2>1. CASE Goto(p, "release")
    BY <1>7, <2>1, <1>g DEF MutateDocument, Holding
  <2>2. CASE ~Goto(p, "release")
    BY <1>7, <2>2, <1>p, <1>o DEF MutateDocument, Process, Holding
  <2> QED
    BY <2>1, <2>2
<1>8. CASE OperationThrows(p)
  BY <1>8, <1>g DEF OperationThrows, Holding
<1>9. CASE writeCatalogJsonDocumentIfChanged(p)
  BY <1>9, <1>g DEF writeCatalogJsonDocumentIfChanged, Holding
<1>10. CASE writeConfigJsonDocumentIfChanged(p)
  BY <1>10, <1>g DEF writeConfigJsonDocumentIfChanged, Holding
<1>11. CASE ReleaseConfigMutationLock(p)
  BY <1>11 DEF ReleaseConfigMutationLock
<1>12. CASE Crash(p)
  BY <1>12 DEF Crash
<1> QED
  BY <1>1, <1>2, <1>3, <1>4, <1>5, <1>6, <1>7, <1>8, <1>9, <1>10, <1>11, <1>12 DEF Step

\* Inv holds initially and every step keeps it.
LEMMA AlwaysInv == Spec => []Inv
<1>1. Init => Inv
  <2> SUFFICES ASSUME Init PROVE Inv
    OBVIOUS
  <2>1. proc \in [Proc -> Process]
    BY IdleType DEF Init
  <2>2. lock \in Lock \cup {None} /\ (lock # None => lock.owner = Ghost)
    BY DEF Init, Lock, Owner
  <2>3. TypeOK
    BY <2>1, <2>2 DEF Init, TypeOK, Process, Owner
  <2>4. CatalogIsConsistent /\ ValidatedDocument
    BY DEF Init, CatalogIsConsistent, ValidatedDocument, Idle
  <2> QED
    BY <2>2, <2>3, <2>4 DEF Init, Inv, NoLeakedLock
<1>2. Inv /\ [Next]_vars => Inv'
  <2> SUFFICES ASSUME Inv, [Next]_vars PROVE Inv'
    OBVIOUS
  <2> USE DEF Inv
  <2>1. CASE LockAges
    <3>1. lock' \in Lock /\ lock'.owner = lock.owner /\ lock # None
      BY <2>1 DEF LockAges, TypeOK, Lock
    <3> QED
      BY <2>1, <3>1 DEF LockAges, TypeOK, CatalogIsConsistent, ValidatedDocument, NoLeakedLock
  <2>2. ASSUME NEW p \in Proc, Step(p) PROVE Inv'
    BY <2>2, StepType, StepConsistent, StepNoLeakedLock
  <2>3. CASE UNCHANGED vars
    BY <2>3 DEF vars, TypeOK, CatalogIsConsistent, ValidatedDocument, NoLeakedLock
  <2> QED
    BY <2>1, <2>2, <2>3 DEF Next
<1> QED
  BY <1>1, <1>2, PTL DEF Spec

(***************************************************************************)
(* Whatever the number of processes, wherever they crash and whichever     *)
(* lock they steal, catalog.json never holds an unknown reference.         *)
(***************************************************************************)
THEOREM CatalogStaysConsistent == Spec => [](TypeOK /\ CatalogIsConsistent)
<1>1. Inv => TypeOK /\ CatalogIsConsistent
  BY DEF Inv
<1> QED
  BY <1>1, AlwaysInv, PTL

(***************************************************************************)
(* A process that returned or threw has left no lock file: every early     *)
(* return and every failure of withConfigMutationLock releases what it     *)
(* took, however many processes steal each other's locks.                  *)
(***************************************************************************)
THEOREM LocksAreReleased == Spec => []NoLeakedLock
<1>1. Inv => NoLeakedLock
  BY DEF Inv
<1> QED
  BY <1>1, AlwaysInv, PTL

=============================================================================
