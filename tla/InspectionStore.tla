-------------------------- MODULE InspectionStore ---------------------------
(***************************************************************************)
(* createInvokeInspectionCaptureStore and the module-level Maps beside it: *)
(* the stored captures in the order they were allocated, and the captures  *)
(* that captureByRequestId reaches.  A capture is                          *)
(*   id        its inspection id,                                          *)
(*   age       the time since createdAt,                                   *)
(*   exchanges how many of its exchanges have a body: the size of the JSON *)
(*             text estimateInvokeInspectionCaptureBytes measures.         *)
(* A store is [captures, bound]; bound holds the ids of the captures a     *)
(* request id is bound to.                                                 *)
(***************************************************************************)
EXTENDS Naturals, Sequences, SequencesExt, FiniteSets, FiniteSetsExt

CONSTANTS
    CaptureIds,    \* bound: the ids randomUUID can return
    CaptureTtl,    \* INVOKE_INSPECTION_DEFAULT_TTL_MS
    MaxCaptures,   \* INVOKE_INSPECTION_MAX_CAPTURES
    MaxStoreBytes  \* maxTotalBytes

ASSUME InspectionStoreAssumption ==
    /\ CaptureTtl \in Nat
    /\ MaxCaptures \in Nat \ {0}
    /\ MaxStoreBytes \in Nat \ {0}

MaxExchanges == 4

Captures == [id : CaptureIds, age : 0..(CaptureTtl + 1), exchanges : 0..MaxExchanges]

EmptyStore == [captures |-> <<>>, bound |-> {}]

StoredIds(store) == {store.captures[i].id : i \in 1..Len(store.captures)}

AgeStore(store) ==
    [captures |-> [i \in 1..Len(store.captures) |->
                      [store.captures[i] EXCEPT !.age = IF @ <= CaptureTtl THEN @ + 1 ELSE @]],
     bound    |-> store.bound]

StoreBytes(captures) ==
    Cardinality({x \in (1..Len(captures)) \X (1..MaxExchanges) : x[2] <= captures[x[1]].exchanges})

\* Mutant: a pruned capture keeps its bindings.
KeepBindings(store, kept) == [captures |-> kept, bound |-> store.bound]

\* deleteCapture for every capture that is not among those kept.
KeepCaptures(store, kept) ==
    [captures |-> kept,
     bound    |-> store.bound \ (StoredIds(store) \ {kept[i].id : i \in 1..Len(kept)})]

\* Expired captures go, which are the oldest, then the oldest while there are
\* too many or they are too large: what is left is the longest tail of young
\* captures within both limits.
prune(store) ==
    LET all       == store.captures
        from(k)   == SubSeq(all, k, Len(all))
        within(k) == /\ \A i \in k..Len(all) : all[i].age <= CaptureTtl
                     /\ Len(from(k)) <= MaxCaptures
                     /\ StoreBytes(from(k)) <= MaxStoreBytes
    IN  KeepCaptures(store, from(Min({k \in 1..(Len(all) + 1) : within(k)})))

\* The store is pruned before the new capture is added to it.
allocate(store, id) ==
    LET pruned == prune(store)
    IN  [captures |-> Append(pruned.captures, [id |-> id, age |-> 0, exchanges |-> 0]),
         bound    |-> pruned.bound]

\* What is left when the holder of the read token reads the capture: it can
\* be read once.
consume(store, id) ==
    LET pruned == prune(store)
        place  == {i \in DOMAIN pruned.captures : pruned.captures[i].id = id}
    IN  IF place = {} THEN pruned
        ELSE KeepCaptures(pruned, RemoveAt(pruned.captures, CHOOSE i \in place : TRUE))

\* A body is recorded in the capture; one that left the store is still held
\* by its request but nobody can read it any more.
recordExchange(store, id) ==
    LET recorded(c) == IF c.id = id /\ c.exchanges < MaxExchanges
                       THEN [c EXCEPT !.exchanges = @ + 1] ELSE c
    IN  [captures |-> [i \in 1..Len(store.captures) |-> recorded(store.captures[i])],
         bound    |-> store.bound]

\* recordSmxToProvider..., recordProviderToSmx... and recordSmxToClient...
\* find the capture by the request id.
recordByRequestId(store, id) ==
    IF id \in store.bound THEN recordExchange(store, id) ELSE store

bindInvokeInspectionCaptureToRequestId(store, id) ==
    [captures |-> store.captures, bound |-> store.bound \cup {id}]
=============================================================================
