-------------------------- MODULE ObservationBuffer --------------------------
(***************************************************************************)
(* What gateway-observation-queue.ts promises its callers: a bounded       *)
(* buffer of observations that sheds load by priority.                     *)
(*                                                                         *)
(* The four priority buckets are seen as one set of queued observations.   *)
(* An observation carries the number of its arrival, so a bucket is the    *)
(* set of observations of one priority and its head is the one that        *)
(* arrived first.  The two loops of the code (drop until the limits hold,  *)
(* drain the earliest head) are stated by the set they leave and the set   *)
(* they take; ObservationQueue has the loops themselves and is shown to    *)
(* implement this module.                                                  *)
(***************************************************************************)
EXTENDS ObservationLimits, Integers, FiniteSets, FiniteSetsExt

Observation == [arrival    : Nat,
                priority   : Priority,
                observedAt : ObservedAt,
                sizeBytes  : SizeBytes]

(***************************************************************************)
(* The serialized bytes of the observations in S, one by one.  Counting    *)
(* them is adding up their sizes: no two observations share an arrival.    *)
(***************************************************************************)
BytesOf(x) == {x.arrival} \X (1..x.sizeBytes)

Bytes(S) == Cardinality(UNION {BytesOf(x) : x \in S})

(***************************************************************************)
(* Shedding.  Observations are dropped oldest first from the lowest        *)
(* priority that is present.                                               *)
(***************************************************************************)
DropsBefore(x, y) ==
    \/ x.priority < y.priority
    \/ x.priority = y.priority /\ x.arrival < y.arrival

DroppedBefore(S, x) == {y \in S : DropsBefore(y, x)}

\* The limits hold once the observations in Gone have left S, whose bytes the
\* running counter has at bytes.
FitsWithout(S, bytes, Gone) ==
    /\ Cardinality(S \ Gone) <= MaxQueueSize
    /\ bytes - Bytes(Gone) <= MaxQueueBytes

\* An observation survives when the limits already hold at its turn.
Kept(S, bytes) == {x \in S : FitsWithout(S, bytes, DroppedBefore(S, x))}

(***************************************************************************)
(* Draining.  The earliest head of the four buckets goes first, the lowest *)
(* priority on a tie.  A head holds back what arrived behind it, so an     *)
(* observation leaves at the latest timestamp met in its bucket up to it.  *)
(***************************************************************************)
LeavesAt(S, x) ==
    Max({y.observedAt : y \in {z \in S : z.priority = x.priority /\ z.arrival <= x.arrival}})

DrainsBefore(S, x, y) ==
    \/ LeavesAt(S, x) < LeavesAt(S, y)
    \/ LeavesAt(S, x) = LeavesAt(S, y) /\ DropsBefore(x, y)

Batch(S, maxItems) ==
    {x \in S : Cardinality({y \in S : DrainsBefore(S, y, x)}) < maxItems}

-----------------------------------------------------------------------------
VARIABLES
    queue,       \* pendingGatewayObservationQueue
    queueBytes,  \* pendingGatewayObservationQueueBytes
    dropCount,   \* pendingGatewayObservationDropCount
    arrivals     \* how many observations were ever enqueued

vars == <<queue, queueBytes, dropCount, arrivals>>

Init ==
    /\ queue = {}
    /\ queueBytes = 0
    /\ dropCount = 0
    /\ arrivals = 0

enqueueGatewayObservation(priority, observedAt, sizeBytes) ==
    LET item  == [arrival |-> arrivals, priority |-> priority,
                  observedAt |-> observedAt, sizeBytes |-> sizeBytes]
        full  == queue \cup {item}
        bytes == queueBytes + sizeBytes
        kept  == Kept(full, bytes)
    IN  /\ arrivals < MaxArrivals
        /\ dropCount + Cardinality(full \ kept) <= MaxDropCount
        /\ queue' = kept
        /\ queueBytes' = bytes - Bytes(full \ kept)
        /\ dropCount' = dropCount + Cardinality(full \ kept)
        /\ arrivals' = arrivals + 1

drainPendingGatewayObservationBatch(maxItems) ==
    /\ queue' = queue \ Batch(queue, maxItems)
    /\ queueBytes' = queueBytes - Bytes(Batch(queue, maxItems))
    /\ UNCHANGED <<dropCount, arrivals>>

clearPendingGatewayObservationQueue ==
    /\ queue' = {}
    /\ queueBytes' = 0
    /\ UNCHANGED <<dropCount, arrivals>>

\* consumeDroppedGatewayObservationCount, and the reset for tests.
consumeDroppedGatewayObservationCount ==
    /\ dropCount' = 0
    /\ UNCHANGED <<queue, queueBytes, arrivals>>

\* Drops the writer worker reports back.
registerDroppedGatewayObservationCount(count) ==
    /\ dropCount + count <= MaxDropCount
    /\ dropCount' = dropCount + count
    /\ UNCHANGED <<queue, queueBytes, arrivals>>

Next ==
    \/ \E p \in Priority, t \in ObservedAt, s \in SizeBytes :
           enqueueGatewayObservation(p, t, s)
    \/ drainPendingGatewayObservationBatch(BatchSize)
    \/ clearPendingGatewayObservationQueue
    \/ consumeDroppedGatewayObservationCount
    \/ registerDroppedGatewayObservationCount(1)

Spec == Init /\ [][Next]_vars

-----------------------------------------------------------------------------
\* The types of the variables.
TypeOK ==
    /\ queue \in SUBSET Observation
    /\ IsFiniteSet(queue)
    /\ queueBytes \in Nat
    /\ dropCount \in Nat
    /\ arrivals \in Nat
    /\ \A x \in queue : x.arrival < arrivals
    /\ \A x, y \in queue : x.arrival = y.arrival => x = y

(***************************************************************************)
(* The loop of enqueueGatewayObservation leaves the queue within both      *)
(* limits, whatever was in it: no burst of observations can grow it, and   *)
(* an observation larger than the byte limit does not wedge the counter.   *)
(***************************************************************************)
WithinLimits ==
    /\ Cardinality(queue) <= MaxQueueSize
    /\ queueBytes <= MaxQueueBytes

(***************************************************************************)
(* The running byte counter, kept by += and -= in four functions, is the   *)
(* bytes really queued; without it the byte limit would limit nothing.     *)
(***************************************************************************)
CounterIsExact == queueBytes = Bytes(queue)

=============================================================================
