-------------------------- MODULE ObservationQueue ---------------------------
(***************************************************************************)
(* createGatewayObservationQueueState: four priority buckets, a running    *)
(* byte count and a count of drops nobody has logged yet.  Every function  *)
(* runs to completion on the event loop, so each is one action, its loop   *)
(* included.                                                               *)
(***************************************************************************)
EXTENDS ObservationLimits, Integers, Sequences, SequencesExt

VARIABLES
    buckets,     \* pendingGatewayObservationQueue
    queueBytes,  \* pendingGatewayObservationQueueBytes
    dropCount,   \* pendingGatewayObservationDropCount
    batch,       \* what the last drain returned, <<>> after any other call
    arrivals     \* how many observations were ever enqueued (auxiliary)

vars == <<buckets, queueBytes, dropCount, batch, arrivals>>

createPendingGatewayObservationQueue == [p \in Priority |-> <<>>]

QueueLength(b) == Len(b[0]) + Len(b[1]) + Len(b[2]) + Len(b[3])

Occupied(b) == {p \in Priority : b[p] # <<>>}

(***************************************************************************)
(* The state the two loops work on: the buckets, their byte count and the  *)
(* drops, or the batch, so far.                                            *)
(***************************************************************************)
\* Mutant: the scan starts at the highest priority.
DropHighestPriority(s) ==
    LET p == Max(Occupied(s.buckets))
    IN  [buckets |-> [s.buckets EXCEPT ![p] = Tail(@)],
         bytes   |-> s.bytes - Head(s.buckets[p]).sizeBytes,
         drops   |-> s.drops + 1]

dropLowestPriorityGatewayObservation(s) ==
    LET p == Min(Occupied(s.buckets))
    IN  [buckets |-> [s.buckets EXCEPT ![p] = Tail(@)],
         bytes   |-> s.bytes - Head(s.buckets[p]).sizeBytes,
         drops   |-> s.drops + 1]

\* Mutant: the loop stops one observation too early.
OverLimitsOffByOne(s) ==
    QueueLength(s.buckets) > MaxQueueSize + 1 \/ s.bytes > MaxQueueBytes

OverLimits(s) == QueueLength(s.buckets) > MaxQueueSize \/ s.bytes > MaxQueueBytes

dropRound(s) ==
    IF OverLimits(s) /\ Occupied(s.buckets) # {}
    THEN dropLowestPriorityGatewayObservation(s)
    ELSE s

\* Each round of the loop drops one observation, so it is over after as many
\* rounds as there are observations.
DropToLimits(s) ==
    LET n == QueueLength(s.buckets)
        after[k \in 0..n] == IF k = 0 THEN s ELSE dropRound(after[k - 1])
    IN  after[n]

\* Mutant: the buckets are emptied in order of priority.
NextByPriority(b) == Max(Occupied(b))

\* Mutant: a tie goes to the highest priority (<= where the code has <).
NextOnTieHighest(b) ==
    CHOOSE p \in Occupied(b) : \A q \in Occupied(b) :
        \/ b[p][1].observedAt < b[q][1].observedAt
        \/ b[p][1].observedAt = b[q][1].observedAt /\ p >= q

\* The bucket whose head is earliest; the scan from 0 to 3 replaces its
\* candidate only by a strictly earlier one.
NextQueued(b) ==
    CHOOSE p \in Occupied(b) : \A q \in Occupied(b) :
        \/ b[p][1].observedAt < b[q][1].observedAt
        \/ b[p][1].observedAt = b[q][1].observedAt /\ p <= q

takeNextQueued(s) ==
    LET p == NextQueued(s.buckets)
    IN  [buckets |-> [s.buckets EXCEPT ![p] = Tail(@)],
         bytes   |-> s.bytes - Head(s.buckets[p]).sizeBytes,
         batch   |-> Append(s.batch, Head(s.buckets[p]))]

drainRound(s) == IF Occupied(s.buckets) # {} THEN takeNextQueued(s) ELSE s

\* The loop takes at most maxItems observations, and ends when none is queued.
DrainLoop(s, maxItems) ==
    LET after[k \in 0..maxItems] == IF k = 0 THEN s ELSE drainRound(after[k - 1])
    IN  after[maxItems]

-----------------------------------------------------------------------------
Init ==
    /\ buckets = createPendingGatewayObservationQueue
    /\ queueBytes = 0
    /\ dropCount = 0
    /\ batch = <<>>
    /\ arrivals = 0

enqueueGatewayObservation(priority, observedAt, sizeBytes) ==
    LET item == [arrival |-> arrivals, priority |-> priority,
                 observedAt |-> observedAt, sizeBytes |-> sizeBytes]
        end  == DropToLimits([buckets |-> [buckets EXCEPT ![priority] = Append(@, item)],
                              bytes   |-> queueBytes + sizeBytes,
                              drops   |-> dropCount])
    IN  /\ arrivals < MaxArrivals
        /\ end.drops <= MaxDropCount
        /\ buckets' = end.buckets
        /\ queueBytes' = end.bytes
        /\ dropCount' = end.drops
        /\ batch' = <<>>
        /\ arrivals' = arrivals + 1

drainPendingGatewayObservationBatch(maxItems) ==
    LET end == DrainLoop([buckets |-> buckets, bytes |-> queueBytes, batch |-> <<>>], maxItems)
    IN  /\ buckets' = end.buckets
        /\ queueBytes' = end.bytes
        /\ batch' = end.batch
        /\ UNCHANGED <<dropCount, arrivals>>

clearPendingGatewayObservationQueue ==
    /\ buckets' = createPendingGatewayObservationQueue
    /\ queueBytes' = 0
    /\ batch' = <<>>
    /\ UNCHANGED <<dropCount, arrivals>>

consumeDroppedGatewayObservationCount ==
    /\ dropCount' = 0
    /\ batch' = <<>>
    /\ UNCHANGED <<buckets, queueBytes, arrivals>>

registerDroppedGatewayObservationCount(count) ==
    /\ dropCount + count <= MaxDropCount
    /\ dropCount' = dropCount + count
    /\ batch' = <<>>
    /\ UNCHANGED <<buckets, queueBytes, arrivals>>

Enqueue == \E p \in Priority, t \in ObservedAt, s \in SizeBytes :
               enqueueGatewayObservation(p, t, s)

Next ==
    \/ Enqueue
    \/ drainPendingGatewayObservationBatch(BatchSize)
    \/ clearPendingGatewayObservationQueue
    \/ consumeDroppedGatewayObservationCount
    \/ registerDroppedGatewayObservationCount(1)

Spec == Init /\ [][Next]_vars

-----------------------------------------------------------------------------
Queued == UNION {Range(buckets[p]) : p \in Priority}

(***************************************************************************)
(* drainPendingGatewayObservationBatch merges the buckets back into time   *)
(* order: as long as the clock did not step back within a bucket, a batch  *)
(* is chronological and nothing left behind is earlier than what it holds. *)
(***************************************************************************)
Chronological(seq) ==
    \A i, j \in DOMAIN seq : i < j => seq[i].observedAt <= seq[j].observedAt

BatchesAreChronological ==
    [][ (batch' # <<>> /\ \A p \in Priority : Chronological(buckets[p]))
        => /\ Chronological(batch')
           /\ \A x \in Range(batch'), y \in Queued' : x.observedAt <= y.observedAt ]_vars

(***************************************************************************)
(* Load is shed from the lowest priority: whatever an enqueue drops (the   *)
(* new observation included) ranks no higher than everything it leaves     *)
(* queued, so an error or terminal observation only goes when nothing less *)
(* important is left.                                                      *)
(***************************************************************************)
ShedsLowestPriorityFirst ==
    [][ dropCount' > dropCount /\ arrivals' > arrivals
        => \A x \in Queued \ Queued', y \in Queued' : x.priority <= y.priority ]_vars

(***************************************************************************)
(* The buckets and loops implement the bounded buffer ObservationBuffer    *)
(* promises, so what is proved of it holds here: both limits, and a byte   *)
(* counter that never drifts from what is queued.                          *)
(***************************************************************************)
Buffer == INSTANCE ObservationBuffer WITH queue <- Queued

ImplementsBuffer == Buffer!Spec

(***************************************************************************)
(* The loop of enqueueGatewayObservation leaves the buckets within both    *)
(* limits, an observation larger than the whole byte limit included.       *)
(***************************************************************************)
WithinLimits == Buffer!WithinLimits

=============================================================================
