-------------------------- MODULE ObservationLimits --------------------------
(***************************************************************************)
(* The limits of the observation queue and what an observation can carry:  *)
(* the parameters the buffer and the queue that implements it share.       *)
(***************************************************************************)
EXTENDS Naturals

CONSTANTS
    BatchSize,      \* gatewayObservationBatchSize()
    MaxQueueSize,   \* gatewayObservationMaxQueueSize()
    MaxQueueBytes,  \* gatewayObservationMaxQueueBytes()
    ObservedAt,     \* the timestamps an observation can carry
    SizeBytes,      \* the serialized sizes an observation can have
    MaxArrivals,    \* bound: how many observations are enqueued
    MaxDropCount    \* bound: how many drops accumulate before they are logged

Priority == 0..3

(***************************************************************************)
(* Both limits are at least the batch size, which is positive.             *)
(***************************************************************************)
ASSUME LimitsAssumption ==
    /\ BatchSize \in Nat \ {0}
    /\ MaxQueueSize \in Nat /\ MaxQueueSize >= BatchSize
    /\ MaxQueueBytes \in Nat /\ MaxQueueBytes >= BatchSize

ASSUME ObservationAssumption ==
    /\ ObservedAt \subseteq Nat
    /\ SizeBytes \subseteq Nat
    /\ MaxArrivals \in Nat
    /\ MaxDropCount \in Nat

=============================================================================
