----------------------- MODULE ObservationBufferProofs -----------------------
(***************************************************************************)
(* ObservationBuffer stays within its limits, for every configuration and  *)
(* any number of observations.                                             *)
(*                                                                         *)
(* The limits alone are not inductive: the byte limit is tested on the     *)
(* running counter, so the counter has to be known to be exact, and for    *)
(* that arrivals have to be distinct (TypeOK).                             *)
(***************************************************************************)
EXTENDS ObservationBuffer, FiniteSetTheorems, FunctionTheorems,
        WellFoundedInduction, TLAPS

Distinct(S) == \A x, y \in S : x.arrival = y.arrival => x = y

AllBytes(S) == UNION {BytesOf(x) : x \in S}

-----------------------------------------------------------------------------
(***************************************************************************)
(* The bytes of one observation are its size in number.                    *)
(***************************************************************************)
LEMMA BytesOfOne ==
    ASSUME NEW x \in Observation
    PROVE  /\ IsFiniteSet(BytesOf(x))
           /\ Cardinality(BytesOf(x)) = x.sizeBytes
<1>1. x.sizeBytes \in Nat
  BY ObservationAssumption DEF Observation
<1>2. /\ IsFiniteSet(1..x.sizeBytes)
      /\ Cardinality(1..x.sizeBytes) = x.sizeBytes
  <2>1. ASSUME NEW n \in Nat PROVE IsFiniteSet(1..n) /\ Cardinality(1..n) = n
    <3>1. /\ IsFiniteSet(1..n)
          /\ Cardinality(1..n) = IF 1 > n THEN 0 ELSE n - 1 + 1
      BY FS_Interval, 1 \in Int, n \in Int, Zenon
    <3> QED
      BY <3>1
  <2> QED
    BY <1>1, <2>1
<1>3. IsFiniteSet({x.arrival}) /\ Cardinality({x.arrival}) = 1
  BY FS_Singleton
<1>4. /\ IsFiniteSet({x.arrival} \X (1..x.sizeBytes))
      /\ Cardinality({x.arrival} \X (1..x.sizeBytes)) =
             Cardinality({x.arrival}) * Cardinality(1..x.sizeBytes)
  BY <1>2, <1>3, FS_Product, Zenon
<1> QED
  BY <1>1, <1>2, <1>3, <1>4 DEF BytesOf

(***************************************************************************)
(* The bytes of finitely many observations are finitely many.              *)
(***************************************************************************)
LEMMA BytesFinite ==
    ASSUME NEW S \in SUBSET Observation, IsFiniteSet(S)
    PROVE  /\ IsFiniteSet(AllBytes(S))
           /\ Bytes(S) = Cardinality(AllBytes(S))
           /\ Bytes(S) \in Nat
<1> DEFINE T == {BytesOf(x) : x \in S}
           f == [x \in S |-> BytesOf(x)]
<1>1. f \in Surjection(S, T)
  BY DEF Surjection
<1>2. IsFiniteSet(T)
  BY <1>1, FS_Surjection
<1>3. \A t \in T : IsFiniteSet(t)
  BY BytesOfOne
<1>4. IsFiniteSet(UNION T)
  BY <1>2, <1>3, FS_UNION
<1> QED
  BY <1>4, FS_CardinalityType DEF AllBytes, Bytes

(***************************************************************************)
(* Bytes add up: taking observations out of S takes their bytes out.       *)
(***************************************************************************)
LEMMA BytesSplit ==
    ASSUME NEW S \in SUBSET Observation, IsFiniteSet(S), Distinct(S),
           NEW T \in SUBSET S
    PROVE  Bytes(S) = Bytes(T) + Bytes(S \ T)
<1>1. IsFiniteSet(T) /\ IsFiniteSet(S \ T)
  BY FS_Subset
<1>2. /\ IsFiniteSet(AllBytes(T)) /\ Bytes(T) = Cardinality(AllBytes(T)) /\ Bytes(T) \in Nat
      /\ IsFiniteSet(AllBytes(S \ T)) /\ Bytes(S \ T) = Cardinality(AllBytes(S \ T))
      /\ Bytes(S \ T) \in Nat
      /\ Bytes(S) = Cardinality(AllBytes(S))
  BY <1>1, BytesFinite
<1>3. AllBytes(S) = AllBytes(T) \cup AllBytes(S \ T)
  BY DEF AllBytes
<1>4. AllBytes(T) \cap AllBytes(S \ T) = {}
  <2> SUFFICES ASSUME NEW b \in AllBytes(T), b \in AllBytes(S \ T) PROVE FALSE
    OBVIOUS
  <2>1. PICK x \in T : b \in BytesOf(x)
    BY DEF AllBytes
  <2>2. PICK y \in S \ T : b \in BytesOf(y)
    BY DEF AllBytes
  <2>3. x.arrival = y.arrival
    BY <2>1, <2>2 DEF BytesOf
  <2> QED
    BY <2>3 DEF Distinct
<1>5. Cardinality(AllBytes(T) \cap AllBytes(S \ T)) = 0
  BY <1>4, FS_EmptySet
<1>6. Cardinality(AllBytes(T) \cup AllBytes(S \ T)) =
          Cardinality(AllBytes(T)) + Cardinality(AllBytes(S \ T))
              - Cardinality(AllBytes(T) \cap AllBytes(S \ T))
  BY <1>2, FS_Union, Zenon
<1> QED
  BY <1>2, <1>3, <1>5, <1>6

(***************************************************************************)
(* Among the observations of a nonempty set one is dropped first.          *)
(***************************************************************************)
LEMMA FirstDropped ==
    ASSUME NEW S \in SUBSET Observation, S # {}
    PROVE  \E x \in S : \A y \in S : ~ DropsBefore(y, x)
<1> DEFINE P == {x.priority : x \in S}
<1>1. P \subseteq Nat /\ P # {}
  BY DEF Observation, Priority
<1>2. PICK p \in P : \A q \in P : ~ (<<q, p>> \in OpToRel(<, Nat))
  BY <1>1, WFMin, NatLessThanWellFounded
<1> DEFINE A == {x.arrival : x \in {z \in S : z.priority = p}}
<1>3. A \subseteq Nat /\ A # {}
  BY DEF Observation
<1>4. PICK a \in A : \A b \in A : ~ (<<b, a>> \in OpToRel(<, Nat))
  BY <1>3, WFMin, NatLessThanWellFounded
<1>5. PICK x \in S : x.priority = p /\ x.arrival = a
  OBVIOUS
<1>6. ASSUME NEW y \in S PROVE ~ DropsBefore(y, x)
  <2>1. ~ (y.priority < x.priority)
    BY <1>1, <1>2, <1>5 DEF OpToRel
  <2>2. y.priority = x.priority => ~ (y.arrival < x.arrival)
    BY <1>3, <1>4, <1>5 DEF OpToRel
  <2> QED
    BY <2>1, <2>2 DEF DropsBefore
<1> QED
  BY <1>6

(***************************************************************************)
(* What the drop loop keeps is within both limits.                         *)
(***************************************************************************)
LEMMA KeptFits ==
    ASSUME NEW S \in SUBSET Observation, IsFiniteSet(S), Distinct(S)
    PROVE  /\ Cardinality(Kept(S, Bytes(S))) <= MaxQueueSize
           /\ Bytes(Kept(S, Bytes(S))) <= MaxQueueBytes
<1> DEFINE K == Kept(S, Bytes(S))
<1>1. K \in SUBSET S
  BY DEF Kept
<1>2. CASE K = {}
  <2>1. AllBytes(K) = {}
    BY <1>2 DEF AllBytes
  <2>2. Cardinality(K) = 0 /\ Bytes(K) = 0
    BY <1>1, <1>2, <2>1, FS_EmptySet, BytesFinite
  <2> QED
    BY <2>2, LimitsAssumption
<1>3. CASE K # {}
  <2>1. PICK x \in K : \A y \in K : ~ DropsBefore(y, x)
    BY <1>1, <1>3, FirstDropped
  <2> DEFINE G == DroppedBefore(S, x)
             R == S \ G
  <2>2. G \in SUBSET S /\ R \in SUBSET S /\ K \in SUBSET R
    BY <1>1, <2>1 DEF DroppedBefore
  <2>3. Cardinality(R) <= MaxQueueSize /\ Bytes(S) - Bytes(G) <= MaxQueueBytes
    BY <2>1 DEF Kept, FitsWithout
  <2>4. IsFiniteSet(R) /\ IsFiniteSet(G) /\ IsFiniteSet(K)
    BY <2>2, FS_Subset
  <2>5. Bytes(S) = Bytes(G) + Bytes(R)
    BY <2>2, BytesSplit
  <2>6. Distinct(R)
    BY <2>2 DEF Distinct
  <2>7. Bytes(R) = Bytes(K) + Bytes(R \ K)
    BY <2>2, <2>4, <2>6, BytesSplit
  <2>8. /\ Bytes(R) \in Nat /\ Bytes(G) \in Nat /\ Bytes(K) \in Nat /\ Bytes(R \ K) \in Nat
    <3>1. IsFiniteSet(R \ K)
      BY <2>4, FS_Subset
    <3> QED
      BY <2>2, <2>4, <3>1, BytesFinite
  <2>9. Cardinality(K) <= Cardinality(R)
    BY <2>2, <2>4, FS_Subset
  <2>10. Cardinality(K) \in Nat /\ Cardinality(R) \in Nat
    BY <2>4, FS_CardinalityType
  <2> HIDE DEF K, G, R
  <2>11. Cardinality(K) <= MaxQueueSize
    BY <2>3, <2>9, <2>10, LimitsAssumption
  <2>12. Bytes(K) <= MaxQueueBytes
    BY <2>3, <2>5, <2>7, <2>8, LimitsAssumption
  <2> QED
    BY <2>11, <2>12 DEF K
<1> QED
  BY <1>2, <1>3

-----------------------------------------------------------------------------
Inv == TypeOK /\ CounterIsExact /\ WithinLimits

(***************************************************************************)
(* Taking observations out, as a drain does, keeps the invariant when the  *)
(* counter gives up their bytes.                                           *)
(***************************************************************************)
LEMMA Shrink ==
    ASSUME NEW S \in SUBSET Observation, IsFiniteSet(S), Distinct(S),
           NEW T \in SUBSET S
    PROVE  /\ S \ T \in SUBSET Observation /\ IsFiniteSet(S \ T) /\ Distinct(S \ T)
           /\ Bytes(S) - Bytes(T) = Bytes(S \ T)
           /\ Bytes(S \ T) \in Nat /\ Bytes(T) \in Nat /\ Bytes(S) \in Nat
           /\ Cardinality(S \ T) \in Nat /\ Cardinality(S) \in Nat /\ Cardinality(T) \in Nat
           /\ Cardinality(S \ T) <= Cardinality(S)
<1>1. IsFiniteSet(S \ T) /\ IsFiniteSet(T) /\ Cardinality(S \ T) <= Cardinality(S)
  BY FS_Subset
<1>2. Bytes(S \ T) \in Nat /\ Bytes(T) \in Nat /\ Bytes(S) \in Nat
  BY <1>1, BytesFinite
<1>3. Bytes(S) - Bytes(T) = Bytes(S \ T)
  BY <1>2, BytesSplit
<1>4. Cardinality(S \ T) \in Nat /\ Cardinality(S) \in Nat /\ Cardinality(T) \in Nat
  BY <1>1, FS_CardinalityType
<1>5. S \ T \in SUBSET Observation /\ Distinct(S \ T)
  BY DEF Distinct
<1> QED
  BY <1>1, <1>2, <1>3, <1>4, <1>5

\* Appending an observation after the drops that make it fit keeps both limits and
\* the byte counter.
LEMMA EnqueueStep ==
    ASSUME Inv, NEW p \in Priority, NEW t \in ObservedAt, NEW s \in SizeBytes,
           enqueueGatewayObservation(p, t, s)
    PROVE  Inv'
<1> DEFINE item == [arrival |-> arrivals, priority |-> p,
                    observedAt |-> t, sizeBytes |-> s]
           full == queue \cup {item}
           kept == Kept(full, queueBytes + s)
           gone == full \ kept
<1>1. /\ arrivals \in Nat /\ dropCount \in Nat /\ queueBytes \in Nat
      /\ queue \in SUBSET Observation /\ IsFiniteSet(queue) /\ Distinct(queue)
      /\ \A x \in queue : x.arrival < arrivals
      /\ queueBytes = Bytes(queue)
  BY DEF Inv, TypeOK, CounterIsExact, Distinct
<1>2. item \in Observation /\ item.sizeBytes = s /\ item.arrival = arrivals
  BY <1>1 DEF Observation
<1>3. /\ full \in SUBSET Observation /\ IsFiniteSet(full) /\ item \notin queue
  BY <1>1, <1>2, FS_AddElement
<1>4. Distinct(full)
  BY <1>1, <1>2 DEF Distinct
<1>5. Bytes(full) = queueBytes + s
  <2>1. {item} \in SUBSET full /\ full \ {item} = queue
    BY <1>3
  <2>2. Bytes(full) = Bytes({item}) + Bytes(queue)
    BY <1>3, <1>4, <2>1, BytesSplit
  <2>3. UNION {BytesOf(x) : x \in {item}} = BytesOf(item)
    OBVIOUS
  <2>4. Bytes({item}) = s
    BY <1>2, <2>3, BytesOfOne DEF Bytes
  <2> HIDE DEF item, full
  <2> QED
    BY <1>1, <2>2, <2>4, ObservationAssumption
<1>6. kept = Kept(full, Bytes(full)) /\ kept \in SUBSET full
  BY <1>5 DEF Kept
<1>7. /\ queue' = kept /\ queueBytes' = (queueBytes + s) - Bytes(gone)
      /\ dropCount' = dropCount + Cardinality(gone) /\ arrivals' = arrivals + 1
  BY DEF enqueueGatewayObservation
<1>8. full \ gone = kept /\ gone \in SUBSET full
  BY <1>6
<1>9. Cardinality(kept) <= MaxQueueSize /\ Bytes(kept) <= MaxQueueBytes
  BY <1>3, <1>4, <1>6, KeptFits
<1>10. \A x \in full : x.arrival < arrivals + 1
  <2>1. ASSUME NEW x \in queue PROVE x.arrival < arrivals + 1
    <3>1. x.arrival \in Nat /\ x.arrival < arrivals
      BY <1>1 DEF Observation
    <3> QED
      BY <1>1, <3>1
  <2>2. item.arrival < arrivals + 1
    BY <1>1, <1>2
  <2> QED
    BY <2>1, <2>2
<1> HIDE DEF item, full, kept, gone
<1>11. /\ full \ gone \in SUBSET Observation /\ IsFiniteSet(full \ gone) /\ Distinct(full \ gone)
       /\ Bytes(full) - Bytes(gone) = Bytes(full \ gone)
       /\ Bytes(full \ gone) \in Nat
       /\ Cardinality(gone) \in Nat
  BY <1>3, <1>4, <1>8, Shrink
<1>12. TypeOK'
  <2>1. queueBytes' \in Nat /\ dropCount' \in Nat /\ arrivals' \in Nat
    BY <1>1, <1>5, <1>7, <1>8, <1>11
  <2>2. queue' \in SUBSET Observation /\ IsFiniteSet(queue')
    BY <1>7, <1>8, <1>11
  <2>3. \A x \in queue' : x.arrival < arrivals'
    BY <1>6, <1>7, <1>10
  <2>4. \A x, y \in queue' : x.arrival = y.arrival => x = y
    BY <1>7, <1>8, <1>11 DEF Distinct
  <2> QED
    BY <2>1, <2>2, <2>3, <2>4 DEF TypeOK
<1>13. CounterIsExact'
  <2>1. (queueBytes + s) - Bytes(gone) = Bytes(kept)
    BY <1>5, <1>8, <1>11
  <2>2. queueBytes' = Bytes(queue')
    BY <1>7, <2>1
  <2> QED
    BY <2>2 DEF CounterIsExact
<1>14. WithinLimits'
  BY <1>7, <1>9, <1>13 DEF WithinLimits, CounterIsExact
<1> QED
  BY <1>12, <1>13, <1>14 DEF Inv

\* Taking a batch off the queue keeps both limits and the byte counter.
LEMMA DrainStep ==
    ASSUME Inv, drainPendingGatewayObservationBatch(BatchSize)
    PROVE  Inv'
<1> DEFINE taken == Batch(queue, BatchSize)
<1>1. taken \in SUBSET queue
  BY DEF Batch
<1>2. /\ queue' = queue \ taken /\ queueBytes' = queueBytes - Bytes(taken)
      /\ dropCount' = dropCount /\ arrivals' = arrivals
  BY DEF drainPendingGatewayObservationBatch
<1>3. /\ queue \in SUBSET Observation /\ IsFiniteSet(queue) /\ Distinct(queue)
      /\ queueBytes = Bytes(queue) /\ dropCount \in Nat /\ arrivals \in Nat
      /\ \A x \in queue : x.arrival < arrivals
      /\ Cardinality(queue) <= MaxQueueSize /\ queueBytes <= MaxQueueBytes
  BY DEF Inv, TypeOK, CounterIsExact, WithinLimits, Distinct
<1> HIDE DEF taken
<1>4. /\ queue \ taken \in SUBSET Observation /\ IsFiniteSet(queue \ taken)
      /\ Distinct(queue \ taken)
      /\ Bytes(queue) - Bytes(taken) = Bytes(queue \ taken)
      /\ Bytes(queue \ taken) \in Nat /\ Bytes(taken) \in Nat /\ Bytes(queue) \in Nat
      /\ Cardinality(queue \ taken) \in Nat /\ Cardinality(queue) \in Nat
      /\ Cardinality(queue \ taken) <= Cardinality(queue)
  BY <1>1, <1>3, Shrink
<1>5. TypeOK'
  BY <1>2, <1>3, <1>4 DEF TypeOK, Distinct
<1>6. CounterIsExact'
  BY <1>2, <1>3, <1>4 DEF CounterIsExact
<1>7. WithinLimits'
  BY <1>2, <1>3, <1>4, LimitsAssumption DEF WithinLimits
<1> QED
  BY <1>5, <1>6, <1>7 DEF Inv

\* An empty queue satisfies the invariant, whatever was logged or dropped.
LEMMA EmptyQueue ==
    /\ {} \in SUBSET Observation /\ IsFiniteSet({})
    /\ Cardinality({}) = 0 /\ Bytes({}) = 0
<1>1. UNION {BytesOf(x) : x \in {}} = {}
  OBVIOUS
<1> QED
  BY <1>1, FS_EmptySet DEF Bytes

(***************************************************************************)
(* The queue of gateway-observation-queue.ts never holds more observations *)
(* or bytes than configured, and its byte counter is exact: for every      *)
(* batch size, every pair of limits and every sequence of calls.           *)
(***************************************************************************)
THEOREM BufferInvariant == Spec => [](TypeOK /\ CounterIsExact /\ WithinLimits)
<1>1. Init => Inv
  BY EmptyQueue, LimitsAssumption DEF Init, Inv, TypeOK, CounterIsExact, WithinLimits
<1>2. Inv /\ [Next]_vars => Inv'
  <2> SUFFICES ASSUME Inv, [Next]_vars PROVE Inv'
    OBVIOUS
  <2>1. CASE \E p \in Priority, t \in ObservedAt, s \in SizeBytes :
                 enqueueGatewayObservation(p, t, s)
    BY <2>1, EnqueueStep
  <2>2. CASE drainPendingGatewayObservationBatch(BatchSize)
    BY <2>2, DrainStep
  <2>3. CASE clearPendingGatewayObservationQueue
    BY <2>3, EmptyQueue, LimitsAssumption
    DEF clearPendingGatewayObservationQueue, Inv, TypeOK, CounterIsExact, WithinLimits
  <2>4. CASE consumeDroppedGatewayObservationCount
    BY <2>4 DEF consumeDroppedGatewayObservationCount, Inv, TypeOK, CounterIsExact, WithinLimits
  <2>5. CASE registerDroppedGatewayObservationCount(1)
    BY <2>5 DEF registerDroppedGatewayObservationCount, Inv, TypeOK, CounterIsExact, WithinLimits
  <2>6. CASE UNCHANGED vars
    BY <2>6 DEF vars, Inv, TypeOK, CounterIsExact, WithinLimits
  <2> QED
    BY <2>1, <2>2, <2>3, <2>4, <2>5, <2>6 DEF Next
<1>3. Inv => TypeOK /\ CounterIsExact /\ WithinLimits
  BY DEF Inv
<1> QED
  BY <1>1, <1>2, <1>3, PTL DEF Spec

=============================================================================
