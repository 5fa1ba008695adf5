------------------------ MODULE ObservationQueueProofs ------------------------
(***************************************************************************)
(* The buckets and loops of the queue implement the bounded buffer, for    *)
(* every batch size, all limits, timestamps and sizes, and any sequence of *)
(* calls: so what is proved of the buffer holds of the queue.              *)
(***************************************************************************)
EXTENDS ObservationQueue, FiniteSetTheorems, SequenceTheorems, WellFoundedInduction, TLAPS

Promise == INSTANCE ObservationBufferProofs WITH queue <- Queued

Observation == Buffer!Observation

Bytes(S) == Buffer!Bytes(S)

Distinct(S) == \A x, y \in S : x.arrival = y.arrival => x = y

\* The standard operators are the same, through whichever instance they are reached.
LEMMA SameOperators ==
    /\ \A S : (Promise!IsFiniteSet(S) <=> IsFiniteSet(S)) /\ (Buffer!IsFiniteSet(S) <=> IsFiniteSet(S))
    /\ \A S : Promise!Cardinality(S) = Cardinality(S) /\ Buffer!Cardinality(S) = Cardinality(S)
    /\ \A S : Buffer!Max(S) = Max(S)
    /\ Promise!Priority = Priority /\ Buffer!Priority = Priority
<1>1. \A S : (Promise!IsFiniteSet(S) <=> IsFiniteSet(S)) /\ (Buffer!IsFiniteSet(S) <=> IsFiniteSet(S))
  BY Zenon DEF Promise!IsFiniteSet, Buffer!IsFiniteSet, IsFiniteSet
<1>2. \A S : Promise!Cardinality(S) = Cardinality(S) /\ Buffer!Cardinality(S) = Cardinality(S)
  BY Zenon DEF Promise!Cardinality, Buffer!Cardinality, Cardinality
<1>3. \A S : Buffer!Max(S) = Max(S)
  BY Zenon DEF Buffer!Max, Max
<1>4. Promise!Priority = Priority /\ Buffer!Priority = Priority
  BY Zenon DEF Promise!Priority, Buffer!Priority, Priority
<1>. QED BY <1>1, <1>2, <1>3, <1>4, Zenon

LEMMA SameBytes ==
    /\ Promise!Observation = Observation
    /\ \A S : Promise!Bytes(S) = Bytes(S)
<1>1. Promise!Observation = Observation
  BY SameOperators DEF Promise!Observation, Buffer!Observation, Observation
<1>2. \A S : Promise!Bytes(S) = Bytes(S)
  BY SameOperators DEF Bytes, Promise!Bytes, Buffer!Bytes, Promise!BytesOf, Buffer!BytesOf
<1>. QED BY <1>1, <1>2, Zenon

LEMMA ObservationTyped ==
    ASSUME NEW x \in Observation
    PROVE  /\ x.arrival \in Nat /\ x.priority \in Priority /\ x.priority \in Nat
           /\ x.observedAt \in ObservedAt /\ x.observedAt \in Nat /\ x.sizeBytes \in Nat
<1>1. Observation = [arrival : Nat, priority : Priority, observedAt : ObservedAt, sizeBytes : SizeBytes]
  BY SameOperators, Zenon DEF Observation, Buffer!Observation
<1>2. x \in [arrival : Nat, priority : Priority, observedAt : ObservedAt, sizeBytes : SizeBytes]
  BY <1>1, Zenon
<1>3. x.arrival \in Nat /\ x.priority \in Priority /\ x.observedAt \in ObservedAt /\ x.sizeBytes \in SizeBytes
  BY <1>2, Zenon
<1>4. x.priority \in Nat
  BY <1>3 DEF Priority
<1>5. x.observedAt \in Nat /\ x.sizeBytes \in Nat
  BY <1>3, ObservationAssumption, Zenon
<1>. QED BY <1>3, <1>4, <1>5

\* Bytes add up, and the fewer observations the fewer bytes.
LEMMA BytesAddUp ==
    ASSUME NEW S \in SUBSET Observation, IsFiniteSet(S), Distinct(S), NEW T \in SUBSET S
    PROVE  /\ Bytes(S) = Bytes(T) + Bytes(S \ T)
           /\ Bytes(S) \in Nat /\ Bytes(T) \in Nat /\ Bytes(S \ T) \in Nat
<1>1. IsFiniteSet(T) /\ IsFiniteSet(S \ T)
  BY FS_Subset
<1>2. Promise!Distinct(S)
  BY DEF Distinct, Promise!Distinct
<1>3. \A U : Promise!IsFiniteSet(U) <=> IsFiniteSet(U)
  BY SameOperators, Zenon
<1>4. S \in SUBSET Promise!Observation /\ T \in SUBSET Promise!Observation
      /\ S \ T \in SUBSET Promise!Observation
  BY SameBytes
<1>5. Promise!Bytes(S) = Promise!Bytes(T) + Promise!Bytes(S \ T)
  BY <1>2, <1>3, <1>4, Promise!BytesSplit, LimitsAssumption, ObservationAssumption, Zenon
<1>6. Promise!Bytes(S) \in Nat /\ Promise!Bytes(T) \in Nat /\ Promise!Bytes(S \ T) \in Nat
  BY <1>1, <1>3, <1>4, Promise!BytesFinite, LimitsAssumption, ObservationAssumption, Zenon
<1>. QED BY <1>5, <1>6, SameBytes, Zenon

LEMMA BytesOfOne == ASSUME NEW x \in Observation PROVE Bytes({x}) = x.sizeBytes
<1>1. x \in Promise!Observation
  BY SameBytes, Zenon
<1>2. Promise!Cardinality(Promise!BytesOf(x)) = x.sizeBytes
  BY <1>1, Promise!BytesOfOne, LimitsAssumption, ObservationAssumption, Zenon
<1>3. UNION {Promise!BytesOf(y) : y \in {x}} = Promise!BytesOf(x)
  OBVIOUS
<1>4. Promise!Bytes({x}) = x.sizeBytes
  BY <1>2, <1>3, Zenon DEF Promise!Bytes
<1>. QED BY <1>4, SameBytes, Zenon

-----------------------------------------------------------------------------
(***************************************************************************)
(* Least elements, and induction as it can be cited: of a set of naturals. *)
(***************************************************************************)
LEMMA LeastNatural ==
    ASSUME NEW K \in SUBSET Nat, K # {}
    PROVE  \E m \in K : \A k \in K : m <= k
<1>1. PICK m \in K : \A k \in K : <<k, m>> \notin OpToRel(<, Nat)
  BY WFMin, NatLessThanWellFounded, Zenon
<1>2. \A k \in K : ~(k < m)
  BY <1>1, Zenon DEF OpToRel
<1>. QED BY <1>2

LEMMA NaturalsInduct ==
    ASSUME NEW G \in SUBSET Nat, 0 \in G, \A k \in Nat : k \in G => k + 1 \in G
    PROVE  G = Nat
<1>1. SUFFICES ASSUME Nat \ G # {} PROVE FALSE
  BY Zenon
<1>2. PICK m \in Nat \ G : \A k \in Nat \ G : m <= k
  BY <1>1, LeastNatural, Zenon
<1>3. m # 0 /\ m \in Nat
  BY Zenon
<1>4. m - 1 \in Nat /\ ~(m <= m - 1) /\ (m - 1) + 1 = m
  BY <1>3
<1>5. m - 1 \in G
  BY <1>2, <1>4, Zenon
<1>6. m \in G
  BY <1>4, <1>5
<1>. QED BY <1>6

-----------------------------------------------------------------------------
(***************************************************************************)
(* The rounds of a loop: the function by which DropToLimits and DrainLoop  *)
(* go from one round to the next exists, and so gives what they say.       *)
(***************************************************************************)
Round(kind, s) == IF kind = "drop" THEN dropRound(s) ELSE drainRound(s)

Rounds(f, kind, s, n) == f = [k \in 0 .. n |-> IF k = 0 THEN s ELSE Round(kind, f[k - 1])]

LEMMA RoundsExist ==
    ASSUME NEW kind, NEW s, NEW n \in Nat
    PROVE  \E f : Rounds(f, kind, s, n)
<1>. DEFINE G == {k \in Nat : \E f : Rounds(f, kind, s, k)}
<1>1. 0 \in G
  <2>. DEFINE f == [k \in 0 .. 0 |-> s]
  <2>1. \A k \in 0 .. 0 : k = 0
    OBVIOUS
  <2>2. Rounds(f, kind, s, 0)
    BY <2>1 DEF Rounds
  <2>. QED BY <2>2
<1>2. ASSUME NEW k \in Nat, k \in G PROVE k + 1 \in G
  <2>1. PICK f : Rounds(f, kind, s, k)
    BY <1>2
  <2>. DEFINE g == [j \in 0 .. k + 1 |-> IF j = 0 THEN s ELSE Round(kind, f[j - 1])]
  <2>2. ASSUME NEW j \in 0 .. k PROVE g[j] = f[j]
    <3>1. j \in 0 .. k + 1
      OBVIOUS
    <3>2. f[j] = IF j = 0 THEN s ELSE Round(kind, f[j - 1])
      BY <2>1, Zenon DEF Rounds
    <3>. QED BY <3>1, <3>2, Zenon
  <2>3. ASSUME NEW j \in 0 .. k + 1, j # 0 PROVE g[j - 1] = f[j - 1]
    <3>1. j - 1 \in 0 .. k
      BY <2>3
    <3>. QED BY <2>2, <3>1, Zenon
  <2>4. g = [j \in 0 .. k + 1 |-> IF j = 0 THEN s ELSE Round(kind, g[j - 1])]
    BY <2>3, Zenon
  <2>5. Rounds(g, kind, s, k + 1)
    BY <2>4, Zenon DEF Rounds
  <2>. QED BY <2>5
<1>3. G = Nat
  <2>. HIDE DEF G
  <2>1. G \in SUBSET Nat
    BY DEF G
  <2>. QED BY <1>1, <1>2, <2>1, NaturalsInduct, Zenon
<1>. QED BY <1>3

LEMMA DropRounds ==
    ASSUME NEW s, QueueLength(s.buckets) \in Nat
    PROVE  \E f : /\ f[0] = s
                  /\ \A k \in 1 .. QueueLength(s.buckets) : f[k] = dropRound(f[k - 1])
                  /\ DropToLimits(s) = f[QueueLength(s.buckets)]
<1>. DEFINE n == QueueLength(s.buckets)
            Is(f) == f = [k \in 0 .. n |-> IF k = 0 THEN s ELSE dropRound(f[k - 1])]
<1>1. \A f : Rounds(f, "drop", s, n) <=> Is(f)
  BY Zenon DEF Rounds, Round
<1>2. \E f : Is(f)
  BY <1>1, RoundsExist, Zenon
<1>3. DropToLimits(s) = (CHOOSE f : Is(f))[n]
  BY Zenon DEF DropToLimits
<1>. HIDE DEF Is
<1>4. PICK f : Is(f) /\ DropToLimits(s) = f[n]
  BY <1>2, <1>3, Zenon
<1>5. f = [k \in 0 .. n |-> IF k = 0 THEN s ELSE dropRound(f[k - 1])]
  BY <1>4 DEF Is
<1>. HIDE DEF n
<1>6. 0 \in 0 .. n /\ n \in 0 .. n /\ \A k \in 1 .. n : k \in 0 .. n /\ k # 0
  BY DEF n
<1>7. f[0] = s
  BY <1>5, <1>6, Zenon
<1>8. \A k \in 1 .. n : f[k] = dropRound(f[k - 1])
  BY <1>5, <1>6, Zenon
<1>. QED BY <1>4, <1>7, <1>8, Zenon DEF n

LEMMA DrainRounds ==
    ASSUME NEW s, NEW n \in Nat
    PROVE  \E f : /\ f[0] = s
                  /\ \A k \in 1 .. n : f[k] = drainRound(f[k - 1])
                  /\ DrainLoop(s, n) = f[n]
<1>. DEFINE Is(f) == f = [k \in 0 .. n |-> IF k = 0 THEN s ELSE drainRound(f[k - 1])]
<1>1. \A f : Rounds(f, "drain", s, n) <=> Is(f)
  BY Zenon DEF Rounds, Round
<1>2. \E f : Is(f)
  BY <1>1, RoundsExist, Zenon
<1>3. DrainLoop(s, n) = (CHOOSE f : Is(f))[n]
  BY Zenon DEF DrainLoop
<1>. HIDE DEF Is
<1>4. PICK f : Is(f) /\ DrainLoop(s, n) = f[n]
  BY <1>2, <1>3, Zenon
<1>5. f = [k \in 0 .. n |-> IF k = 0 THEN s ELSE drainRound(f[k - 1])]
  BY <1>4 DEF Is
<1>6. 0 \in 0 .. n /\ n \in 0 .. n /\ \A k \in 1 .. n : k \in 0 .. n /\ k # 0
  OBVIOUS
<1>7. f[0] = s
  BY <1>5, <1>6, Zenon
<1>8. \A k \in 1 .. n : f[k] = drainRound(f[k - 1])
  BY <1>5, <1>6, Zenon
<1>. QED BY <1>4, <1>7, <1>8, Zenon

-----------------------------------------------------------------------------
(***************************************************************************)
(* Buckets that are in order: a bucket holds the observations of its       *)
(* priority, first come first, and none is in them twice.                  *)
(***************************************************************************)
Contents(b) == UNION {Range(b[p]) : p \in Priority}

Sound(b) ==
    /\ b \in [Priority -> Seq(Observation)]
    /\ \A p \in Priority : \A i \in 1 .. Len(b[p]) : b[p][i].priority = p
    /\ \A p \in Priority : \A i, j \in 1 .. Len(b[p]) : i < j => b[p][i].arrival < b[p][j].arrival
    /\ Distinct(Contents(b))

LEMMA SequenceTyped ==
    ASSUME NEW s \in Seq(Observation)
    PROVE  /\ Len(s) \in Nat /\ DOMAIN s = 1 .. Len(s)
           /\ \A i \in 1 .. Len(s) : s[i] \in Observation
           /\ s = <<>> <=> 1 .. Len(s) = {}
<1>1. Len(s) \in Nat /\ DOMAIN s = 1 .. Len(s)
  OBVIOUS
<1>2. \A i \in 1 .. Len(s) : s[i] \in Observation
  BY ElementOfSeq, Zenon
<1>3. s = <<>> <=> Len(s) = 0
  BY EmptySeq, Zenon
<1>4. Len(s) = 0 <=> 1 .. Len(s) = {}
  <2>1. ASSUME NEW n \in Nat PROVE n = 0 <=> 1 .. n = {}
    <3>1. n # 0 => 1 \in 1 .. n
      OBVIOUS
    <3>2. n = 0 => 1 .. n = {}
      OBVIOUS
    <3>. QED BY <3>1, <3>2, Zenon
  <2>. QED BY <1>1, <2>1, Zenon
<1>. QED BY <1>1, <1>2, <1>3, <1>4, Zenon

LEMMA Listed ==
    ASSUME NEW b \in [Priority -> Seq(Observation)]
    PROVE  /\ Contents(b) \in SUBSET Observation
           /\ \A x : x \in Contents(b) <=> \E p \in Priority : \E i \in 1 .. Len(b[p]) : x = b[p][i]
           /\ Occupied(b) = {} <=> Contents(b) = {}
<1>1. ASSUME NEW p \in Priority
      PROVE  /\ b[p] \in Seq(Observation) /\ Range(b[p]) = {b[p][i] : i \in 1 .. Len(b[p])}
             /\ \A i \in 1 .. Len(b[p]) : b[p][i] \in Observation
             /\ b[p] = <<>> <=> 1 .. Len(b[p]) = {}
  <2>1. b[p] \in Seq(Observation)
    BY Zenon
  <2>. QED BY <2>1, SequenceTyped, Zenon DEF Range
<1>2. ASSUME NEW x PROVE x \in Contents(b) <=> \E p \in Priority : \E i \in 1 .. Len(b[p]) : x = b[p][i]
  <2>1. x \in Contents(b) <=> \E p \in Priority : x \in Range(b[p])
    BY Zenon DEF Contents
  <2>2. \A p \in Priority : x \in Range(b[p]) <=> \E i \in 1 .. Len(b[p]) : x = b[p][i]
    BY <1>1
  <2>. QED BY <2>1, <2>2, Zenon
<1>3. ASSUME NEW x \in Contents(b) PROVE x \in Observation
  <2>1. PICK p \in Priority : \E i \in 1 .. Len(b[p]) : x = b[p][i]
    BY <1>2, <1>3, Zenon
  <2>. QED BY <1>1, <2>1, Zenon
<1>4. ASSUME Occupied(b) = {} PROVE Contents(b) = {}
  <2>1. \A p \in Priority : 1 .. Len(b[p]) = {}
    BY <1>1, <1>4, Zenon DEF Occupied
  <2>2. \A x : x \notin Contents(b)
    BY <1>2, <2>1, Zenon
  <2>. QED BY <2>2, Zenon
<1>5. ASSUME Contents(b) = {} PROVE Occupied(b) = {}
  <2>1. SUFFICES ASSUME NEW p \in Priority, b[p] # <<>> PROVE FALSE
    BY Zenon DEF Occupied
  <2>2. PICK i \in 1 .. Len(b[p]) : TRUE
    BY <1>1, <2>1, Zenon
  <2>3. b[p][i] \in Contents(b)
    BY <1>2, Zenon
  <2>. QED BY <1>5, <2>3, Zenon
<1>. QED BY <1>2, <1>3, <1>4, <1>5, Zenon

LEMMA PutIn ==
    ASSUME NEW b \in [Priority -> Seq(Observation)], NEW p \in Priority, NEW i \in 1 .. Len(b[p])
    PROVE  b[p][i] \in Contents(b)
BY Listed, Zenon

LEMMA FoundIn ==
    ASSUME NEW b \in [Priority -> Seq(Observation)], NEW x \in Contents(b)
    PROVE  \E p \in Priority : \E i \in 1 .. Len(b[p]) : x = b[p][i]
BY Listed, Zenon

\* The head x of bucket p is taken off, which leaves c.
Pops(b, p, x, c) == p \in Priority /\ b[p] # <<>> /\ x = Head(b[p]) /\ c = [b EXCEPT ![p] = Tail(b[p])]

\* Taking the head of a bucket takes the first of its priority out of the contents.
LEMMA HeadLeaves ==
    ASSUME NEW b, Sound(b), NEW p \in Priority, NEW x, NEW c, Pops(b, p, x, c)
    PROVE  /\ b[p] # <<>> /\ Sound(c) /\ x \in Contents(b) /\ x \in Observation /\ x.priority = p /\ x = b[p][1]
           /\ Contents(c) = Contents(b) \ {x}
           /\ \A y \in Contents(b) \ {x} : y.priority = p => x.arrival < y.arrival
<1>0. b \in [Priority -> Seq(Observation)]
  BY Zenon DEF Sound
<1>. DEFINE s == b[p]
            n == Len(s)
<1>1. s \in Seq(Observation) /\ s # <<>>
  BY <1>0, Zenon DEF Pops
<1>. HIDE DEF s
<1>2. /\ n \in Nat /\ n >= 1 /\ 1 \in 1 .. n /\ Head(s) = s[1]
      /\ Tail(s) \in Seq(Observation) /\ Len(Tail(s)) = n - 1
      /\ \A i \in 1 .. n - 1 : i \in 1 .. n /\ i + 1 \in 1 .. n /\ Tail(s)[i] = s[i + 1]
  BY <1>1, HeadTailProperties
<1>3. /\ c \in [Priority -> Seq(Observation)] /\ c[p] = Tail(s)
      /\ \A q \in Priority \ {p} : c[q] = b[q]
  BY <1>0, <1>2, Zenon DEF s, Pops
<1>4. x = s[1] /\ x \in Observation /\ x \in Contents(b) /\ x.priority = p
  <2>1. x = s[1]
    BY <1>2, Zenon DEF s, Pops
  <2>2. x \in Contents(b)
    BY <1>0, <1>2, <2>1, PutIn, Zenon DEF s
  <2>3. x \in Observation
    BY <1>0, <2>2, Listed, Zenon
  <2>4. s[1].priority = p
    BY <1>2, Zenon DEF s, Sound
  <2>. QED BY <2>1, <2>2, <2>3, <2>4, Zenon
<1>5. ASSUME NEW j \in 1 .. n, j # 1
      PROVE  x.arrival < s[j].arrival /\ s[j] # x /\ j - 1 \in 1 .. n - 1 /\ Tail(s)[j - 1] = s[j]
  <2>1. 1 < j /\ j - 1 \in 1 .. n - 1 /\ (j - 1) + 1 = j
    BY <1>2, <1>5
  <2>2. s[1].arrival < s[j].arrival
    BY <1>2, <2>1, Zenon DEF s, Sound
  <2>3. x.arrival \in Nat
    BY <1>4, ObservationTyped, Zenon
  <2>4. x.arrival < s[j].arrival /\ s[j] # x
    <3>1. x.arrival < s[j].arrival
      BY <1>4, <2>2, Zenon
    <3>2. ~(x.arrival < x.arrival)
      BY <2>3
    <3>. QED BY <3>1, <3>2, Zenon
  <2>5. Tail(s)[j - 1] = s[j]
    BY <1>2, <2>1
  <2>. QED BY <2>1, <2>4, <2>5
<1>6. \A y \in Contents(b) \ {x} : y.priority = p => x.arrival < y.arrival
  <2>1. SUFFICES ASSUME NEW y \in Contents(b) \ {x}, y.priority = p PROVE x.arrival < y.arrival
    BY Zenon
  <2>2. PICK q \in Priority : \E i \in 1 .. Len(b[q]) : y = b[q][i]
    BY <1>0, <2>1, FoundIn, Zenon
  <2>3. PICK i \in 1 .. Len(b[q]) : y = b[q][i]
    BY <2>2
  <2>4. q = p
    BY <2>1, <2>3, Zenon DEF Sound
  <2>5. i \in 1 .. n /\ y = s[i] /\ i # 1
    BY <1>4, <2>1, <2>3, <2>4, Zenon DEF s
  <2>. QED BY <1>5, <2>5, Zenon
<1>7. Contents(c) = Contents(b) \ {x}
  <2>1. ASSUME NEW y \in Contents(c) PROVE y \in Contents(b) \ {x}
    <3>1. PICK q \in Priority : \E i \in 1 .. Len(c[q]) : y = c[q][i]
      BY <1>3, <2>1, FoundIn, Zenon
    <3>2. PICK i \in 1 .. Len(c[q]) : y = c[q][i]
      BY <3>1
    <3>3. CASE q = p
      <4>1. i \in 1 .. n - 1 /\ y = Tail(s)[i]
        BY <1>2, <1>3, <3>2, <3>3, Zenon
      <4>2. i + 1 \in 1 .. n /\ i + 1 # 1 /\ y = s[i + 1]
        BY <1>2, <4>1
      <4>3. y # x
        BY <1>5, <4>2, Zenon
      <4>4. y \in Contents(b)
        BY <1>0, <4>2, PutIn, Zenon DEF s
      <4>. QED BY <4>3, <4>4, Zenon
    <3>4. CASE q # p
      <4>1. i \in 1 .. Len(b[q]) /\ y = b[q][i]
        BY <1>3, <3>2, <3>4, Zenon
      <4>2. y \in Contents(b)
        BY <1>0, <4>1, PutIn, Zenon
      <4>3. y.priority = q
        BY <4>1, Zenon DEF Sound
      <4>. QED BY <1>4, <3>4, <4>2, <4>3, Zenon
    <3>. QED BY <3>3, <3>4, Zenon
  <2>2. ASSUME NEW y \in Contents(b) \ {x} PROVE y \in Contents(c)
    <3>1. PICK q \in Priority : \E i \in 1 .. Len(b[q]) : y = b[q][i]
      BY <1>0, <2>2, FoundIn, Zenon
    <3>2. PICK i \in 1 .. Len(b[q]) : y = b[q][i]
      BY <3>1
    <3>3. CASE q = p
      <4>1. i \in 1 .. n /\ i # 1 /\ y = s[i]
        BY <1>4, <2>2, <3>2, <3>3, Zenon DEF s
      <4>2. i - 1 \in 1 .. Len(c[p]) /\ y = c[p][i - 1]
        BY <1>2, <1>3, <1>5, <4>1, Zenon
      <4>. QED BY <1>3, <4>2, PutIn, Zenon
    <3>4. CASE q # p
      <4>1. i \in 1 .. Len(c[q]) /\ y = c[q][i]
        BY <1>3, <3>2, <3>4, Zenon
      <4>. QED BY <1>3, <4>1, PutIn, Zenon
    <3>. QED BY <3>3, <3>4, Zenon
  <2>. QED BY <2>1, <2>2, Zenon
<1>8. Sound(c)
  <2>1. ASSUME NEW q \in Priority, NEW i \in 1 .. Len(c[q])
        PROVE  \E k \in 1 .. Len(b[q]) : c[q][i] = b[q][k] /\ k = IF q = p THEN i + 1 ELSE i
    <3>1. CASE q = p
      <4>1. i \in 1 .. n - 1 /\ c[q][i] = Tail(s)[i]
        BY <1>2, <1>3, <3>1, Zenon
      <4>2. i + 1 \in 1 .. n /\ c[q][i] = s[i + 1]
        BY <1>2, <4>1, Zenon
      <4>. QED BY <3>1, <4>2, Zenon DEF s
    <3>2. CASE q # p
      BY <1>3, <3>2, Zenon
    <3>. QED BY <3>1, <3>2, Zenon
  <2>2. ASSUME NEW q \in Priority, NEW i \in 1 .. Len(c[q]) PROVE c[q][i].priority = q
    <3>1. PICK k \in 1 .. Len(b[q]) : c[q][i] = b[q][k]
      BY <2>1, Zenon
    <3>2. b[q][k].priority = q
      BY Zenon DEF Sound
    <3>. QED BY <3>1, <3>2, Zenon
  <2>3. ASSUME NEW q \in Priority, NEW i \in 1 .. Len(c[q]), NEW j \in 1 .. Len(c[q]), i < j
        PROVE  c[q][i].arrival < c[q][j].arrival
    <3>1. PICK k \in 1 .. Len(b[q]) : c[q][i] = b[q][k] /\ k = IF q = p THEN i + 1 ELSE i
      BY <2>1, Zenon
    <3>2. PICK l \in 1 .. Len(b[q]) : c[q][j] = b[q][l] /\ l = IF q = p THEN j + 1 ELSE j
      BY <2>1, Zenon
    <3>3. k < l
      BY <2>3, <3>1, <3>2
    <3>4. b[q][k].arrival < b[q][l].arrival
      BY <3>3, Zenon DEF Sound
    <3>. QED BY <3>1, <3>2, <3>4, Zenon
  <2>4. Distinct(Contents(c))
    BY <1>7, Zenon DEF Sound, Distinct
  <2>. QED BY <1>3, <2>2, <2>3, <2>4, Zenon DEF Sound
<1>. QED BY <1>1, <1>4, <1>6, <1>7, <1>8, Zenon DEF s

-----------------------------------------------------------------------------
(***************************************************************************)
(* The lengths of the buckets count what they hold.                        *)
(***************************************************************************)
LEMMA CountsAddUp ==
    ASSUME NEW S, NEW T, IsFiniteSet(S), IsFiniteSet(T), S \cap T = {}
    PROVE  IsFiniteSet(S \cup T) /\ Cardinality(S \cup T) = Cardinality(S) + Cardinality(T)
<1>1. Cardinality(S \cap T) = 0
  BY FS_EmptySet, Zenon
<1>2. Cardinality(S) \in Nat /\ Cardinality(T) \in Nat
  BY FS_CardinalityType, Zenon
<1>3. IsFiniteSet(S \cup T) /\ Cardinality(S \cup T) = Cardinality(S) + Cardinality(T) - Cardinality(S \cap T)
  BY FS_Union, Zenon
<1>. QED BY <1>1, <1>2, <1>3

LEMMA BucketCounts ==
    ASSUME NEW b, Sound(b), NEW p \in Priority
    PROVE  IsFiniteSet(Range(b[p])) /\ Cardinality(Range(b[p])) = Len(b[p]) /\ Len(b[p]) \in Nat
<1>. DEFINE s == b[p]
            n == Len(s)
            R == Range(s)
<1>1. s \in Seq(Observation)
  BY Zenon DEF Sound
<1>2. n \in Nat /\ DOMAIN s = 1 .. n /\ \A i \in 1 .. n : s[i] \in Observation
  BY <1>1, SequenceTyped, Zenon
<1>3. \A i, j \in 1 .. n : i < j => s[i].arrival < s[j].arrival
  BY Zenon DEF Sound
<1>. HIDE DEF s
<1>4. R = {s[i] : i \in 1 .. n}
  BY <1>2, Zenon DEF Range
<1>5. s \in [1 .. n -> R]
  <2>1. s = [i \in 1 .. n |-> s[i]]
    BY <1>1, <1>2
  <2>. QED BY <1>4, <2>1, Zenon
<1>6. ASSUME NEW i \in 1 .. n, NEW j \in 1 .. n, s[i] = s[j] PROVE i = j
  <2>1. s[i].arrival \in Nat /\ s[j].arrival \in Nat
    BY <1>2, ObservationTyped, Zenon
  <2>2. ~(s[i].arrival < s[j].arrival) /\ ~(s[j].arrival < s[i].arrival)
    BY <1>6, <2>1
  <2>3. ~(i < j) /\ ~(j < i)
    BY <1>3, <2>2, Zenon
  <2>. QED BY <2>3
<1>7. s \in Bijection(1 .. n, R)
  <2>1. s \in Injection(1 .. n, R)
    BY <1>5, <1>6, Zenon DEF Injection, IsInjective
  <2>2. s \in Surjection(1 .. n, R)
    BY <1>4, <1>5, Zenon DEF Surjection
  <2>. QED BY <2>1, <2>2, Zenon DEF Bijection
<1>8. IsFiniteSet(1 .. n) /\ Cardinality(1 .. n) = n
  BY <1>2, FS_Interval
<1>9. IsFiniteSet(R) /\ Cardinality(R) = n
  <2>. HIDE DEF R, n
  <2>. QED BY <1>7, <1>8, FS_Bijection, Zenon DEF ExistsBijection
<1>. QED BY <1>2, <1>9, Zenon DEF s

LEMMA LengthCounts ==
    ASSUME NEW b, Sound(b)
    PROVE  /\ IsFiniteSet(Contents(b)) /\ QueueLength(b) = Cardinality(Contents(b))
           /\ QueueLength(b) \in Nat
<1>. DEFINE R(p) == Range(b[p])
<1>1. ASSUME NEW p \in Priority, NEW x \in R(p) PROVE x.priority = p
  <2>1. b[p] \in Seq(Observation)
    BY Zenon DEF Sound
  <2>2. PICK i \in 1 .. Len(b[p]) : x = b[p][i]
    BY <1>1, <2>1, SequenceTyped, Zenon DEF Range
  <2>. QED BY <2>2, Zenon DEF Sound
<1>2. 0 \in Priority /\ 1 \in Priority /\ 2 \in Priority /\ 3 \in Priority
      /\ \A p \in Priority : p = 0 \/ p = 1 \/ p = 2 \/ p = 3
  BY DEF Priority
<1>3. Contents(b) = ((R(0) \cup R(1)) \cup R(2)) \cup R(3)
  <2>. HIDE DEF R
  <2>1. Contents(b) = UNION {R(p) : p \in Priority}
    BY Zenon DEF R, Contents
  <2>. QED BY <1>2, <2>1
<1>4. ASSUME NEW p \in Priority, NEW q \in Priority, p # q PROVE R(p) \cap R(q) = {}
  BY <1>1, <1>4, Zenon
<1>5. \A p \in Priority : IsFiniteSet(R(p)) /\ Cardinality(R(p)) = Len(b[p]) /\ Len(b[p]) \in Nat
  BY BucketCounts, Zenon
<1>. HIDE DEF R
<1>6. IsFiniteSet(R(0) \cup R(1)) /\ Cardinality(R(0) \cup R(1)) = Len(b[0]) + Len(b[1])
  <2>1. R(0) \cap R(1) = {}
    <3>1. 0 # 1
      OBVIOUS
    <3>. QED BY <1>2, <1>4, <3>1, Zenon
  <2>2. IsFiniteSet(R(0) \cup R(1)) /\ Cardinality(R(0) \cup R(1)) = Cardinality(R(0)) + Cardinality(R(1))
    BY <1>2, <1>5, <2>1, CountsAddUp, Zenon
  <2>. QED BY <1>2, <1>5, <2>2, Zenon
<1>7. IsFiniteSet((R(0) \cup R(1)) \cup R(2))
      /\ Cardinality((R(0) \cup R(1)) \cup R(2)) = Len(b[0]) + Len(b[1]) + Len(b[2])
  <2>1. (R(0) \cup R(1)) \cap R(2) = {}
    <3>1. 0 # 2 /\ 1 # 2
      OBVIOUS
    <3>2. R(0) \cap R(2) = {} /\ R(1) \cap R(2) = {}
      BY <1>2, <1>4, <3>1, Zenon
    <3>. QED BY <3>2, Zenon
  <2>2. IsFiniteSet((R(0) \cup R(1)) \cup R(2)) /\ Cardinality((R(0) \cup R(1)) \cup R(2)) = Cardinality((R(0) \cup R(1))) + Cardinality(R(2))
    BY <1>2, <1>5, <1>6, <2>1, CountsAddUp, Zenon
  <2>. QED BY <1>2, <1>5, <1>6, <2>2, Zenon
<1>8. IsFiniteSet(((R(0) \cup R(1)) \cup R(2)) \cup R(3))
      /\ Cardinality(((R(0) \cup R(1)) \cup R(2)) \cup R(3)) = Len(b[0]) + Len(b[1]) + Len(b[2]) + Len(b[3])
  <2>1. ((R(0) \cup R(1)) \cup R(2)) \cap R(3) = {}
    <3>1. 0 # 3 /\ 1 # 3 /\ 2 # 3
      OBVIOUS
    <3>2. R(0) \cap R(3) = {} /\ R(1) \cap R(3) = {} /\ R(2) \cap R(3) = {}
      BY <1>2, <1>4, <3>1, Zenon
    <3>. QED BY <3>2, Zenon
  <2>2. IsFiniteSet(((R(0) \cup R(1)) \cup R(2)) \cup R(3)) /\ Cardinality(((R(0) \cup R(1)) \cup R(2)) \cup R(3)) = Cardinality(((R(0) \cup R(1)) \cup R(2))) + Cardinality(R(3))
    BY <1>2, <1>5, <1>7, <2>1, CountsAddUp, Zenon
  <2>. QED BY <1>2, <1>5, <1>7, <2>2, Zenon
<1>9. Len(b[0]) + Len(b[1]) + Len(b[2]) + Len(b[3]) \in Nat
  <2>1. Len(b[0]) \in Nat /\ Len(b[1]) \in Nat /\ Len(b[2]) \in Nat /\ Len(b[3]) \in Nat
    BY <1>2, <1>5, Zenon
  <2>2. \A i, j, k, l \in Nat : i + j + k + l \in Nat
    OBVIOUS
  <2>. QED BY <2>1, <2>2, Zenon
<1>. QED BY <1>3, <1>8, <1>9, Zenon DEF QueueLength

\* The newcomer x goes to the end of bucket p, which gives c.
Pushes(b, p, x, c) == c = [b EXCEPT ![p] = Append(b[p], x)]

LEMMA NewcomerJoins ==
    ASSUME NEW b, Sound(b), NEW x \in Observation, NEW p \in Priority, x.priority = p,
           \A y \in Contents(b) : y.arrival < x.arrival, NEW c, Pushes(b, p, x, c)
    PROVE  Sound(c) /\ Contents(c) = Contents(b) \cup {x}
<1>0. b \in [Priority -> Seq(Observation)]
  BY Zenon DEF Sound
<1>. DEFINE s == b[p]
            n == Len(s)
            t == Append(s, x)
<1>1. s \in Seq(Observation)
  BY <1>0, Zenon
<1>. HIDE DEF s
<1>2. /\ n \in Nat /\ t \in Seq(Observation) /\ Len(t) = n + 1 /\ t[n + 1] = x
      /\ \A i \in 1 .. n : i \in 1 .. n + 1 /\ t[i] = s[i]
      /\ \A i \in 1 .. n + 1 : i \in 1 .. n \/ i = n + 1
      /\ n + 1 \in 1 .. n + 1
  BY <1>1, AppendProperties
<1>3. c \in [Priority -> Seq(Observation)] /\ c[p] = t /\ \A q \in Priority \ {p} : c[q] = b[q]
  BY <1>0, <1>2, Zenon DEF s, Pushes
<1>. HIDE DEF t
<1>4. ASSUME NEW q \in Priority, NEW i \in 1 .. Len(c[q])
      PROVE  (i \in 1 .. Len(b[q]) /\ c[q][i] = b[q][i]) \/ (q = p /\ i = n + 1 /\ c[q][i] = x)
  <2>1. CASE q = p
    BY <1>2, <1>3, <2>1, Zenon DEF s
  <2>2. CASE q # p
    BY <1>3, <2>2, Zenon
  <2>. QED BY <2>1, <2>2, Zenon
<1>5. Contents(c) = Contents(b) \cup {x}
  <2>1. ASSUME NEW y \in Contents(c) PROVE y \in Contents(b) \cup {x}
    <3>1. PICK q \in Priority : \E i \in 1 .. Len(c[q]) : y = c[q][i]
      BY <1>3, <2>1, FoundIn, Zenon
    <3>2. PICK i \in 1 .. Len(c[q]) : y = c[q][i]
      BY <3>1
    <3>3. CASE i \in 1 .. Len(b[q]) /\ c[q][i] = b[q][i]
      BY <1>0, <3>2, <3>3, PutIn, Zenon
    <3>. QED BY <1>4, <3>2, <3>3, Zenon
  <2>2. x \in Contents(c)
    <3>1. n + 1 \in 1 .. Len(c[p]) /\ c[p][n + 1] = x
      BY <1>2, <1>3, Zenon
    <3>. QED BY <1>3, <3>1, PutIn, Zenon
  <2>3. ASSUME NEW y \in Contents(b) PROVE y \in Contents(c)
    <3>1. PICK q \in Priority : \E i \in 1 .. Len(b[q]) : y = b[q][i]
      BY <1>0, <2>3, FoundIn, Zenon
    <3>2. PICK i \in 1 .. Len(b[q]) : y = b[q][i]
      BY <3>1
    <3>3. i \in 1 .. Len(c[q]) /\ y = c[q][i]
      <4>1. CASE q = p
        BY <1>2, <1>3, <3>2, <4>1, Zenon DEF s
      <4>2. CASE q # p
        BY <1>3, <3>2, <4>2, Zenon
      <4>. QED BY <4>1, <4>2, Zenon
    <3>. QED BY <1>3, <3>3, PutIn, Zenon
  <2>. QED BY <2>1, <2>2, <2>3, Zenon
<1>6. ASSUME NEW q \in Priority, NEW i \in 1 .. Len(c[q]) PROVE c[q][i].priority = q
  <2>1. \A k \in 1 .. Len(b[q]) : b[q][k].priority = q
    BY Zenon DEF Sound
  <2>. QED BY <1>4, <2>1, Zenon
<1>7. ASSUME NEW q \in Priority, NEW i \in 1 .. Len(c[q]), NEW j \in 1 .. Len(c[q]), i < j
      PROVE  c[q][i].arrival < c[q][j].arrival
  <2>1. CASE j \in 1 .. Len(b[q]) /\ c[q][j] = b[q][j]
    <3>1. i \in 1 .. Len(b[q]) /\ c[q][i] = b[q][i]
      <4>1. q = p => Len(b[q]) = n
        BY Zenon DEF s
      <4>2. ~(q = p /\ i = n + 1)
        BY <1>2, <1>7, <2>1, <4>1
      <4>. QED BY <1>4, <4>2, Zenon
    <3>2. b[q][i].arrival < b[q][j].arrival
      BY <1>7, <2>1, <3>1, Zenon DEF Sound
    <3>. QED BY <2>1, <3>1, <3>2, Zenon
  <2>2. CASE q = p /\ j = n + 1 /\ c[q][j] = x
    <3>1. i # n + 1
      BY <1>2, <1>7, <2>2
    <3>2. i \in 1 .. Len(b[q]) /\ c[q][i] = b[q][i]
      BY <1>4, <3>1, Zenon
    <3>3. b[q][i] \in Contents(b)
      BY <1>0, <3>2, PutIn, Zenon
    <3>. QED BY <2>2, <3>2, <3>3, Zenon
  <2>. QED BY <1>4, <2>1, <2>2, Zenon
<1>8. Distinct(Contents(c))
  <2>1. Distinct(Contents(b))
    BY Zenon DEF Sound
  <2>2. ASSUME NEW y \in Contents(b) PROVE y.arrival # x.arrival
    <3>1. x.arrival \in Nat /\ y.arrival < x.arrival
      BY ObservationTyped, Zenon
    <3>2. ~(x.arrival < x.arrival)
      BY <3>1
    <3>. QED BY <3>1, <3>2, Zenon
  <2>. QED BY <1>5, <2>1, <2>2, Zenon DEF Distinct
<1>. QED BY <1>3, <1>5, <1>6, <1>7, <1>8, Zenon DEF Sound

-----------------------------------------------------------------------------
(***************************************************************************)
(* The drop loop: what is gone goes before what is left, in the order of   *)
(* the buffer, and did not fit at its turn.                                *)
(***************************************************************************)
LEMMA OneMore ==
    ASSUME NEW S \in SUBSET Observation, IsFiniteSet(S), Distinct(S), NEW G \in SUBSET S, NEW x \in S \ G
    PROVE  /\ Bytes(G \cup {x}) = Bytes(G) + x.sizeBytes /\ Bytes(G) \in Nat
           /\ Cardinality(G \cup {x}) = Cardinality(G) + 1 /\ Cardinality(G) \in Nat
<1>. DEFINE U == G \cup {x}
<1>1. U \in SUBSET Observation /\ IsFiniteSet(U) /\ IsFiniteSet(G) /\ {x} \in SUBSET U /\ U \ {x} = G
  <2>1. U \in SUBSET S
    OBVIOUS
  <2>. QED BY <2>1, FS_Subset
<1>2. Distinct(U)
  BY DEF Distinct
<1>3. Bytes(U) = Bytes({x}) + Bytes(G) /\ Bytes(G) \in Nat
  <2>. HIDE DEF U
  <2>1. Bytes(U) = Bytes({x}) + Bytes(U \ {x}) /\ Bytes(U \ {x}) \in Nat
    BY <1>1, <1>2, BytesAddUp, Zenon
  <2>2. U \ {x} = G
    BY <1>1, Zenon
  <2>. QED BY <2>1, <2>2, Zenon
<1>4. Bytes({x}) = x.sizeBytes /\ x.sizeBytes \in Nat
  BY BytesOfOne, ObservationTyped
<1>5. Cardinality(U) = Cardinality(G) + 1 /\ Cardinality(G) \in Nat
  BY <1>1, FS_AddElement, FS_CardinalityType
<1>. QED BY <1>3, <1>4, <1>5

LEMMA DropsInOrder ==
    ASSUME NEW x \in Observation, NEW y \in Observation
    PROVE  /\ Buffer!DropsBefore(x, y) <=> x.priority < y.priority \/ (x.priority = y.priority /\ x.arrival < y.arrival)
           /\ ~Buffer!DropsBefore(x, x)
           /\ Buffer!DropsBefore(x, y) => ~Buffer!DropsBefore(y, x) /\ x.priority <= y.priority
<1>1. /\ x.priority \in Nat /\ x.arrival \in Nat /\ y.priority \in Nat /\ y.arrival \in Nat
  BY ObservationTyped, Zenon
<1>. QED BY <1>1 DEF Buffer!DropsBefore

LEMMA Fits ==
    ASSUME NEW S, NEW n, NEW G
    PROVE  Buffer!FitsWithout(S, n, G) <=> Cardinality(S \ G) <= MaxQueueSize /\ n - Bytes(G) <= MaxQueueBytes
BY SameOperators, Zenon DEF Buffer!FitsWithout, Bytes

LEMMA MinOfPriorities ==
    ASSUME NEW P \in SUBSET Priority, P # {}
    PROVE  Min(P) \in P /\ \A q \in P : Min(P) <= q
<1>1. P \in SUBSET Nat
  BY DEF Priority
<1>2. PICK m \in P : \A q \in P : m <= q
  BY <1>1, LeastNatural, Zenon
<1>. QED BY <1>2, Zenon DEF Min

LEMMA OccupiedBy ==
    ASSUME NEW b, Sound(b), NEW x \in Contents(b)
    PROVE  x.priority \in Occupied(b)
<1>1. b \in [Priority -> Seq(Observation)]
  BY Zenon DEF Sound
<1>2. PICK p \in Priority : \E i \in 1 .. Len(b[p]) : x = b[p][i]
  BY <1>1, FoundIn, Zenon
<1>3. PICK i \in 1 .. Len(b[p]) : x = b[p][i]
  BY <1>2
<1>4. x.priority = p
  BY <1>3, Zenon DEF Sound
<1>5. b[p] # <<>>
  <2>1. b[p] \in Seq(Observation)
    BY <1>1, Zenon
  <2>. QED BY <1>3, <2>1, SequenceTyped, Zenon
<1>. QED BY <1>4, <1>5, Zenon DEF Occupied

Gone(s, t) == Contents(s.buckets) \ Contents(t.buckets)

Sheds(s, k, t) ==
    /\ Sound(t.buckets) /\ Contents(t.buckets) \in SUBSET Contents(s.buckets)
    /\ \A x \in Gone(s, t), y \in Contents(t.buckets) : Buffer!DropsBefore(x, y)
    /\ \A x \in Gone(s, t) :
         ~Buffer!FitsWithout(Contents(s.buckets), s.bytes, Buffer!DroppedBefore(Contents(s.buckets), x))
    /\ t.bytes = s.bytes - Bytes(Gone(s, t))
    /\ t.drops = s.drops + Cardinality(Gone(s, t))
    /\ k <= Cardinality(Gone(s, t)) \/ ~OverLimits(t) \/ Contents(t.buckets) = {}

\* The lowest of the heads goes before everything else.
LEMMA LowestIsFirst ==
    ASSUME NEW b, Sound(b), Occupied(b) # {}, NEW p, p = Min(Occupied(b)), NEW x, NEW c, Pops(b, p, x, c)
    PROVE  p \in Priority /\ \A y \in Contents(b) \ {x} : Buffer!DropsBefore(x, y)
<1>1. p \in Occupied(b) /\ \A q \in Occupied(b) : p <= q
  BY MinOfPriorities, Zenon DEF Occupied
<1>2. p \in Priority
  BY <1>1, Zenon DEF Occupied
<1>3. ASSUME NEW y \in Contents(b) \ {x} PROVE Buffer!DropsBefore(x, y)
  <2>1. x \in Observation /\ x.priority = p /\ (y.priority = p => x.arrival < y.arrival)
    BY <1>2, <1>3, HeadLeaves, Zenon
  <2>2. y \in Observation
    BY Listed, Zenon DEF Sound
  <2>3. p <= y.priority
    BY <1>1, OccupiedBy, Zenon
  <2>4. y.priority \in Nat /\ x.priority \in Nat
    BY <2>1, <2>2, ObservationTyped, Zenon
  <2>5. x.priority < y.priority \/ (x.priority = y.priority /\ x.arrival < y.arrival)
    BY <2>1, <2>3, <2>4
  <2>. QED BY <2>1, <2>2, <2>5, DropsInOrder, Zenon
<1>. QED BY <1>2, <1>3

LEMMA ShedsOne ==
    ASSUME NEW s, Sound(s.buckets), s.bytes \in Int, s.drops \in Int, NEW k \in Nat, NEW t, Sheds(s, k, t)
    PROVE  Sheds(s, k + 1, dropRound(t))
<1>. DEFINE S == Contents(s.buckets)
            T == Contents(t.buckets)
            G == Gone(s, t)
<1>0. Sound(t.buckets) /\ T \in SUBSET S /\ G = S \ T /\ S \ G = T /\ G \in SUBSET S
  BY Zenon DEF Sheds, Gone
<1>1. S \in SUBSET Observation /\ IsFiniteSet(S) /\ Distinct(S) /\ S = Contents(s.buckets)
  BY LengthCounts, Listed, Zenon DEF Sound
<1>2. Occupied(t.buckets) = {} <=> T = {}
  BY <1>0, Listed, Zenon DEF Sound
<1>3. CASE ~(OverLimits(t) /\ Occupied(t.buckets) # {})
  <2>1. dropRound(t) = t
    BY <1>3, Zenon DEF dropRound
  <2>2. ~OverLimits(t) \/ T = {}
    BY <1>2, <1>3, Zenon
  <2>. QED BY <2>1, <2>2, Zenon DEF Sheds
<1>4. CASE OverLimits(t) /\ Occupied(t.buckets) # {}
  <2>. DEFINE b == t.buckets
              p == Min(Occupied(b))
              x == Head(b[p])
              c == [b EXCEPT ![p] = Tail(b[p])]
              u == dropRound(t)
  <2>1. u.buckets = c /\ u.bytes = t.bytes - x.sizeBytes /\ u.drops = t.drops + 1
    <3>1. u = dropLowestPriorityGatewayObservation(t)
      BY <1>4, Zenon DEF dropRound
    <3>2. u = [buckets |-> c, bytes |-> t.bytes - x.sizeBytes, drops |-> t.drops + 1]
      BY <3>1, Zenon DEF dropLowestPriorityGatewayObservation
    <3>. HIDE DEF u, c, x
    <3>. QED BY <3>2
  <2>2. p \in Priority /\ b[p] # <<>>
    <3>1. p \in Occupied(b)
      BY <1>4, MinOfPriorities, Zenon DEF Occupied
    <3>. QED BY <3>1, Zenon DEF Occupied
  <2>3. Pops(b, p, x, c)
    BY <2>2, Zenon DEF Pops
  <2>16. Sound(b) /\ Occupied(b) # {} /\ p = Min(Occupied(b)) /\ T = Contents(b)
    BY <1>0, <1>4, Zenon
  <2>. HIDE DEF b, c, x, p, u, G, T
  <2>4. \A y \in T \ {x} : Buffer!DropsBefore(x, y)
    BY <2>16, <2>3, LowestIsFirst, Zenon
  <2>5. Sound(c) /\ x \in T /\ x \in Observation /\ Contents(c) = T \ {x}
    BY <2>16, <2>2, <2>3, HeadLeaves
  <2>6. Sound(u.buckets) /\ Contents(u.buckets) \in SUBSET S /\ Contents(u.buckets) = T \ {x}
    BY <1>0, <2>1, <2>5, Zenon
  <2>7. Gone(s, u) = G \cup {x} /\ x \in S \ G
    BY <1>0, <2>5, <2>6, Zenon DEF Gone
  <2>8. \A y \in Gone(s, u), z \in Contents(u.buckets) : Buffer!DropsBefore(y, z)
    <3>1. \A y \in G, z \in T : Buffer!DropsBefore(y, z)
      BY Zenon DEF Sheds, G, T
    <3>. QED BY <2>4, <2>6, <2>7, <3>1, Zenon
  <2>9. Buffer!DroppedBefore(S, x) = G
    <3>1. ASSUME NEW y \in S PROVE Buffer!DropsBefore(y, x) <=> y \in G
      <4>1. CASE y \in G
        <5>1. Buffer!DropsBefore(y, x)
          BY <2>5, <4>1, Zenon DEF Sheds, G, T
        <5>. QED BY <4>1, <5>1
      <4>2. CASE y \notin G
        <5>1. y \in T /\ y \in Observation
          BY <1>0, <1>1, <4>2, Zenon
        <5>2. ~Buffer!DropsBefore(y, x)
          BY <2>4, <2>5, <5>1, DropsInOrder, Zenon
        <5>. QED BY <4>2, <5>2
      <4>. QED BY <4>1, <4>2
    <3>. QED BY <1>0, <3>1, Zenon DEF Buffer!DroppedBefore
  <2>10. ~Buffer!FitsWithout(S, s.bytes, G)
    <3>1. QueueLength(t.buckets) = Cardinality(T) /\ Cardinality(T) \in Nat
      BY <1>0, LengthCounts, Zenon DEF T
    <3>2. t.bytes = s.bytes - Bytes(G) /\ Bytes(G) \in Nat
      <4>1. t.bytes = s.bytes - Bytes(G)
        BY Zenon DEF Sheds, G, T
      <4>2. Bytes(G) \in Nat
        BY <1>0, <1>1, BytesAddUp, Zenon
      <4>. QED BY <4>1, <4>2
    <3>3. Cardinality(T) > MaxQueueSize \/ t.bytes > MaxQueueBytes
      BY <1>4, <3>1, Zenon DEF OverLimits
    <3>4. ~(Cardinality(T) <= MaxQueueSize /\ s.bytes - Bytes(G) <= MaxQueueBytes)
      BY <3>1, <3>2, <3>3, LimitsAssumption
    <3>. QED BY <1>0, <3>4, Fits, Zenon
  <2>11. \A y \in Gone(s, u) : ~Buffer!FitsWithout(S, s.bytes, Buffer!DroppedBefore(S, y))
    <3>1. \A y \in G : ~Buffer!FitsWithout(S, s.bytes, Buffer!DroppedBefore(S, y))
      BY Zenon DEF Sheds, G, T
    <3>. QED BY <2>7, <2>9, <2>10, <3>1, Zenon
  <2>12. /\ Bytes(G \cup {x}) = Bytes(G) + x.sizeBytes /\ Bytes(G) \in Nat /\ x.sizeBytes \in Nat
         /\ Cardinality(G \cup {x}) = Cardinality(G) + 1 /\ Cardinality(G) \in Nat
    <3>1. x.sizeBytes \in Nat
      BY <2>5, ObservationTyped, Zenon
    <3>. HIDE DEF S
    <3>2. S \in SUBSET Observation /\ IsFiniteSet(S) /\ Distinct(S) /\ G \in SUBSET S /\ x \in S \ G
      BY <1>0, <1>1, <2>7, Zenon
    <3>. QED BY <3>1, <3>2, OneMore
  <2>13. t.bytes = s.bytes - Bytes(G) /\ t.drops = s.drops + Cardinality(G)
    BY Zenon DEF Sheds, G, T
  <2>14. u.bytes = s.bytes - Bytes(Gone(s, u)) /\ u.drops = s.drops + Cardinality(Gone(s, u))
    <3>1. u.bytes = (s.bytes - Bytes(G)) - x.sizeBytes /\ u.drops = (s.drops + Cardinality(G)) + 1
      BY <2>1, <2>13, Zenon
    <3>2. \A i \in Int, l, m \in Nat : (i - l) - m = i - (l + m) /\ (i + l) + 1 = i + (l + 1)
      OBVIOUS
    <3>3. u.bytes = s.bytes - (Bytes(G) + x.sizeBytes)
      BY <2>12, <3>1, <3>2, Zenon
    <3>4. u.drops = s.drops + (Cardinality(G) + 1)
      BY <2>12, <3>1, <3>2, Zenon
    <3>. QED BY <2>7, <2>12, <3>3, <3>4, Zenon
  <2>15. k + 1 <= Cardinality(Gone(s, u)) \/ ~OverLimits(u) \/ Contents(u.buckets) = {}
    <3>1. k <= Cardinality(G)
      BY <1>2, <1>4, Zenon DEF Sheds, G, T
    <3>2. k + 1 <= Cardinality(G) + 1
      BY <2>12, <3>1
    <3>. QED BY <2>7, <2>12, <3>2, Zenon
  <2>. QED BY <2>6, <2>8, <2>11, <2>14, <2>15, Zenon DEF Sheds, u
<1>. QED BY <1>3, <1>4

\* The drop loop leaves what the buffer keeps, and takes the lowest ranks first.
LEMMA DropLoopKeeps ==
    ASSUME NEW s, Sound(s.buckets), s.bytes \in Int, s.drops \in Int, NEW e, e = DropToLimits(s)
    PROVE  /\ Sound(e.buckets) /\ Contents(e.buckets) = Buffer!Kept(Contents(s.buckets), s.bytes)
           /\ e.bytes = s.bytes - Bytes(Gone(s, e)) /\ e.drops = s.drops + Cardinality(Gone(s, e))
           /\ \A x \in Gone(s, e), y \in Contents(e.buckets) : Buffer!DropsBefore(x, y)
<1>. DEFINE S == Contents(s.buckets)
            T == Contents(e.buckets)
            G == Gone(s, e)
            n == QueueLength(s.buckets)
<1>1. /\ S \in SUBSET Observation /\ IsFiniteSet(S) /\ Distinct(S)
      /\ n = Cardinality(S) /\ n \in Nat
  BY LengthCounts, Listed, Zenon DEF Sound
<1>2. PICK f : f[0] = s /\ (\A k \in 1 .. n : f[k] = dropRound(f[k - 1])) /\ e = f[n]
  BY <1>1, DropRounds, Zenon
<1>3. Sheds(s, n, e)
  <2>. DEFINE H == {k \in Nat : k <= n => Sheds(s, k, f[k])}
  <2>1. 0 \in H
    <3>1. Gone(s, s) = {} /\ Cardinality({}) = 0 /\ Bytes({}) = 0
      <4>1. {} \in SUBSET S /\ S \ S = {}
        BY Zenon
      <4>2. Bytes(S) \in Nat /\ Bytes({}) \in Nat /\ Bytes(S) = Bytes(S) + Bytes({})
        <5>1. S \in SUBSET S
          BY Zenon
        <5>. QED BY <1>1, <4>1, <5>1, BytesAddUp, Zenon
      <4>3. Bytes({}) = 0
        BY <4>2
      <4>. QED BY <4>1, <4>3, FS_EmptySet, Zenon DEF Gone
    <3>2. s.bytes = s.bytes - 0 /\ s.drops = s.drops + 0 /\ 0 <= 0
      OBVIOUS
    <3>3. Contents(s.buckets) \in SUBSET Contents(s.buckets)
      BY Zenon
    <3>4. Sheds(s, 0, s)
      BY <3>1, <3>2, <3>3, Zenon DEF Sheds
    <3>. QED BY <1>2, <3>4, Zenon
  <2>2. ASSUME NEW k \in Nat, k \in H PROVE k + 1 \in H
    <3>5. k + 1 \in Nat
      OBVIOUS
    <3>1. SUFFICES ASSUME k + 1 <= n PROVE Sheds(s, k + 1, f[k + 1])
      BY <3>5, Zenon
    <3>2. k <= n /\ k + 1 \in 1 .. n /\ (k + 1) - 1 = k
      BY <1>1, <3>1
    <3>3. f[k + 1] = dropRound(f[k])
      BY <1>2, <3>2, Zenon
    <3>4. Sheds(s, k, f[k])
      BY <2>2, <3>2, Zenon
    <3>. QED BY <3>3, <3>4, ShedsOne, Zenon
  <2>3. H = Nat
    <3>. HIDE DEF H
    <3>1. H \in SUBSET Nat
      BY DEF H
    <3>. QED BY <2>1, <2>2, <3>1, NaturalsInduct, Zenon
  <2>4. n \in H /\ n <= n
    BY <1>1, <2>3
  <2>. QED BY <1>2, <2>4, Zenon
<1>4. T \in SUBSET S /\ G = S \ T /\ G \in SUBSET S /\ Sound(e.buckets)
  BY <1>3, Zenon DEF Sheds, Gone
<1>5. IsFiniteSet(T) /\ IsFiniteSet(G) /\ Cardinality(T) \in Nat /\ Cardinality(G) \in Nat
      /\ QueueLength(e.buckets) = Cardinality(T) /\ Bytes(G) \in Nat
  <2>1. IsFiniteSet(T) /\ QueueLength(e.buckets) = Cardinality(T)
    BY <1>4, LengthCounts, Zenon
  <2>2. IsFiniteSet(G)
    BY <1>1, <1>4, FS_Subset, Zenon
  <2>3. Bytes(G) \in Nat
    BY <1>1, <1>4, BytesAddUp, Zenon
  <2>. QED BY <2>1, <2>2, <2>3, FS_CardinalityType, Zenon
<1>6. e.bytes = s.bytes - Bytes(G) /\ e.drops = s.drops + Cardinality(G)
      /\ \A x \in G, y \in T : Buffer!DropsBefore(x, y)
  BY <1>3, Zenon DEF Sheds
<1>7. T = {} \/ ~OverLimits(e)
  <2>1. SUFFICES ASSUME n <= Cardinality(G) PROVE T = {}
    BY <1>3, Zenon DEF Sheds
  <2>2. G \cap T = {} /\ G \cup T = S
    BY <1>4, Zenon
  <2>3. Cardinality(S) = Cardinality(G) + Cardinality(T)
    BY <1>5, <2>2, CountsAddUp, Zenon
  <2>4. Cardinality(T) = 0
    BY <1>1, <1>5, <2>1, <2>3
  <2>. QED BY <1>5, <2>4, FS_EmptySet, Zenon
<1>. HIDE DEF G, T, S, n
<1>8. ASSUME NEW x \in T PROVE Buffer!FitsWithout(S, s.bytes, Buffer!DroppedBefore(S, x))
  <2>. DEFINE D == Buffer!DroppedBefore(S, x)
  <2>1. G \in SUBSET D /\ D \in SUBSET S
    BY <1>4, <1>6, <1>8, Zenon DEF Buffer!DroppedBefore
  <2>. HIDE DEF D
  <2>2. S \ D \in SUBSET T
    BY <1>4, <2>1, Zenon
  <2>3. Cardinality(S \ D) <= Cardinality(T) /\ Cardinality(S \ D) \in Nat
    BY <1>5, <2>2, FS_Subset, FS_CardinalityType, Zenon
  <2>4. Bytes(D) = Bytes(G) + Bytes(D \ G) /\ Bytes(D) \in Nat /\ Bytes(D \ G) \in Nat
    <3>1. D \in SUBSET Observation /\ IsFiniteSet(D) /\ Distinct(D)
      <4>1. IsFiniteSet(D)
        BY <1>1, <2>1, FS_Subset, Zenon
      <4>. QED BY <1>1, <2>1, <4>1, Zenon DEF Distinct
    <3>. QED BY <2>1, <3>1, BytesAddUp, Zenon
  <2>5. Cardinality(T) <= MaxQueueSize /\ e.bytes <= MaxQueueBytes
    <3>1. ~(Cardinality(T) > MaxQueueSize) /\ ~(e.bytes > MaxQueueBytes)
      BY <1>5, <1>7, <1>8, Zenon DEF OverLimits
    <3>2. e.bytes \in Int
      BY <1>5, <1>6
    <3>. QED BY <1>5, <3>1, <3>2, LimitsAssumption
  <2>6. Cardinality(S \ D) <= MaxQueueSize
    BY <1>5, <2>3, <2>5, LimitsAssumption
  <2>7. s.bytes - Bytes(D) <= MaxQueueBytes
    BY <1>5, <1>6, <2>4, <2>5, LimitsAssumption
  <2>. QED BY <2>6, <2>7, Fits, Zenon DEF D
<1>9. \A x \in G : ~Buffer!FitsWithout(S, s.bytes, Buffer!DroppedBefore(S, x))
  BY <1>3, Zenon DEF Sheds, G, S
<1>10. T = Buffer!Kept(S, s.bytes)
  <2>1. \A x \in S : Buffer!FitsWithout(S, s.bytes, Buffer!DroppedBefore(S, x)) <=> x \in T
    BY <1>4, <1>8, <1>9, Zenon
  <2>. QED BY <1>4, <2>1, Zenon DEF Buffer!Kept
<1>. QED BY <1>4, <1>6, <1>10, Zenon DEF G, T, S

-----------------------------------------------------------------------------
(***************************************************************************)
(* The order of draining: when an observation leaves, and which head is    *)
(* next.                                                                   *)
(***************************************************************************)
LEMMA GreatestNatural ==
    ASSUME NEW N \in SUBSET Nat, IsFiniteSet(N), N # {}
    PROVE  Max(N) \in N /\ \A k \in N : Max(N) >= k
<1>. DEFINE Bounded(K) == K # {} => \E m \in K : \A k \in K : m >= k
            H == {n \in Nat : \A K \in SUBSET Nat : IsFiniteSet(K) /\ Cardinality(K) = n => Bounded(K)}
<1>1. 0 \in H
  BY FS_EmptySet, Zenon
<1>2. ASSUME NEW n \in Nat, n \in H PROVE n + 1 \in H
  <2>1. n + 1 \in Nat
    OBVIOUS
  <2>2. SUFFICES ASSUME NEW K \in SUBSET Nat, IsFiniteSet(K), Cardinality(K) = n + 1, K # {}
                 PROVE  \E m \in K : \A k \in K : m >= k
    BY <2>1, Zenon
  <2>3. PICK m \in K : TRUE
    BY <2>2, Zenon
  <2>. DEFINE L == K \ {m}
  <2>4. L \in SUBSET Nat /\ IsFiniteSet(L) /\ Cardinality(L) = n
    <3>1. IsFiniteSet(L) /\ Cardinality(L) = Cardinality(K) - 1
      BY <2>2, <2>3, FS_RemoveElement, Zenon
    <3>. QED BY <2>2, <3>1
  <2>5. Bounded(L)
    BY <1>2, <2>4, Zenon
  <2>6. CASE L = {}
    <3>1. \A k \in K : k = m
      BY <2>6, Zenon
    <3>2. m >= m
      BY <2>2
    <3>. QED BY <3>1, <3>2, Zenon
  <2>7. CASE L # {}
    <3>1. PICK l \in L : \A k \in L : l >= k
      BY <2>5, <2>7, Zenon
    <3>2. l \in Nat /\ m \in Nat /\ l \in K
      BY <2>2, <3>1, Zenon
    <3>3. CASE l >= m
      <4>1. \A k \in K : l >= k
        BY <2>3, <3>1, <3>3, Zenon
      <4>. QED BY <3>2, <4>1, Zenon
    <3>4. CASE ~(l >= m)
      <4>1. ASSUME NEW k \in K PROVE m >= k
        <5>1. k = m \/ l >= k
          BY <3>1, Zenon
        <5>2. k \in Nat
          BY <2>2, Zenon
        <5>. QED BY <3>2, <3>4, <5>1, <5>2
      <4>. QED BY <2>3, <4>1, Zenon
    <3>. QED BY <3>3, <3>4
  <2>. QED BY <2>6, <2>7
<1>3. H = Nat
  <2>. HIDE DEF H
  <2>1. H \in SUBSET Nat
    BY DEF H
  <2>. QED BY <1>1, <1>2, <2>1, NaturalsInduct, Zenon
<1>4. Cardinality(N) \in H
  BY <1>3, FS_CardinalityType, Zenon
<1>5. \E m \in N : \A k \in N : m >= k
  BY <1>4, Zenon
<1>. QED BY <1>5, Zenon DEF Max

Ahead(S, x) == {z \in S : z.priority = x.priority /\ z.arrival <= x.arrival}

LEMMA Leaving ==
    ASSUME NEW S \in SUBSET Observation, IsFiniteSet(S), NEW x \in S
    PROVE  /\ Buffer!LeavesAt(S, x) \in Nat
           /\ \E z \in Ahead(S, x) : z.observedAt = Buffer!LeavesAt(S, x)
           /\ \A z \in Ahead(S, x) : z.observedAt <= Buffer!LeavesAt(S, x)
           /\ x \in Ahead(S, x)
<1>. DEFINE A == Ahead(S, x)
            N == {y.observedAt : y \in A}
            g == [y \in A |-> y.observedAt]
<1>1. A \in SUBSET S /\ x \in A
  <2>1. x \in Observation
    BY Zenon
  <2>2. x.arrival <= x.arrival
    BY <2>1, ObservationTyped
  <2>. QED BY <2>2, Zenon DEF Ahead
<1>2. N \in SUBSET Nat /\ N # {}
  BY <1>1, ObservationTyped, Zenon
<1>3. IsFiniteSet(N)
  <2>1. IsFiniteSet(A)
    BY <1>1, FS_Subset, Zenon
  <2>2. g \in Surjection(A, N)
    BY Zenon DEF Surjection
  <2>. HIDE DEF A, N, g
  <2>. QED BY <2>1, <2>2, FS_Surjection, Zenon
<1>4. Buffer!LeavesAt(S, x) = Max(N)
  BY SameOperators, Zenon DEF Buffer!LeavesAt, Ahead
<1>. HIDE DEF A
<1>5. Max(N) \in N /\ \A k \in N : Max(N) >= k
  <2>. HIDE DEF N
  <2>. QED BY <1>2, <1>3, GreatestNatural, Zenon
<1>6. ASSUME NEW z \in A PROVE z.observedAt <= Max(N)
  <2>1. z.observedAt \in N
    BY Zenon
  <2>2. Max(N) >= z.observedAt /\ z.observedAt \in Nat /\ Max(N) \in Nat
    BY <1>2, <1>5, <2>1, Zenon
  <2>. HIDE DEF N
  <2>. QED BY <2>2
<1>7. Max(N) \in Nat
  BY <1>2, <1>5, Zenon
<1>8. \E z \in A : z.observedAt = Max(N)
  BY <1>5, Zenon
<1>. QED BY <1>1, <1>4, <1>6, <1>7, <1>8, Zenon DEF A

LEMMA DrainsInOrder ==
    ASSUME NEW S \in SUBSET Observation, IsFiniteSet(S), NEW x \in S, NEW y \in S
    PROVE  ~Buffer!DrainsBefore(S, x, x) /\ (Buffer!DrainsBefore(S, x, y) => ~Buffer!DrainsBefore(S, y, x))
<1>1. Buffer!LeavesAt(S, x) \in Nat /\ Buffer!LeavesAt(S, y) \in Nat
  BY Leaving, Zenon
<1>2. ~Buffer!DropsBefore(x, x) /\ (Buffer!DropsBefore(x, y) => ~Buffer!DropsBefore(y, x))
  BY DropsInOrder, Zenon
<1>. QED BY <1>1, <1>2 DEF Buffer!DrainsBefore

\* What stands behind another in its bucket leaves after it.
LEMMA BehindLeavesLater ==
    ASSUME NEW S \in SUBSET Observation, IsFiniteSet(S), NEW x \in S, NEW y \in S,
           x.priority = y.priority, x.arrival < y.arrival
    PROVE  Buffer!LeavesAt(S, x) <= Buffer!LeavesAt(S, y) /\ Buffer!DrainsBefore(S, x, y)
<1>1. Buffer!LeavesAt(S, x) \in Nat /\ Buffer!LeavesAt(S, y) \in Nat
  BY Leaving, Zenon
<1>2. PICK z \in Ahead(S, x) : z.observedAt = Buffer!LeavesAt(S, x)
  BY Leaving, Zenon
<1>3. z \in Ahead(S, y)
  <2>1. z \in S /\ z.priority = y.priority /\ z.arrival <= x.arrival
    BY <1>2, Zenon DEF Ahead
  <2>2. z.arrival \in Nat /\ x.arrival \in Nat /\ y.arrival \in Nat
    BY <2>1, ObservationTyped, Zenon
  <2>3. z.arrival <= y.arrival
    BY <2>1, <2>2
  <2>. QED BY <2>1, <2>3, Zenon DEF Ahead
<1>4. Buffer!LeavesAt(S, x) <= Buffer!LeavesAt(S, y)
  BY <1>2, <1>3, Leaving, Zenon
<1>5. Buffer!DropsBefore(x, y)
  BY DropsInOrder, Zenon
<1>. QED BY <1>1, <1>4, <1>5 DEF Buffer!DrainsBefore

HeadAt(b, p) == b[p][1].observedAt

LEMMA NextExists ==
    ASSUME NEW b, Sound(b), Occupied(b) # {}
    PROVE  /\ NextQueued(b) \in Occupied(b)
           /\ \A q \in Occupied(b) :
                HeadAt(b, NextQueued(b)) < HeadAt(b, q) \/ (HeadAt(b, NextQueued(b)) = HeadAt(b, q) /\ NextQueued(b) <= q)
<1>. DEFINE O == Occupied(b)
            K == {HeadAt(b, q) : q \in O}
<1>1. ASSUME NEW q \in O PROVE q \in Priority /\ q \in Nat /\ HeadAt(b, q) \in Nat
  <2>1. q \in Priority /\ b[q] # <<>> /\ b[q] \in Seq(Observation)
    BY Zenon DEF Occupied, Sound
  <2>2. Len(b[q]) \in Nat /\ 1 .. Len(b[q]) # {} /\ \A i \in 1 .. Len(b[q]) : b[q][i] \in Observation
    BY <2>1, SequenceTyped, Zenon
  <2>3. 1 \in 1 .. Len(b[q])
    <3>1. \A n \in Nat : 1 .. n # {} => 1 \in 1 .. n
      OBVIOUS
    <3>. QED BY <2>2, <3>1, Zenon
  <2>4. HeadAt(b, q) \in Nat
    BY <2>2, <2>3, ObservationTyped, Zenon DEF HeadAt
  <2>5. q \in Nat
    BY <2>1 DEF Priority
  <2>. QED BY <2>1, <2>4, <2>5
<1>. HIDE DEF O
<1>2. K \in SUBSET Nat /\ K # {}
  BY <1>1, Zenon DEF O
<1>3. PICK m \in K : \A k \in K : m <= k
  <2>. HIDE DEF K
  <2>. QED BY <1>2, LeastNatural, Zenon
<1>. DEFINE Q == {q \in O : HeadAt(b, q) = m}
<1>4. Q \in SUBSET Nat /\ Q # {}
  BY <1>1, <1>3, Zenon
<1>5. PICK p \in Q : \A q \in Q : p <= q
  <2>. HIDE DEF Q
  <2>. QED BY <1>4, LeastNatural, Zenon
<1>6. p \in O /\ HeadAt(b, p) = m
  BY <1>5, Zenon
<1>7. ASSUME NEW q \in O PROVE HeadAt(b, p) < HeadAt(b, q) \/ (HeadAt(b, p) = HeadAt(b, q) /\ p <= q)
  <2>1. m <= HeadAt(b, q) /\ (HeadAt(b, q) = m => p <= q)
    BY <1>3, <1>5, Zenon
  <2>2. HeadAt(b, q) \in Nat /\ HeadAt(b, p) \in Nat
    BY <1>1, <1>6, Zenon
  <2>. QED BY <1>6, <2>1, <2>2
<1>8. \E r \in O : \A q \in O : HeadAt(b, r) < HeadAt(b, q) \/ (HeadAt(b, r) = HeadAt(b, q) /\ r <= q)
  BY <1>6, <1>7, Zenon
<1>9. NextQueued(b) = CHOOSE r \in O : \A q \in O : HeadAt(b, r) < HeadAt(b, q) \/ (HeadAt(b, r) = HeadAt(b, q) /\ r <= q)
  BY Zenon DEF NextQueued, HeadAt, O
<1>. QED BY <1>8, <1>9, Zenon DEF O

\* The head of the bucket an observation is in.
LEMMA HeadBefore ==
    ASSUME NEW b, Sound(b), NEW y \in Contents(b)
    PROVE  /\ y.priority \in Occupied(b) /\ b[y.priority][1] \in Contents(b)
           /\ b[y.priority][1].priority = y.priority /\ b[y.priority][1].arrival <= y.arrival
           /\ Chronological(b[y.priority]) => HeadAt(b, y.priority) <= y.observedAt
<1>0. b \in [Priority -> Seq(Observation)]
  BY Zenon DEF Sound
<1>1. PICK p \in Priority : \E i \in 1 .. Len(b[p]) : y = b[p][i]
  BY <1>0, FoundIn, Zenon
<1>2. PICK i \in 1 .. Len(b[p]) : y = b[p][i]
  BY <1>1
<1>3. y.priority = p /\ y \in Observation
  BY <1>0, <1>2, Listed, Zenon DEF Sound
<1>4. b[p] \in Seq(Observation) /\ Len(b[p]) \in Nat /\ DOMAIN b[p] = 1 .. Len(b[p])
  BY <1>0, SequenceTyped, Zenon
<1>5. 1 \in 1 .. Len(b[p]) /\ (i = 1 \/ 1 < i)
  BY <1>4
<1>6. b[p][1] \in Contents(b) /\ b[p][1].priority = p /\ b[p][1] \in Observation
  BY <1>0, <1>5, PutIn, Listed, Zenon DEF Sound
<1>7. y.arrival \in Nat /\ y.observedAt \in Nat /\ b[p][1].arrival \in Nat
  BY <1>3, <1>6, ObservationTyped, Zenon
<1>8. b[p][1].arrival <= y.arrival
  <2>1. CASE i = 1
    <3>1. b[p][1].arrival = y.arrival
      BY <1>2, <2>1, Zenon
    <3>. QED BY <1>7, <3>1
  <2>2. CASE 1 < i
    <3>1. b[p][1].arrival < y.arrival
      BY <1>2, <1>5, <2>2, Zenon DEF Sound
    <3>. QED BY <1>7, <3>1
  <2>. QED BY <1>5, <2>1, <2>2
<1>9. Chronological(b[p]) => HeadAt(b, p) <= y.observedAt
  <2>1. SUFFICES ASSUME Chronological(b[p]) PROVE HeadAt(b, p) <= y.observedAt
    BY Zenon
  <2>2. CASE i = 1
    <3>1. HeadAt(b, p) = y.observedAt
      BY <1>2, <2>2, Zenon DEF HeadAt
    <3>. QED BY <1>7, <3>1
  <2>3. CASE 1 < i
    BY <1>2, <1>4, <1>5, <2>1, <2>3, Zenon DEF HeadAt, Chronological
  <2>. QED BY <1>5, <2>2, <2>3
<1>. QED BY <1>3, <1>6, <1>8, <1>9, OccupiedBy, Zenon

\* The next head leaves before everything that is left, since whatever was before it in its
\* bucket has left before them.
LEMMA NextLeavesFirst ==
    ASSUME NEW S \in SUBSET Observation, IsFiniteSet(S), NEW b, Sound(b), Contents(b) \in SUBSET S,
           \A d \in S \ Contents(b), y \in Contents(b) : Buffer!DrainsBefore(S, d, y),
           Occupied(b) # {}, NEW p, p = NextQueued(b), NEW x, NEW c, Pops(b, p, x, c)
    PROVE  /\ p \in Priority
           /\ \A y \in Contents(b) \ {x} : Buffer!DrainsBefore(S, x, y)
           /\ (\A q \in Priority : Chronological(b[q])) => \A y \in Contents(b) : x.observedAt <= y.observedAt
<1>. DEFINE T == Contents(b)
<1>1. p \in Occupied(b) /\ p \in Priority
  BY NextExists, Zenon DEF Occupied
<1>2. /\ x \in T /\ x \in Observation /\ x.priority = p /\ x = b[p][1]
      /\ \A y \in T \ {x} : y.priority = p => x.arrival < y.arrival
  BY <1>1, HeadLeaves
<1>3. x \in S /\ T \in SUBSET S
  BY <1>2, Zenon
<1>4. HeadAt(b, p) = x.observedAt /\ x.observedAt \in Nat /\ p \in Nat
  BY <1>1, <1>2, ObservationTyped, Zenon DEF HeadAt
<1>5. \A q \in Occupied(b) : x.observedAt < HeadAt(b, q) \/ (x.observedAt = HeadAt(b, q) /\ p <= q)
  BY <1>4, NextExists, Zenon
<1>. DEFINE at(y) == Buffer!LeavesAt(S, y)
<1>. HIDE DEF T, at
<1>6. \A y \in S : at(y) \in Nat /\ \A z \in Ahead(S, y) : z.observedAt <= at(y)
  BY Leaving, Zenon DEF at
<1>7. ASSUME NEW y \in T \ {x} PROVE Buffer!DrainsBefore(S, x, y)
  <2>. DEFINE q == y.priority
              h == b[q][1]
  <2>1. y \in Observation /\ y \in S
    BY <1>3, Zenon
  <2>2. /\ q \in Occupied(b) /\ h \in S /\ h.priority = q /\ h.arrival <= y.arrival
        /\ HeadAt(b, q) = h.observedAt
    BY <1>3, HeadBefore, Zenon DEF T, HeadAt
  <2>3. CASE q = p
    BY <1>2, <1>3, <2>1, <2>3, BehindLeavesLater, Zenon
  <2>4. CASE q # p
    <3>1. h.observedAt <= at(y) /\ h.observedAt \in Nat /\ at(y) \in Nat /\ at(x) \in Nat /\ q \in Nat
      BY <1>3, <1>6, <2>1, <2>2, ObservationTyped, Zenon DEF Ahead
    <3>2. x.observedAt < h.observedAt \/ (x.observedAt = h.observedAt /\ p <= q)
      BY <1>5, <2>2, Zenon
    <3>3. p < q => Buffer!DropsBefore(x, y)
      <4>1. x \in Observation /\ x.priority = p
        BY <1>2, Zenon
      <4>2. x.priority < y.priority => Buffer!DropsBefore(x, y)
        BY <2>1, <4>1, DropsInOrder, Zenon
      <4>. QED BY <4>1, <4>2, Zenon
    <3>4. at(x) < at(y) \/ (at(x) = at(y) /\ p < q)
      <4>1. PICK z \in Ahead(S, x) : z.observedAt = at(x)
        BY <1>3, Leaving, Zenon DEF at
      <4>. HIDE DEF h, q
      <4>2. CASE z = x
        <5>1. at(x) = x.observedAt
          BY <4>1, <4>2, Zenon
        <5>. QED BY <1>4, <2>4, <3>1, <3>2, <5>1
      <4>3. CASE z # x
        <5>1. z \in S /\ z.priority = p /\ z.arrival <= x.arrival
          BY <1>2, <4>1, Zenon DEF Ahead
        <5>2. z \notin T
          <6>1. z.arrival \in Nat /\ x.arrival \in Nat
            BY <1>3, <5>1, ObservationTyped, Zenon
          <6>2. ~(x.arrival < z.arrival)
            BY <5>1, <6>1
          <6>. QED BY <1>2, <4>3, <5>1, <6>2, Zenon
        <5>3. at(z) < at(y) \/ (at(z) = at(y) /\ Buffer!DropsBefore(z, y))
          BY <5>1, <5>2, Zenon DEF Buffer!DrainsBefore, T, at
        <5>4. z \in Ahead(S, z)
          BY <5>1, Leaving, Zenon
        <5>5. at(x) <= at(z) /\ at(z) \in Nat
          BY <1>6, <4>1, <5>1, <5>4, Zenon
        <5>6. Buffer!DropsBefore(z, y) => p < q
          <6>1. Buffer!DropsBefore(z, y) => p <= q
            <7>1. z \in Observation /\ z.priority = p
              BY <5>1, Zenon
            <7>2. Buffer!DropsBefore(z, y) => z.priority <= y.priority
              BY <2>1, <7>1, DropsInOrder, Zenon
            <7>. QED BY <7>1, <7>2, Zenon DEF q
          <6>. QED BY <1>4, <2>4, <3>1, <6>1
        <5>. QED BY <3>1, <5>3, <5>5, <5>6
      <4>. QED BY <4>2, <4>3
    <3>. QED BY <3>3, <3>4, Zenon DEF Buffer!DrainsBefore, at
  <2>. QED BY <2>3, <2>4
<1>8. ASSUME \A q \in Priority : Chronological(b[q]), NEW y \in T PROVE x.observedAt <= y.observedAt
  <2>1. y.priority \in Occupied(b) /\ y \in Observation
    BY <1>3, HeadBefore, Zenon DEF T
  <2>2. HeadAt(b, y.priority) <= y.observedAt /\ b[y.priority][1] \in Observation
    BY <1>3, <1>8, <2>1, HeadBefore, Zenon DEF T, Occupied
  <2>3. HeadAt(b, y.priority) \in Nat /\ y.observedAt \in Nat
    BY <2>1, <2>2, ObservationTyped, Zenon DEF HeadAt
  <2>4. x.observedAt < HeadAt(b, y.priority) \/ x.observedAt = HeadAt(b, y.priority)
    BY <1>5, <2>1, Zenon
  <2>. QED BY <1>4, <2>2, <2>3, <2>4
<1>. QED BY <1>1, <1>7, <1>8, Zenon DEF T

-----------------------------------------------------------------------------
(***************************************************************************)
(* The drain loop: what is taken leaves before what is left, in the order  *)
(* of the buffer, and comes out in time order if the buckets are.          *)
(***************************************************************************)
LEMMA TailsKeepTheTime ==
    ASSUME NEW s \in Seq(Observation), s # <<>>, Chronological(s)
    PROVE  Chronological(Tail(s))
<1>. DEFINE n == Len(s)
            t == Tail(s)
<1>1. /\ n \in Nat /\ DOMAIN s = 1 .. n /\ DOMAIN t = 1 .. n - 1
      /\ \A i \in 1 .. n - 1 : i \in 1 .. n /\ i + 1 \in 1 .. n /\ t[i] = s[i + 1]
  BY HeadTailProperties, SequenceTyped
<1>2. \A i, j \in 1 .. n : i < j => s[i].observedAt <= s[j].observedAt
  BY <1>1, Zenon DEF Chronological
<1>. HIDE DEF n, t
<1>3. ASSUME NEW i \in 1 .. n - 1, NEW j \in 1 .. n - 1, i < j PROVE t[i].observedAt <= t[j].observedAt
  <2>1. i + 1 < j + 1
    BY <1>1, <1>3
  <2>2. s[i + 1].observedAt <= s[j + 1].observedAt
    BY <1>1, <1>2, <2>1, Zenon
  <2>. QED BY <1>1, <2>2, Zenon
<1>. QED BY <1>1, <1>3, Zenon DEF Chronological, t

LEMMA AppendKeepsTheTime ==
    ASSUME NEW s \in Seq(Observation), NEW x \in Observation, Chronological(s),
           \A y \in Range(s) : y.observedAt <= x.observedAt
    PROVE  /\ Append(s, x) \in Seq(Observation) /\ Range(Append(s, x)) = Range(s) \cup {x}
           /\ Chronological(Append(s, x))
<1>. DEFINE n == Len(s)
            t == Append(s, x)
<1>1. /\ n \in Nat /\ DOMAIN s = 1 .. n /\ DOMAIN t = 1 .. n + 1 /\ t \in Seq(Observation) /\ t[n + 1] = x
      /\ \A i \in 1 .. n : i \in 1 .. n + 1 /\ t[i] = s[i]
      /\ \A i \in 1 .. n + 1 : i \in 1 .. n \/ i = n + 1
      /\ n + 1 \in 1 .. n + 1
  BY AppendProperties, SequenceTyped
<1>2. \A i, j \in 1 .. n : i < j => s[i].observedAt <= s[j].observedAt
  BY <1>1, Zenon DEF Chronological
<1>. HIDE DEF n, t
<1>3. Range(t) = Range(s) \cup {x}
  BY <1>1, Zenon DEF Range
<1>4. ASSUME NEW i \in 1 .. n + 1, NEW j \in 1 .. n + 1, i < j PROVE t[i].observedAt <= t[j].observedAt
  <2>1. i \in 1 .. n
    BY <1>1, <1>4
  <2>2. CASE j \in 1 .. n
    BY <1>1, <1>2, <1>4, <2>1, <2>2, Zenon
  <2>3. CASE j = n + 1
    BY <1>1, <2>1, <2>3, Zenon DEF Range
  <2>. QED BY <1>1, <2>2, <2>3, Zenon
<1>5. Chronological(t)
  BY <1>1, <1>4, Zenon DEF Chronological
<1>. QED BY <1>1, <1>3, <1>5, Zenon DEF t

Takes(s, k, t) ==
    /\ Sound(t.buckets) /\ Contents(t.buckets) \in SUBSET Contents(s.buckets)
    /\ \A x \in Gone(s, t), y \in Contents(t.buckets) : Buffer!DrainsBefore(Contents(s.buckets), x, y)
    /\ t.bytes = s.bytes - Bytes(Gone(s, t))
    /\ Cardinality(Gone(s, t)) <= k
    /\ Cardinality(Gone(s, t)) = k \/ Contents(t.buckets) = {}

InTime(b) == \A p \in Priority : Chronological(b[p])

\* What is taken so far is in time order, and no later than what is left.
Merges(t) ==
    /\ InTime(t.buckets) /\ t.batch \in Seq(Observation) /\ Chronological(t.batch)
    /\ \A x \in Range(t.batch), y \in Contents(t.buckets) : x.observedAt <= y.observedAt

\* One round takes the head x of bucket p, which leaves c.
LEMMA OneRound ==
    ASSUME NEW t, Sound(t.buckets), Occupied(t.buckets) # {}
    PROVE  \E p \in Priority : \E x, c :
             /\ p = NextQueued(t.buckets) /\ Pops(t.buckets, p, x, c)
             /\ drainRound(t).buckets = c /\ drainRound(t).bytes = t.bytes - x.sizeBytes
             /\ drainRound(t).batch = Append(t.batch, x)
<1>. DEFINE b == t.buckets
            p == NextQueued(b)
            x == Head(b[p])
            c == [b EXCEPT ![p] = Tail(b[p])]
            u == drainRound(t)
<1>1. u = [buckets |-> c, bytes |-> t.bytes - x.sizeBytes, batch |-> Append(t.batch, x)]
  BY Zenon DEF drainRound, takeNextQueued
<1>2. p \in Priority /\ b[p] # <<>>
  <2>1. p \in Occupied(b)
    BY NextExists, Zenon
  <2>. QED BY <2>1, Zenon DEF Occupied
<1>3. Pops(b, p, x, c)
  BY <1>2, Zenon DEF Pops
<1>4. u.buckets = c /\ u.bytes = t.bytes - x.sizeBytes /\ u.batch = Append(t.batch, x)
  <2>. HIDE DEF u, c, x
  <2>. QED BY <1>1
<1>. HIDE DEF b, p, x, c, u
<1>5. p = NextQueued(t.buckets) /\ b = t.buckets /\ u = drainRound(t)
  BY Zenon DEF b, p, u
<1>. QED BY <1>2, <1>3, <1>4, <1>5, Zenon

LEMMA TakesOne ==
    ASSUME NEW s, Sound(s.buckets), s.bytes \in Int, NEW k \in Nat, NEW t, Takes(s, k, t)
    PROVE  Takes(s, k + 1, drainRound(t))
<1>. DEFINE S == Contents(s.buckets)
            b == t.buckets
            T == Contents(b)
            G == Gone(s, t)
            u == drainRound(t)
<1>0. Sound(b) /\ T \in SUBSET S /\ G = S \ T /\ S \ T = G /\ S \ G = T /\ G \in SUBSET S
  BY Zenon DEF Takes, Gone
<1>1. S \in SUBSET Observation /\ IsFiniteSet(S) /\ Distinct(S)
  BY LengthCounts, Listed, Zenon DEF Sound
<1>2. Occupied(b) = {} <=> T = {}
  BY <1>0, Listed, Zenon DEF Sound
<1>3. /\ \A x \in G, y \in T : Buffer!DrainsBefore(S, x, y)
      /\ t.bytes = s.bytes - Bytes(G) /\ Cardinality(G) <= k /\ (Cardinality(G) = k \/ T = {})
  BY Zenon DEF Takes
<1>4. IsFiniteSet(G) /\ Cardinality(G) \in Nat
  BY <1>0, <1>1, FS_Subset, FS_CardinalityType, Zenon
<1>5. CASE Occupied(b) = {}
  <2>1. u = t /\ T = {}
    BY <1>2, <1>5, Zenon DEF drainRound
  <2>2. Cardinality(G) <= k + 1
    BY <1>3, <1>4
  <2>. QED BY <2>1, <2>2, Zenon DEF Takes
<1>6. CASE Occupied(b) # {}
  <2>1. PICK p \in Priority : \E x, c :
             /\ p = NextQueued(b) /\ Pops(b, p, x, c)
             /\ u.buckets = c /\ u.bytes = t.bytes - x.sizeBytes
             /\ u.batch = Append(t.batch, x)
    BY <1>0, <1>6, OneRound, Zenon
  <2>. HIDE DEF S, b, T, G, u
  <2>2. PICK x, c : /\ p = NextQueued(b) /\ Pops(b, p, x, c)
                    /\ u.buckets = c /\ u.bytes = t.bytes - x.sizeBytes
    BY <2>1, Zenon
  <2>3. Sound(c) /\ x \in T /\ x \in Observation /\ Contents(c) = T \ {x}
    BY <1>0, <2>2, HeadLeaves DEF T
  <2>4. \A y \in T \ {x} : Buffer!DrainsBefore(S, x, y)
    <3>1. Contents(b) \in SUBSET S /\ \A d \in S \ Contents(b), y \in Contents(b) : Buffer!DrainsBefore(S, d, y)
      BY <1>0, <1>3, Zenon DEF T
    <3>. QED BY <1>0, <1>1, <1>6, <2>2, <3>1, NextLeavesFirst, Zenon DEF T
  <2>5. Sound(u.buckets) /\ Contents(u.buckets) \in SUBSET S /\ Contents(u.buckets) = T \ {x}
    BY <1>0, <2>2, <2>3, Zenon
  <2>6. Gone(s, u) = G \cup {x} /\ x \in S \ G
    BY <1>0, <2>3, <2>5, Zenon DEF Gone, S
  <2>7. \A y \in Gone(s, u), z \in Contents(u.buckets) : Buffer!DrainsBefore(S, y, z)
    BY <1>3, <2>4, <2>5, <2>6, Zenon
  <2>8. /\ Bytes(G \cup {x}) = Bytes(G) + x.sizeBytes /\ Bytes(G) \in Nat /\ x.sizeBytes \in Nat
        /\ Cardinality(G \cup {x}) = Cardinality(G) + 1
    <3>1. x.sizeBytes \in Nat
      BY <2>3, ObservationTyped, Zenon
    <3>2. G \in SUBSET S
      BY <1>0, Zenon
    <3>. QED BY <1>1, <2>6, <3>1, <3>2, OneMore
  <2>9. u.bytes = s.bytes - Bytes(Gone(s, u))
    <3>1. u.bytes = (s.bytes - Bytes(G)) - x.sizeBytes
      BY <1>3, <2>2, Zenon
    <3>2. \A i \in Int, l, m \in Nat : (i - l) - m = i - (l + m)
      OBVIOUS
    <3>3. u.bytes = s.bytes - (Bytes(G) + x.sizeBytes)
      BY <2>8, <3>1, <3>2, Zenon
    <3>. QED BY <2>6, <2>8, <3>3, Zenon
  <2>10. Cardinality(Gone(s, u)) <= k + 1 /\ Cardinality(Gone(s, u)) = k + 1
    <3>1. Cardinality(G) = k
      BY <1>2, <1>3, <1>6, Zenon
    <3>2. Cardinality(Gone(s, u)) = k + 1
      BY <2>6, <2>8, <3>1, Zenon
    <3>. QED BY <3>2
  <2>. QED BY <2>5, <2>7, <2>9, <2>10, Zenon DEF Takes, u, S
<1>. QED BY <1>5, <1>6

LEMMA MergesOne ==
    ASSUME NEW t, Sound(t.buckets), Merges(t)
    PROVE  Merges(drainRound(t))
<1>. DEFINE b == t.buckets
            T == Contents(b)
            u == drainRound(t)
<1>0. /\ InTime(b) /\ t.batch \in Seq(Observation) /\ Chronological(t.batch)
      /\ \A x \in Range(t.batch), y \in T : x.observedAt <= y.observedAt
  BY Zenon DEF Merges
<1>1. CASE Occupied(b) = {}
  <2>1. u = t
    BY <1>1, Zenon DEF drainRound
  <2>. QED BY <2>1, Zenon
<1>2. CASE Occupied(b) # {}
  <2>1. PICK p \in Priority : \E x, c :
             /\ p = NextQueued(b) /\ Pops(b, p, x, c)
             /\ u.buckets = c /\ u.bytes = t.bytes - x.sizeBytes
             /\ u.batch = Append(t.batch, x)
    BY <1>2, OneRound, Zenon
  <2>. HIDE DEF b, T, u
  <2>2. PICK x, c : /\ p = NextQueued(b) /\ Pops(b, p, x, c)
                    /\ u.buckets = c /\ u.batch = Append(t.batch, x)
    BY <2>1, Zenon
  <2>3. Sound(b)
    BY Zenon DEF b
  <2>4. Sound(c) /\ x \in T /\ x \in Observation /\ Contents(c) = T \ {x} /\ b[p] # <<>>
    BY <2>2, <2>3, HeadLeaves DEF T
  <2>5. \A y \in T : x.observedAt <= y.observedAt
    <3>1. T \in SUBSET Observation /\ IsFiniteSet(T) /\ T \in SUBSET T /\ T \ T = {}
      BY <2>3, LengthCounts, Listed, Zenon DEF Sound, T
    <3>2. \A d \in T \ Contents(b), y \in Contents(b) : Buffer!DrainsBefore(T, d, y)
      BY <3>1, Zenon DEF T
    <3>3. \A q \in Priority : Chronological(b[q])
      BY <1>0, Zenon DEF InTime
    <3>. QED BY <1>2, <2>2, <2>3, <3>1, <3>2, <3>3, NextLeavesFirst, Zenon DEF T
  <2>6. u.batch \in Seq(Observation) /\ Range(u.batch) = Range(t.batch) \cup {x} /\ Chronological(u.batch)
    <3>1. \A y \in Range(t.batch) : y.observedAt <= x.observedAt
      BY <1>0, <2>4, Zenon
    <3>. QED BY <1>0, <2>2, <2>4, <3>1, AppendKeepsTheTime, Zenon
  <2>7. InTime(c)
    <3>1. b \in [Priority -> Seq(Observation)]
      BY <2>3, Zenon DEF Sound
    <3>2. c[p] = Tail(b[p]) /\ \A q \in Priority \ {p} : c[q] = b[q]
      BY <2>2, <3>1, Zenon DEF Pops
    <3>3. Chronological(Tail(b[p]))
      BY <1>0, <2>4, <3>1, TailsKeepTheTime, Zenon DEF InTime
    <3>. QED BY <1>0, <3>2, <3>3, Zenon DEF InTime
  <2>8. \A y \in Range(u.batch), z \in Contents(u.buckets) : y.observedAt <= z.observedAt
    BY <1>0, <2>2, <2>4, <2>5, <2>6, Zenon
  <2>. QED BY <2>2, <2>6, <2>7, <2>8, Zenon DEF Merges, u
<1>. QED BY <1>1, <1>2
\* The drain loop takes the batch of the buffer.
LEMMA DrainLoopTakes ==
    ASSUME NEW s, Sound(s.buckets), s.bytes \in Int, NEW n \in Nat, NEW e, e = DrainLoop(s, n)
    PROVE  /\ Sound(e.buckets)
           /\ Gone(s, e) = Buffer!Batch(Contents(s.buckets), n)
           /\ Contents(e.buckets) = Contents(s.buckets) \ Buffer!Batch(Contents(s.buckets), n)
           /\ e.bytes = s.bytes - Bytes(Gone(s, e))
           /\ Merges(s) => Merges(e)
<1>. DEFINE S == Contents(s.buckets)
            T == Contents(e.buckets)
            G == Gone(s, e)
            Before(x) == {y \in S : Buffer!DrainsBefore(S, y, x)}
<1>1. S \in SUBSET Observation /\ IsFiniteSet(S) /\ Distinct(S)
  BY LengthCounts, Listed, Zenon DEF Sound
<1>2. PICK f : f[0] = s /\ (\A k \in 1 .. n : f[k] = drainRound(f[k - 1])) /\ e = f[n]
  <2>1. \E f : f[0] = s /\ (\A k \in 1 .. n : f[k] = drainRound(f[k - 1])) /\ DrainLoop(s, n) = f[n]
    BY DrainRounds
  <2>. QED BY <2>1, Zenon
<1>3. Takes(s, n, e) /\ (Merges(s) => Merges(e))
  <2>. DEFINE Taken(k, t) == Takes(s, k, t) /\ (Merges(s) => Merges(t))
              H == {k \in Nat : k <= n => Taken(k, f[k])}
  <2>1. 0 \in H
    <3>1. Gone(s, s) = {} /\ Cardinality({}) = 0 /\ Bytes({}) = 0
      <4>1. {} \in SUBSET S /\ S \ S = {}
        BY Zenon
      <4>2. Bytes(S) \in Nat /\ Bytes({}) \in Nat /\ Bytes(S) = Bytes(S) + Bytes({})
        <5>1. S \in SUBSET S
          BY Zenon
        <5>. QED BY <1>1, <4>1, <5>1, BytesAddUp, Zenon
      <4>3. Bytes({}) = 0
        BY <4>2
      <4>. QED BY <4>1, <4>3, FS_EmptySet, Zenon DEF Gone
    <3>2. s.bytes = s.bytes - 0 /\ 0 <= 0
      OBVIOUS
    <3>3. Contents(s.buckets) \in SUBSET Contents(s.buckets)
      BY Zenon
    <3>4. Takes(s, 0, s)
      BY <3>1, <3>2, <3>3, Zenon DEF Takes
    <3>. QED BY <1>2, <3>4, Zenon
  <2>2. ASSUME NEW k \in Nat, k \in H PROVE k + 1 \in H
    <3>5. k + 1 \in Nat
      OBVIOUS
    <3>1. SUFFICES ASSUME k + 1 <= n PROVE Taken(k + 1, f[k + 1])
      BY <3>5, Zenon
    <3>2. k <= n /\ k + 1 \in 1 .. n /\ (k + 1) - 1 = k
      BY <3>1
    <3>3. f[k + 1] = drainRound(f[k])
      BY <1>2, <3>2, Zenon
    <3>4. Takes(s, k, f[k]) /\ (Merges(s) => Merges(f[k]))
      BY <2>2, <3>2, Zenon
    <3>7. Takes(s, k + 1, f[k + 1])
      BY <3>3, <3>4, TakesOne, Zenon
    <3>6. Merges(s) => Merges(f[k + 1])
      <4>1. Sound(f[k].buckets)
        BY <3>4, Zenon DEF Takes
      <4>. QED BY <3>3, <3>4, <4>1, MergesOne, Zenon
    <3>. QED BY <3>7, <3>6, Zenon
  <2>3. H = Nat
    <3>. HIDE DEF H
    <3>1. H \in SUBSET Nat
      BY DEF H
    <3>. QED BY <2>1, <2>2, <3>1, NaturalsInduct, Zenon
  <2>4. n \in H /\ n <= n
    BY <2>3
  <2>. QED BY <1>2, <2>4, Zenon
<1>4. T \in SUBSET S /\ G = S \ T /\ G \in SUBSET S /\ Sound(e.buckets)
  BY <1>3, Zenon DEF Takes, Gone
<1>5. IsFiniteSet(G) /\ Cardinality(G) \in Nat
  BY <1>1, <1>4, FS_Subset, FS_CardinalityType, Zenon
<1>6. /\ e.bytes = s.bytes - Bytes(G) /\ Cardinality(G) <= n /\ (Cardinality(G) = n \/ T = {})
      /\ \A x \in G, y \in T : Buffer!DrainsBefore(S, x, y)
  BY <1>3, Zenon DEF Takes
<1>. HIDE DEF G, T, S
<1>7. ASSUME NEW x \in S PROVE IsFiniteSet(Before(x)) /\ Cardinality(Before(x)) \in Nat /\ Before(x) \in SUBSET S
  <2>1. Before(x) \in SUBSET S
    BY Zenon
  <2>. QED BY <1>1, <2>1, FS_Subset, FS_CardinalityType, Zenon
<1>8. ASSUME NEW x \in G PROVE Cardinality(Before(x)) < n
  <2>1. x \in S
    BY <1>4, Zenon
  <2>2. Before(x) \in SUBSET G /\ x \notin Before(x)
    <3>1. ASSUME NEW y \in S, Buffer!DrainsBefore(S, y, x) PROVE y \in G /\ y # x
      <4>1. y # x /\ ~Buffer!DrainsBefore(S, x, y)
        BY <1>1, <2>1, <3>1, DrainsInOrder, Zenon
      <4>. QED BY <1>4, <1>6, <4>1, Zenon
    <3>. QED BY <3>1, Zenon
  <2>. DEFINE B == Before(x)
  <2>3. IsFiniteSet(B) /\ Cardinality(B) \in Nat
    BY <1>7, <2>1, Zenon
  <2>. HIDE DEF B
  <2>4. B \in SUBSET G /\ B # G
    BY <2>2, Zenon DEF B
  <2>5. Cardinality(B) <= Cardinality(G) /\ Cardinality(B) # Cardinality(G)
    BY <1>5, <2>4, FS_Subset, Zenon
  <2>. QED BY <1>5, <1>6, <2>3, <2>5 DEF B
<1>9. ASSUME NEW x \in T PROVE ~(Cardinality(Before(x)) < n)
  <2>1. x \in S /\ Cardinality(G) = n
    BY <1>4, <1>6, <1>9, Zenon
  <2>2. G \in SUBSET Before(x)
    BY <1>4, <1>6, <1>9, Zenon
  <2>. DEFINE B == Before(x)
  <2>3. IsFiniteSet(B) /\ Cardinality(B) \in Nat
    BY <1>7, <2>1, Zenon
  <2>. HIDE DEF B
  <2>4. Cardinality(G) <= Cardinality(B)
    <3>1. G \in SUBSET B
      BY <2>2, Zenon DEF B
    <3>. QED BY <2>3, <3>1, FS_Subset, Zenon
  <2>. QED BY <2>1, <2>3, <2>4 DEF B
<1>10. G = Buffer!Batch(S, n)
  <2>1. Buffer!Batch(S, n) = {x \in S : Cardinality(Before(x)) < n}
    BY SameOperators, Zenon DEF Buffer!Batch
  <2>2. \A x \in S : Cardinality(Before(x)) < n <=> x \in G
    BY <1>4, <1>8, <1>9, Zenon
  <2>. HIDE DEF Before
  <2>. QED BY <1>4, <2>1, <2>2, Zenon
<1>11. T = S \ Buffer!Batch(S, n)
  BY <1>4, <1>10, Zenon
<1>. QED BY <1>3, <1>4, <1>6, <1>10, <1>11, Zenon DEF G, T, S

-----------------------------------------------------------------------------
(***************************************************************************)
(* The queue between calls, and what each call makes of it.                *)
(***************************************************************************)
Kept(b, bytes, drops, n) ==
    /\ Sound(b) /\ bytes \in Int /\ drops \in Int /\ n \in Nat
    /\ \A x \in Contents(b) : x.arrival < n

QInv == Kept(buckets, queueBytes, dropCount, arrivals)

LEMMA QueuedIsContents == Queued = Contents(buckets) /\ Queued' = Contents(buckets')
BY Zenon DEF Queued, Contents

LEMMA EmptyBuckets ==
    /\ Sound(createPendingGatewayObservationQueue)
    /\ Contents(createPendingGatewayObservationQueue) = {}
<1>. DEFINE b == createPendingGatewayObservationQueue
<1>1. b = [p \in Priority |-> <<>>]
  BY Zenon DEF createPendingGatewayObservationQueue
<1>. HIDE DEF b
<1>2. b \in [Priority -> Seq(Observation)] /\ \A p \in Priority : b[p] = <<>>
  <2>1. <<>> \in Seq(Observation)
    OBVIOUS
  <2>. QED BY <1>1, <2>1, Zenon
<1>3. \A p \in Priority : 1 .. Len(b[p]) = {}
  <2>1. 1 .. Len(<<>>) = {}
    OBVIOUS
  <2>. QED BY <1>2, <2>1, Zenon
<1>4. Contents(b) = {}
  BY <1>2, <1>3, FoundIn, Zenon
<1>5. Sound(b)
  BY <1>2, <1>3, <1>4, Zenon DEF Sound, Distinct
<1>. QED BY <1>4, <1>5, Zenon DEF b

LEMMA QueueInit == Init => QInv /\ Buffer!Init
<1>1. 0 \in Int /\ 0 \in Nat
  OBVIOUS
<1>2. Init => QInv
  BY <1>1, EmptyBuckets, Zenon DEF Init, QInv, Kept
<1>3. Init => Buffer!Init
  BY EmptyBuckets, QueuedIsContents, Zenon DEF Init, Buffer!Init
<1>. QED BY <1>2, <1>3

LEMMA QueueEnqueues ==
    ASSUME QInv, NEW priority \in Priority, NEW observedAt \in ObservedAt, NEW sizeBytes \in SizeBytes,
           enqueueGatewayObservation(priority, observedAt, sizeBytes)
    PROVE  /\ QInv'
           /\ Buffer!enqueueGatewayObservation(priority, observedAt, sizeBytes)
           /\ \A x \in Queued \ Queued', y \in Queued' : x.priority <= y.priority
<1>. DEFINE item == [arrival |-> arrivals, priority |-> priority,
                     observedAt |-> observedAt, sizeBytes |-> sizeBytes]
            c == [buckets EXCEPT ![priority] = Append(@, item)]
            s == [buckets |-> c, bytes |-> queueBytes + sizeBytes, drops |-> dropCount]
            e == DropToLimits(s)
            full == Queued \cup {item}
<1>1. /\ Sound(buckets) /\ queueBytes \in Int /\ dropCount \in Int /\ arrivals \in Nat
      /\ \A x \in Queued : x.arrival < arrivals
      /\ Queued = Contents(buckets) /\ Queued' = Contents(buckets')
  BY QueuedIsContents, Zenon DEF QInv, Kept
<1>2. /\ arrivals < MaxArrivals /\ e.drops <= MaxDropCount
      /\ buckets' = e.buckets /\ queueBytes' = e.bytes /\ dropCount' = e.drops /\ arrivals' = arrivals + 1
  BY Zenon DEF enqueueGatewayObservation
<1>3. s.buckets = c /\ s.bytes = queueBytes + sizeBytes /\ s.drops = dropCount
  <2>. HIDE DEF c, item
  <2>. QED OBVIOUS
<1>4. item \in Observation /\ item.priority = priority /\ item.arrival = arrivals
  <2>1. Observation = [arrival : Nat, priority : Priority, observedAt : ObservedAt, sizeBytes : SizeBytes]
    BY SameOperators, Zenon DEF Observation, Buffer!Observation
  <2>2. item \in [arrival : Nat, priority : Priority, observedAt : ObservedAt, sizeBytes : SizeBytes]
    BY <1>1
  <2>. QED BY <2>1, <2>2
<1>5. Pushes(buckets, priority, item, c)
  BY Zenon DEF Pushes
<1>. HIDE DEF item, c
<1>6. Sound(c) /\ Contents(c) = full
  BY <1>1, <1>4, <1>5, NewcomerJoins, Zenon
<1>7. sizeBytes \in Nat /\ queueBytes + sizeBytes \in Int
  <2>1. sizeBytes \in Nat
    BY ObservationAssumption, Zenon
  <2>. QED BY <1>1, <2>1
<1>. HIDE DEF s
<1>8. Sound(s.buckets) /\ s.bytes \in Int /\ s.drops \in Int /\ Contents(s.buckets) = full
  BY <1>1, <1>3, <1>6, <1>7, Zenon
<1>9. /\ Sound(e.buckets) /\ Contents(e.buckets) = Buffer!Kept(full, queueBytes + sizeBytes)
      /\ e.bytes = s.bytes - Bytes(Gone(s, e)) /\ e.drops = s.drops + Cardinality(Gone(s, e))
      /\ \A x \in Gone(s, e), y \in Contents(e.buckets) : Buffer!DropsBefore(x, y)
  <2>. HIDE DEF full
  <2>. QED BY <1>3, <1>8, DropLoopKeeps, Zenon
<1>. HIDE DEF e
<1>. DEFINE kept == Buffer!Kept(full, queueBytes + sizeBytes)
            G == full \ kept
<1>10. Queued' = kept /\ Gone(s, e) = G
  BY <1>1, <1>2, <1>8, <1>9, Zenon DEF Gone
<1>11. kept \in SUBSET full /\ full \in SUBSET Observation /\ IsFiniteSet(full) /\ Distinct(full)
  <2>1. full \in SUBSET Observation /\ IsFiniteSet(full) /\ Distinct(full)
    <3>1. c \in [Priority -> Seq(Observation)] /\ Distinct(Contents(c))
      BY <1>6, Zenon DEF Sound
    <3>2. IsFiniteSet(Contents(c)) /\ Contents(c) \in SUBSET Observation
      BY <1>6, <3>1, LengthCounts, Listed, Zenon
    <3>3. Contents(c) = full
      BY <1>6, Zenon
    <3>. HIDE DEF full
    <3>. QED BY <3>1, <3>2, <3>3, Zenon
  <2>2. kept \in SUBSET full
    BY Zenon DEF Buffer!Kept
  <2>. QED BY <2>1, <2>2
<1>12. Bytes(G) \in Nat /\ Cardinality(G) \in Nat
  <2>. HIDE DEF kept, full
  <2>1. G \in SUBSET full
    BY Zenon
  <2>2. IsFiniteSet(G)
    BY <1>11, <2>1, FS_Subset, Zenon
  <2>. QED BY <1>11, <2>1, <2>2, BytesAddUp, FS_CardinalityType, Zenon
<1>13. queueBytes' = (queueBytes + sizeBytes) - Bytes(G) /\ dropCount' = dropCount + Cardinality(G)
  BY <1>2, <1>3, <1>9, <1>10, Zenon
<1>14. QInv'
  <2>1. Sound(buckets')
    BY <1>2, <1>9, Zenon
  <2>2. queueBytes' \in Int /\ dropCount' \in Int /\ arrivals' \in Nat
    <3>. HIDE DEF G
    <3>. QED BY <1>1, <1>2, <1>7, <1>12, <1>13
  <2>3. ASSUME NEW x \in full PROVE x.arrival < arrivals'
    <3>1. x.arrival \in Nat /\ (x.arrival < arrivals \/ x.arrival = arrivals)
      BY <1>1, <1>4, <1>11, ObservationTyped, Zenon
    <3>. QED BY <1>1, <1>2, <3>1
  <2>4. \A x \in Contents(buckets') : x.arrival < arrivals'
    BY <1>1, <1>10, <1>11, <2>3, Zenon
  <2>. QED BY <2>1, <2>2, <2>4, Zenon DEF QInv, Kept
<1>15. Buffer!enqueueGatewayObservation(priority, observedAt, sizeBytes)
  <2>1. dropCount + Cardinality(G) <= MaxDropCount
    BY <1>2, <1>13, Zenon
  <2>2. \A S : Buffer!Cardinality(S) = Cardinality(S) /\ Buffer!Bytes(S) = Bytes(S)
    BY SameOperators, Zenon DEF Bytes
  <2>. HIDE DEF kept
  <2>3. queueBytes' = (queueBytes + sizeBytes) - Buffer!Bytes(G) /\ dropCount' = dropCount + Buffer!Cardinality(G)
        /\ dropCount + Buffer!Cardinality(G) <= MaxDropCount
    BY <1>13, <2>1, <2>2, Zenon
  <2>. QED BY <1>2, <1>10, <2>3, Zenon DEF Buffer!enqueueGatewayObservation, item, kept
<1>16. \A x \in Queued \ Queued', y \in Queued' : x.priority <= y.priority
  <2>1. ASSUME NEW x \in Queued \ Queued', NEW y \in Queued' PROVE x.priority <= y.priority
    <3>1. x \in G /\ y \in kept /\ x \in Observation /\ y \in Observation
      BY <1>10, <1>11, Zenon
    <3>2. Buffer!DropsBefore(x, y)
      BY <1>9, <1>10, <3>1, Zenon
    <3>. QED BY <3>1, <3>2, DropsInOrder, Zenon
  <2>. QED BY <2>1
<1>. QED BY <1>14, <1>15, <1>16

LEMMA QueueDrains ==
    ASSUME QInv, NEW maxItems \in Nat, drainPendingGatewayObservationBatch(maxItems)
    PROVE  /\ QInv'
           /\ Buffer!drainPendingGatewayObservationBatch(maxItems)
           /\ (\A p \in Priority : Chronological(buckets[p]))
              => /\ Chronological(batch')
                 /\ \A x \in Range(batch'), y \in Queued' : x.observedAt <= y.observedAt
<1>. DEFINE s == [buckets |-> buckets, bytes |-> queueBytes, batch |-> <<>>]
            e == DrainLoop(s, maxItems)
            B == Buffer!Batch(Queued, maxItems)
<1>1. /\ Sound(buckets) /\ queueBytes \in Int /\ dropCount \in Int /\ arrivals \in Nat
      /\ \A x \in Queued : x.arrival < arrivals
      /\ Queued = Contents(buckets) /\ Queued' = Contents(buckets')
  BY QueuedIsContents, Zenon DEF QInv, Kept
<1>2. /\ buckets' = e.buckets /\ queueBytes' = e.bytes /\ batch' = e.batch
      /\ dropCount' = dropCount /\ arrivals' = arrivals
  BY Zenon DEF drainPendingGatewayObservationBatch
<1>3. s.buckets = buckets /\ s.bytes = queueBytes /\ s.batch = <<>>
  OBVIOUS
<1>. HIDE DEF s
<1>4. /\ Sound(e.buckets) /\ Gone(s, e) = B /\ Contents(e.buckets) = Queued \ B
      /\ e.bytes = queueBytes - Bytes(B) /\ (Merges(s) => Merges(e))
  <2>1. Sound(s.buckets) /\ s.bytes \in Int
    BY <1>1, <1>3, Zenon
  <2>2. /\ Sound(e.buckets)
        /\ Gone(s, e) = Buffer!Batch(Contents(s.buckets), maxItems)
        /\ Contents(e.buckets) = Contents(s.buckets) \ Buffer!Batch(Contents(s.buckets), maxItems)
        /\ e.bytes = s.bytes - Bytes(Gone(s, e))
        /\ Merges(s) => Merges(e)
    BY <2>1, DrainLoopTakes
  <2>3. Contents(s.buckets) = Queued
    BY <1>1, <1>3, Zenon
  <2>. QED BY <1>3, <2>2, <2>3, Zenon
<1>. HIDE DEF e
<1>5. Bytes(B) \in Nat
  <2>1. Queued \in SUBSET Observation /\ IsFiniteSet(Queued) /\ Distinct(Queued)
    BY <1>1, LengthCounts, Listed, Zenon DEF Sound
  <2>2. B \in SUBSET Queued
    BY Zenon DEF Buffer!Batch
  <2>. HIDE DEF B
  <2>. QED BY <2>1, <2>2, BytesAddUp, Zenon
<1>6. QInv'
  <2>1. Sound(buckets')
    BY <1>2, <1>4, Zenon
  <2>2. queueBytes' \in Int /\ dropCount' \in Int /\ arrivals' \in Nat
    <3>. HIDE DEF B
    <3>1. queueBytes' = queueBytes - Bytes(B)
      BY <1>2, <1>4, Zenon
    <3>. QED BY <1>1, <1>2, <1>5, <3>1
  <2>3. \A x \in Contents(buckets') : x.arrival < arrivals'
    BY <1>1, <1>2, <1>4, Zenon
  <2>. QED BY <2>1, <2>2, <2>3, Zenon DEF QInv, Kept
<1>7. Buffer!drainPendingGatewayObservationBatch(maxItems)
  <2>1. Queued' = Queued \ B /\ queueBytes' = queueBytes - Buffer!Bytes(B)
    BY <1>1, <1>2, <1>4, Zenon DEF Bytes
  <2>. QED BY <1>2, <2>1, Zenon DEF Buffer!drainPendingGatewayObservationBatch
<1>8. ASSUME \A p \in Priority : Chronological(buckets[p])
      PROVE  /\ Chronological(batch')
             /\ \A x \in Range(batch'), y \in Queued' : x.observedAt <= y.observedAt
  <2>1. <<>> \in Seq(Observation) /\ DOMAIN <<>> = {}
    OBVIOUS
  <2>2. Chronological(<<>>) /\ Range(<<>>) = {}
    BY <2>1, Zenon DEF Chronological, Range
  <2>3. Merges(s)
    BY <1>3, <1>8, <2>1, <2>2, Zenon DEF Merges, InTime
  <2>4. Chronological(e.batch) /\ \A x \in Range(e.batch), y \in Contents(e.buckets) : x.observedAt <= y.observedAt
    BY <1>4, <2>3, Zenon DEF Merges
  <2>. QED BY <1>1, <1>2, <2>4, Zenon
<1>. QED BY <1>6, <1>7, <1>8

LEMMA QueueRests ==
    ASSUME QInv,
           \/ clearPendingGatewayObservationQueue
           \/ consumeDroppedGatewayObservationCount
           \/ registerDroppedGatewayObservationCount(1)
           \/ UNCHANGED vars
    PROVE  /\ QInv' /\ [Buffer!Next]_(Buffer!vars)
           /\ arrivals' = arrivals
           /\ batch' = <<>> \/ UNCHANGED vars
<1>1. /\ Sound(buckets) /\ queueBytes \in Int /\ dropCount \in Int /\ arrivals \in Nat
      /\ \A x \in Contents(buckets) : x.arrival < arrivals
      /\ Queued = Contents(buckets) /\ Queued' = Contents(buckets')
  BY QueuedIsContents, Zenon DEF QInv, Kept
<1>2. CASE clearPendingGatewayObservationQueue
  <2>1. /\ buckets' = createPendingGatewayObservationQueue /\ queueBytes' = 0 /\ batch' = <<>>
        /\ dropCount' = dropCount /\ arrivals' = arrivals
    BY <1>2, Zenon DEF clearPendingGatewayObservationQueue
  <2>2. QInv'
    <3>1. 0 \in Int
      OBVIOUS
    <3>. QED BY <1>1, <2>1, <3>1, EmptyBuckets, Zenon DEF QInv, Kept
  <2>3. Buffer!clearPendingGatewayObservationQueue
    BY <1>1, <2>1, EmptyBuckets, Zenon DEF Buffer!clearPendingGatewayObservationQueue
  <2>. QED BY <2>1, <2>2, <2>3, Zenon DEF Buffer!Next
<1>3. CASE consumeDroppedGatewayObservationCount
  <2>1. /\ buckets' = buckets /\ queueBytes' = queueBytes /\ batch' = <<>>
        /\ dropCount' = 0 /\ arrivals' = arrivals
    BY <1>3, Zenon DEF consumeDroppedGatewayObservationCount
  <2>2. QInv'
    <3>1. 0 \in Int
      OBVIOUS
    <3>. QED BY <1>1, <2>1, <3>1, Zenon DEF QInv, Kept
  <2>3. Buffer!consumeDroppedGatewayObservationCount
    BY <1>1, <2>1, Zenon DEF Buffer!consumeDroppedGatewayObservationCount
  <2>. QED BY <2>1, <2>2, <2>3, Zenon DEF Buffer!Next
<1>4. CASE registerDroppedGatewayObservationCount(1)
  <2>1. /\ buckets' = buckets /\ queueBytes' = queueBytes /\ batch' = <<>>
        /\ dropCount + 1 <= MaxDropCount /\ dropCount' = dropCount + 1 /\ arrivals' = arrivals
    BY <1>4, Zenon DEF registerDroppedGatewayObservationCount
  <2>2. QInv'
    <3>1. dropCount' \in Int
      BY <1>1, <2>1
    <3>. QED BY <1>1, <2>1, <3>1, Zenon DEF QInv, Kept
  <2>3. Buffer!registerDroppedGatewayObservationCount(1)
    BY <1>1, <2>1, Zenon DEF Buffer!registerDroppedGatewayObservationCount
  <2>. QED BY <2>1, <2>2, <2>3, Zenon DEF Buffer!Next
<1>5. CASE UNCHANGED vars
  <2>1. /\ buckets' = buckets /\ queueBytes' = queueBytes /\ dropCount' = dropCount /\ arrivals' = arrivals
    BY <1>5, Zenon DEF vars
  <2>2. QInv'
    BY <1>1, <2>1, Zenon DEF QInv, Kept
  <2>3. UNCHANGED Buffer!vars
    BY <1>1, <2>1, Zenon DEF Buffer!vars
  <2>. QED BY <1>5, <2>1, <2>2, <2>3, Zenon
<1>. QED BY <1>2, <1>3, <1>4, <1>5

LEMMA QueueSteps ==
    ASSUME QInv, [Next]_vars
    PROVE  /\ QInv' /\ [Buffer!Next]_(Buffer!vars)
           /\ arrivals' > arrivals => \A x \in Queued \ Queued', y \in Queued' : x.priority <= y.priority
           /\ ~UNCHANGED vars /\ batch' # <<>> /\ (\A p \in Priority : Chronological(buckets[p]))
              => /\ Chronological(batch')
                 /\ \A x \in Range(batch'), y \in Queued' : x.observedAt <= y.observedAt
<1>1. CASE Enqueue
  <2>1. PICK p \in Priority, t \in ObservedAt, s \in SizeBytes : enqueueGatewayObservation(p, t, s)
    BY <1>1, Zenon DEF Enqueue
  <2>2. /\ QInv' /\ Buffer!enqueueGatewayObservation(p, t, s)
        /\ \A x \in Queued \ Queued', y \in Queued' : x.priority <= y.priority
    BY <2>1, QueueEnqueues, Zenon
  <2>3. Buffer!Next
    BY <2>2, SameOperators, Zenon DEF Buffer!Next
  <2>4. batch' = <<>>
    BY <2>1, Zenon DEF enqueueGatewayObservation
  <2>. QED BY <2>2, <2>3, <2>4, Zenon
<1>2. CASE drainPendingGatewayObservationBatch(BatchSize)
  <2>0. BatchSize \in Nat
    BY LimitsAssumption
  <2>1. /\ QInv' /\ Buffer!drainPendingGatewayObservationBatch(BatchSize)
        /\ (\A p \in Priority : Chronological(buckets[p]))
              => /\ Chronological(batch')
                 /\ \A x \in Range(batch'), y \in Queued' : x.observedAt <= y.observedAt
    BY <1>2, <2>0, QueueDrains, Zenon
  <2>2. Buffer!Next
    BY <2>1, Zenon DEF Buffer!Next
  <2>3. arrivals' = arrivals /\ arrivals \in Nat
    BY <1>2, Zenon DEF drainPendingGatewayObservationBatch, QInv, Kept
  <2>4. ~(arrivals' > arrivals)
    BY <2>3
  <2>. QED BY <2>1, <2>2, <2>4, Zenon
<1>3. CASE \/ clearPendingGatewayObservationQueue
           \/ consumeDroppedGatewayObservationCount
           \/ registerDroppedGatewayObservationCount(1)
           \/ UNCHANGED vars
  <2>1. /\ QInv' /\ [Buffer!Next]_(Buffer!vars)
        /\ arrivals' = arrivals
        /\ batch' = <<>> \/ UNCHANGED vars
    BY <1>3, QueueRests, Zenon
  <2>2. arrivals \in Nat
    BY Zenon DEF QInv, Kept
  <2>3. ~(arrivals' > arrivals)
    BY <2>1, <2>2
  <2>. QED BY <2>1, <2>3, Zenon
<1>. QED BY <1>1, <1>2, <1>3, Zenon DEF Next

(***************************************************************************)
(* The buckets and loops do what the buffer promises: every call of the    *)
(* queue is the same call of the buffer, for all limits and batch sizes.   *)
(***************************************************************************)
THEOREM QueueImplementsBuffer == Spec => ImplementsBuffer
<1>1. Init => QInv /\ Buffer!Init
  BY QueueInit
<1>2. QInv /\ [Next]_vars => QInv' /\ [Buffer!Next]_(Buffer!vars)
  BY QueueSteps, Zenon
<1>. QED BY <1>1, <1>2, PTL DEF Spec, ImplementsBuffer, Buffer!Spec

(***************************************************************************)
(* Load is shed from the lowest priority, whatever the limits and however  *)
(* many observations one enqueue has to drop.                              *)
(***************************************************************************)
THEOREM LowestIsShedFirst == Spec => ShedsLowestPriorityFirst
<1>. DEFINE Sheds1 == dropCount' > dropCount /\ arrivals' > arrivals
                      => \A x \in Queued \ Queued', y \in Queued' : x.priority <= y.priority
<1>1. Init => QInv
  BY QueueInit
<1>2. QInv /\ [Next]_vars => QInv' /\ [Sheds1]_vars
  BY QueueSteps, Zenon
<1>. HIDE DEF Sheds1
<1>3. [][Sheds1]_vars => ShedsLowestPriorityFirst
  BY PTL DEF Sheds1, ShedsLowestPriorityFirst
<1>. QED BY <1>1, <1>2, <1>3, PTL DEF Spec

(***************************************************************************)
(* A drained batch is chronological, and nothing left behind is earlier,   *)
(* as long as the clock did not step back within a bucket.                 *)
(***************************************************************************)
THEOREM BatchesMergeInTime == Spec => BatchesAreChronological
<1>. DEFINE Merged == (batch' # <<>> /\ \A p \in Priority : Chronological(buckets[p]))
                      => /\ Chronological(batch')
                         /\ \A x \in Range(batch'), y \in Queued' : x.observedAt <= y.observedAt
<1>1. Init => QInv
  BY QueueInit
<1>2. QInv /\ [Next]_vars => QInv' /\ [Merged]_vars
  BY QueueSteps, Zenon
<1>. HIDE DEF Merged
<1>3. [][Merged]_vars => BatchesAreChronological
  BY PTL DEF Merged, BatchesAreChronological
<1>. QED BY <1>1, <1>2, <1>3, PTL DEF Spec

(***************************************************************************)
(* The two instances of the buffer are one specification.                  *)
(***************************************************************************)
LEMMA OneBuffer ==
    /\ Promise!Init <=> Buffer!Init
    /\ Promise!Next <=> Buffer!Next
    /\ Promise!vars = Buffer!vars /\ (Promise!vars)' = (Buffer!vars)'
<1>1. \A S : Promise!Bytes(S) = Buffer!Bytes(S)
  BY SameBytes, Zenon DEF Bytes
<1>2. \A S : Promise!Cardinality(S) = Buffer!Cardinality(S)
  BY SameOperators, Zenon
<1>3. \A x, y : Promise!DropsBefore(x, y) <=> Buffer!DropsBefore(x, y)
  BY DEF Promise!DropsBefore, Buffer!DropsBefore
<1>4. \A S, x : Promise!DroppedBefore(S, x) = Buffer!DroppedBefore(S, x)
  BY <1>3, Zenon DEF Promise!DroppedBefore, Buffer!DroppedBefore
<1>5. \A S, n, G : Promise!FitsWithout(S, n, G) <=> Buffer!FitsWithout(S, n, G)
  BY <1>1, <1>2, Zenon DEF Promise!FitsWithout, Buffer!FitsWithout
<1>6. \A S, n : Promise!Kept(S, n) = Buffer!Kept(S, n)
  BY <1>4, <1>5, Zenon DEF Promise!Kept, Buffer!Kept
<1>7. \A S, x : Promise!LeavesAt(S, x) = Buffer!LeavesAt(S, x)
  <2>1. \A S : Promise!Max(S) = Buffer!Max(S)
    BY Zenon DEF Promise!Max, Buffer!Max
  <2>. QED BY <2>1, Zenon DEF Promise!LeavesAt, Buffer!LeavesAt
<1>8. \A S, x, y : Promise!DrainsBefore(S, x, y) <=> Buffer!DrainsBefore(S, x, y)
  BY <1>3, <1>7, Zenon DEF Promise!DrainsBefore, Buffer!DrainsBefore
<1>9. \A S, n : Promise!Batch(S, n) = Buffer!Batch(S, n)
  BY <1>2, <1>8, Zenon DEF Promise!Batch, Buffer!Batch
<1>10. Promise!Init <=> Buffer!Init
  BY Zenon DEF Promise!Init, Buffer!Init
<1>11. Promise!vars = Buffer!vars /\ (Promise!vars)' = (Buffer!vars)'
  BY Zenon DEF Promise!vars, Buffer!vars
<1>12. ASSUME NEW p, NEW t, NEW s
       PROVE  Promise!enqueueGatewayObservation(p, t, s) <=> Buffer!enqueueGatewayObservation(p, t, s)
  <2>. DEFINE full  == Queued \cup {[arrival |-> arrivals, priority |-> p, observedAt |-> t, sizeBytes |-> s]}
              kept  == Buffer!Kept(full, queueBytes + s)
  <2>1. Promise!Kept(full, queueBytes + s) = kept
    BY <1>6, Zenon
  <2>2. Promise!Cardinality(full \ kept) = Buffer!Cardinality(full \ kept)
        /\ Promise!Bytes(full \ kept) = Buffer!Bytes(full \ kept)
    BY <1>1, <1>2, Zenon
  <2>. QED BY <2>1, <2>2 DEF Promise!enqueueGatewayObservation, Buffer!enqueueGatewayObservation
<1>13. \A n : Promise!drainPendingGatewayObservationBatch(n) <=> Buffer!drainPendingGatewayObservationBatch(n)
  BY <1>1, <1>9, Zenon DEF Promise!drainPendingGatewayObservationBatch, Buffer!drainPendingGatewayObservationBatch
<1>14. Promise!clearPendingGatewayObservationQueue <=> Buffer!clearPendingGatewayObservationQueue
  BY Zenon DEF Promise!clearPendingGatewayObservationQueue, Buffer!clearPendingGatewayObservationQueue
<1>15. Promise!consumeDroppedGatewayObservationCount <=> Buffer!consumeDroppedGatewayObservationCount
  BY Zenon DEF Promise!consumeDroppedGatewayObservationCount, Buffer!consumeDroppedGatewayObservationCount
<1>16. Promise!registerDroppedGatewayObservationCount(1) <=> Buffer!registerDroppedGatewayObservationCount(1)
  BY Zenon DEF Promise!registerDroppedGatewayObservationCount, Buffer!registerDroppedGatewayObservationCount
<1>17. Promise!Next <=> Buffer!Next
  BY <1>12, <1>13, <1>14, <1>15, <1>16, SameOperators, Zenon DEF Promise!Next, Buffer!Next
<1>. QED BY <1>10, <1>11, <1>17

(***************************************************************************)
(* So what BufferInvariant says of the buffer holds of the buckets: both   *)
(* limits, after every call and for observations of every size, and a byte *)
(* counter that is exactly the bytes queued.                               *)
(***************************************************************************)
THEOREM QueueStaysWithinLimits == Spec => [](WithinLimits /\ queueBytes = Bytes(Queued))
<1>1. Init => QInv /\ Promise!Init
  BY QueueInit, OneBuffer, Zenon
<1>2. QInv /\ [Next]_vars => QInv' /\ [Promise!Next]_(Promise!vars)
  BY QueueSteps, OneBuffer, Zenon
<1>3. Spec => Promise!Spec
  BY <1>1, <1>2, PTL DEF Spec, Promise!Spec
<1>4. Promise!Spec => [](Promise!TypeOK /\ Promise!CounterIsExact /\ Promise!WithinLimits)
  BY Promise!BufferInvariant, LimitsAssumption, ObservationAssumption
<1>5. Promise!WithinLimits /\ Promise!CounterIsExact => WithinLimits /\ queueBytes = Bytes(Queued)
  BY SameOperators, SameBytes, Zenon DEF Promise!WithinLimits, Promise!CounterIsExact, WithinLimits, Buffer!WithinLimits
<1>. QED BY <1>3, <1>4, <1>5, PTL
=============================================================================
