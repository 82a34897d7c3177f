------------------------- MODULE SignalQueueProofs -------------------------
(***************************************************************************)
(* What the proofs about several modules rest on: induction, parts of a    *)
(* sequence as sets of its places, and what the operations on the queue of *)
(* call signals do to the signals that wait: which stay, which are taken,  *)
(* which has to make room, in which order.                                 *)
(***************************************************************************)
EXTENDS SignalQueue, FiniteSetTheorems, WellFoundedInduction, TLAPS

\* The library's rules of induction take an operator as a parameter, which none of the
\* provers can give a value; a set is a parameter like any other.
LEMMA SetInduction ==
  ASSUME NEW T, 0 \in T, \A n \in Nat : n \in T => n + 1 \in T
  PROVE  Nat \subseteq T
  <1> DEFINE Less == {ss \in Nat \X Nat : ss[1] < ss[2]}
             Bad == Nat \ T
  <1>1. IsWellFoundedOn(Less, Nat)
    BY NatLessThanWellFounded, Zenon DEF OpToRel
  <1>2. ASSUME Bad # {} PROVE FALSE
    <2>1. Bad \subseteq Nat
      OBVIOUS
    <2> HIDE DEF Less, Bad
    <2>2. PICK m \in Bad : \A k \in Bad : ~ (<<k, m>> \in Less)
      BY <1>1, <1>2, <2>1, WFMin
    <2> USE DEF Bad
    <2>3. m \in Nat /\ m # 0 /\ m - 1 \in Nat /\ m - 1 + 1 = m
      OBVIOUS
    <2>4. m - 1 \in Bad
      BY <2>3
    <2>5. <<m - 1, m>> \in Less
      BY <2>3 DEF Less
    <2>6. QED
      BY <2>2, <2>4, <2>5
  <1>3. QED
    BY <1>2

\* What a function makes of a value, step by step, is a function of the step: a recursive
\* definition of this form has a value.
StepFunctions(S, n) == [S \X (1 .. n) -> S]

Courses(S, n, start, F) ==
  {g \in [0 .. n -> S] : g[0] = start /\ \A i \in 1 .. n : g[i] = F[<<g[i - 1], i>>]}

LEMMA StepsExist ==
  ASSUME NEW S, NEW start \in S, NEW n \in Nat, NEW F \in StepFunctions(S, n)
  PROVE  \E g : g \in Courses(S, n, start, F)
  <1> DEFINE Upto(m, g) == g \in [0 .. m -> S] /\ g[0] = start
                           /\ \A i \in 1 .. m : g[i] = F[<<g[i - 1], i>>]
             Done == {m \in Nat : m <= n => \E g \in [0 .. m -> S] : Upto(m, g)}
  <1>1. 0 \in Done
    <2>1. Upto(0, [i \in 0 .. 0 |-> start])
      OBVIOUS
    <2>2. QED
      BY <2>1
  <1>2. ASSUME NEW m \in Nat, m \in Done, m + 1 <= n
        PROVE  \E g \in [0 .. m + 1 -> S] : Upto(m + 1, g)
    <2>1. PICK g \in [0 .. m -> S] : Upto(m, g)
      BY <1>2
    <2> DEFINE last == F[<<g[m], m + 1>>]
               h == [i \in 0 .. m + 1 |-> IF i = m + 1 THEN last ELSE g[i]]
    <2>2. g[m] \in S /\ m + 1 \in 1 .. n
      BY <1>2, <2>1
    <2>3. last \in S
      BY <2>2 DEF StepFunctions
    <2>4. h \in [0 .. m + 1 -> S]
      BY <2>1, <2>3
    <2>5. h[0] = start
      BY <2>1
    <2>6. \A i \in 1 .. m + 1 : h[i] = F[<<h[i - 1], i>>]
      <3> TAKE i \in 1 .. m + 1
      <3>1. CASE i = m + 1
        <4>1. h[i] = last /\ h[i - 1] = g[m]
          BY <3>1
        <4>2. QED
          BY <3>1, <4>1
      <3>2. CASE i # m + 1
        <4>1. i \in 1 .. m /\ h[i] = g[i] /\ h[i - 1] = g[i - 1]
          BY <3>2
        <4>2. QED
          BY <2>1, <4>1
      <3>3. QED
        BY <3>1, <3>2
    <2>7. QED
      BY <2>4, <2>5, <2>6
  <1>3. \A m \in Nat : m \in Done => m + 1 \in Done
    <2> HIDE DEF Upto
    <2>1. QED
      BY <1>2
  <1> HIDE DEF Done
  <1>4. n \in Done
    BY <1>1, <1>3, SetInduction
  <1>5. PICK g : Upto(n, g)
    <2> HIDE DEF Upto
    <2>1. n <= n
      OBVIOUS
    <2>2. QED
      BY <1>4, <2>1 DEF Done
  <1>6. g \in Courses(S, n, start, F)
    BY <1>5 DEF Courses
  <1>7. QED
    BY <1>6

\* The k-th of some places is the one with k of them up to it: what stands at the places
\* is taken in the order of the sequence, each once.
LEMMA AtInOrder ==
  ASSUME NEW S, NEW queue \in Seq(S), NEW places \in SUBSET DOMAIN queue
  PROVE  /\ Cardinality(places) \in Nat
         /\ Cardinality(places) <= Len(queue)
         /\ \E place \in [1 .. Cardinality(places) -> places] :
              /\ At(queue, places) = [k \in 1 .. Cardinality(places) |-> queue[place[k]]]
              /\ \A i \in places : \E k \in 1 .. Cardinality(places) : place[k] = i
              /\ \A k, l \in 1 .. Cardinality(places) : k < l => place[k] < place[l]
  <1> DEFINE n == Cardinality(places)
             UpTo(i) == {j \in places : j <= i}
             rank == [i \in places |-> Cardinality(UpTo(i))]
             place == [k \in 1 .. n |-> CHOOSE i \in places : Cardinality(UpTo(i)) = k]
  <1>1. /\ DOMAIN queue = 1 .. Len(queue)
        /\ Len(queue) \in Nat
        /\ places \subseteq Nat
    OBVIOUS
  <1>2. /\ IsFiniteSet(places)
        /\ n \in Nat
        /\ n <= Len(queue)
    <2>1. /\ IsFiniteSet(1 .. Len(queue))
          /\ Cardinality(1 .. Len(queue)) = Len(queue)
      BY <1>1, FS_Interval
    <2>2. places \in SUBSET (1 .. Len(queue))
      BY <1>1
    <2>3. QED
      BY <2>1, <2>2, FS_Subset, FS_CardinalityType
  <1>3. \A i \in places : /\ IsFiniteSet(UpTo(i))
                          /\ Cardinality(UpTo(i)) \in 1 .. n
    <2> TAKE i \in places
    <2>1. UpTo(i) \in SUBSET places /\ i \in UpTo(i)
      BY <1>1
    <2> HIDE DEF UpTo
    <2>2. /\ IsFiniteSet(UpTo(i))
          /\ Cardinality(UpTo(i)) <= n
      BY <1>2, <2>1, FS_Subset
    <2>3. Cardinality(UpTo(i)) \in Nat /\ Cardinality(UpTo(i)) # 0
      BY <2>1, <2>2, FS_CardinalityType, FS_EmptySet
    <2>4. QED
      BY <1>2, <2>2, <2>3
  <1>4. \A i, j \in places : i < j => Cardinality(UpTo(i)) < Cardinality(UpTo(j))
    <2> SUFFICES ASSUME NEW i \in places, NEW j \in places, i < j
                 PROVE  Cardinality(UpTo(i)) < Cardinality(UpTo(j))
      OBVIOUS
    <2>1. UpTo(i) \in SUBSET UpTo(j) /\ j \in UpTo(j) /\ j \notin UpTo(i)
      BY <1>1
    <2> HIDE DEF UpTo
    <2>2. /\ Cardinality(UpTo(i)) \in Nat
          /\ Cardinality(UpTo(j)) \in Nat
          /\ IsFiniteSet(UpTo(j))
      <3> HIDE DEF n
      <3>1. QED
        BY <1>2, <1>3
    <2>3. /\ Cardinality(UpTo(i)) <= Cardinality(UpTo(j))
          /\ Cardinality(UpTo(j)) = Cardinality(UpTo(i)) => UpTo(j) = UpTo(i)
      BY <2>1, <2>2, FS_Subset
    <2>4. QED
      BY <2>1, <2>2, <2>3
  <1> HIDE DEF UpTo
  <1>5. rank \in Injection(places, 1 .. n)
    <2>1. rank \in [places -> 1 .. n]
      BY <1>3
    <2>2. \A i, j \in places : rank[i] = rank[j] => i = j
      <3> SUFFICES ASSUME NEW i \in places, NEW j \in places, i # j
                   PROVE  rank[i] # rank[j]
        OBVIOUS
      <3>1. /\ rank[i] = Cardinality(UpTo(i))
            /\ rank[j] = Cardinality(UpTo(j))
            /\ rank[i] \in Nat
            /\ rank[j] \in Nat
        BY <1>2, <1>3
      <3>2. i < j \/ j < i
        BY <1>1
      <3>3. QED
        BY <1>4, <3>1, <3>2
    <2>3. QED
      BY <2>1, <2>2 DEF Injection, IsInjective
  <1>6. rank \in Surjection(places, 1 .. n)
    BY <1>2, <1>5, FS_Interval, FS_Injection
  <1>7. \A k \in 1 .. n : place[k] \in places /\ Cardinality(UpTo(place[k])) = k
    <2> TAKE k \in 1 .. n
    <2>1. \E i \in places : Cardinality(UpTo(i)) = k
      BY <1>6 DEF Surjection
    <2>2. QED
      BY <2>1
  <1>8. At(queue, places) = [k \in 1 .. n |-> queue[place[k]]]
    BY DEF At, UpTo
  <1>9. \A i \in places : \E k \in 1 .. n : place[k] = i
    <2> TAKE i \in places
    <2>1. Cardinality(UpTo(i)) \in 1 .. n
      BY <1>3
    <2>2. /\ place[Cardinality(UpTo(i))] \in places
          /\ Cardinality(UpTo(place[Cardinality(UpTo(i))])) = Cardinality(UpTo(i))
      BY <1>7, <2>1
    <2>3. place[Cardinality(UpTo(i))] = i
      <3> HIDE DEF place
      <3>1. QED
        BY <1>1, <1>2, <1>4, <2>1, <2>2
    <2>4. QED
      BY <2>1, <2>3
  <1>10. \A k, l \in 1 .. n : k < l => place[k] < place[l]
    <2> SUFFICES ASSUME NEW k \in 1 .. n, NEW l \in 1 .. n, k < l
                 PROVE  place[k] < place[l]
      OBVIOUS
    <2> HIDE DEF place
    <2>1. QED
      BY <1>1, <1>2, <1>4, <1>7
  <1>11. place \in [1 .. n -> places]
    BY <1>7
  <1> HIDE DEF n, place
  <1>12. QED
    BY <1>2, <1>8, <1>9, <1>10, <1>11 DEF n

-----------------------------------------------------------------------------
\* The signals at some places, as a set and as a sequence.
LEMMA AtPlaces ==
  ASSUME NEW S, NEW queue \in Seq(S), NEW places \in SUBSET DOMAIN queue
  PROVE  /\ At(queue, places) \in Seq(S)
         /\ Len(At(queue, places)) = Cardinality(places)
         /\ Len(At(queue, places)) <= Len(queue)
         /\ ToSet(At(queue, places)) = {queue[i] : i \in places}
  <1>1. PICK place \in [1 .. Cardinality(places) -> places] :
          /\ At(queue, places) = [k \in 1 .. Cardinality(places) |-> queue[place[k]]]
          /\ \A i \in places : \E k \in 1 .. Cardinality(places) : place[k] = i
    BY AtInOrder
  <1>2. /\ Cardinality(places) \in Nat
        /\ Cardinality(places) <= Len(queue)
    BY AtInOrder
  <1>3. \A k \in 1 .. Cardinality(places) : place[k] \in places /\ queue[place[k]] \in S
    OBVIOUS
  <1>4. At(queue, places) \in Seq(S) /\ Len(At(queue, places)) = Cardinality(places)
    BY <1>1, <1>2, <1>3
  <1>5. ToSet(At(queue, places)) = {queue[i] : i \in places}
    <2>1. ToSet(At(queue, places)) = {queue[place[k]] : k \in 1 .. Cardinality(places)}
      BY <1>1 DEF ToSet
    <2>2. QED
      BY <1>1, <1>3, <2>1
  <1>6. QED
    BY <1>2, <1>4, <1>5

\* A signal that is sent waits; only the oldest of all may have to make room for it.
LEMMA QueuedSignals ==
  ASSUME QueueAssumption, NEW S, NEW queue \in Seq(S), NEW signal \in S, Len(queue) <= MaxQueue
  PROVE  /\ Queued(queue, signal) \in Seq(S)
         /\ Len(Queued(queue, signal)) <= MaxQueue
         /\ signal \in ToSet(Queued(queue, signal))
         /\ ToSet(Queued(queue, signal)) \subseteq ToSet(queue) \union {signal}
         /\ \A s \in ToSet(queue) \ ToSet(Queued(queue, signal)) :
              Len(queue) >= MaxQueue /\ s = Head(queue)
  <1> DEFINE kept == IF Len(queue) >= MaxQueue THEN Tail(queue) ELSE queue
  <1>1. /\ kept \in Seq(S)
        /\ Len(kept) < MaxQueue
        /\ \A i \in 1 .. Len(kept) : kept[i] \in ToSet(queue)
        /\ \A i \in 1 .. Len(queue) :
             \/ \E k \in 1 .. Len(kept) : kept[k] = queue[i]
             \/ Len(queue) >= MaxQueue /\ queue[i] = Head(queue)
    <2>1. CASE Len(queue) >= MaxQueue
      <3>1. queue # <<>> /\ Len(queue) \in Nat \ {0}
        BY <2>1 DEF QueueAssumption
      <3>2. /\ kept = Tail(queue)
            /\ kept \in Seq(S)
            /\ Len(kept) = Len(queue) - 1
            /\ \A k \in 1 .. Len(kept) : kept[k] = queue[k + 1]
            /\ Head(queue) = queue[1]
        BY <2>1, <3>1
      <3>3. \A i \in 1 .. Len(queue) : i = 1 \/ (i - 1 \in 1 .. Len(kept) /\ kept[i - 1] = queue[i])
        BY <3>1, <3>2
      <3>4. \A k \in 1 .. Len(kept) : kept[k] \in ToSet(queue)
        BY <3>1, <3>2 DEF ToSet
      <3> HIDE DEF kept
      <3>5. QED
        BY <2>1, <3>1, <3>2, <3>3, <3>4 DEF QueueAssumption
    <2>2. CASE ~ Len(queue) >= MaxQueue
      BY <2>2 DEF QueueAssumption, ToSet
    <2>3. QED
      BY <2>1, <2>2
  <1>2. Queued(queue, signal) = Append(kept, signal)
    BY DEF Queued
  <1> HIDE DEF kept
  <1>3. /\ Queued(queue, signal) \in Seq(S)
        /\ Len(Queued(queue, signal)) = Len(kept) + 1
        /\ DOMAIN Queued(queue, signal) = 1 .. Len(kept) + 1
        /\ Queued(queue, signal)[Len(kept) + 1] = signal
        /\ \A k \in 1 .. Len(kept) : Queued(queue, signal)[k] = kept[k]
    BY <1>1, <1>2
  <1>4. Len(kept) \in Nat
    BY <1>1
  <1>5. ToSet(Queued(queue, signal)) = {kept[k] : k \in 1 .. Len(kept)} \union {signal}
    BY <1>3, <1>4 DEF ToSet
  <1>6. ToSet(Queued(queue, signal)) \subseteq ToSet(queue) \union {signal}
    BY <1>1, <1>5
  <1>7. \A s \in ToSet(queue) \ ToSet(Queued(queue, signal)) :
          Len(queue) >= MaxQueue /\ s = Head(queue)
    <2> TAKE s \in ToSet(queue) \ ToSet(Queued(queue, signal))
    <2>1. PICK i \in 1 .. Len(queue) : s = queue[i]
      BY DEF ToSet
    <2>2. QED
      BY <1>1, <1>5, <2>1
  <1>8. signal \in ToSet(Queued(queue, signal))
    BY <1>5
  <1>9. Len(Queued(queue, signal)) <= MaxQueue
    BY <1>1, <1>3, <1>4 DEF QueueAssumption
  <1>10. QED
    BY <1>3, <1>6, <1>7, <1>8, <1>9

\* A fetch takes signals for its device only, and each signal is taken or stays.
LEMMA FetchedSignals ==
  ASSUME NEW S, NEW queue \in Seq(S), NEW device, NEW call, NEW limit
  PROVE  /\ Fetched(queue, device, call, limit) \in Seq(S)
         /\ Retained(queue, device, call, limit) \in Seq(S)
         /\ Len(Retained(queue, device, call, limit)) <= Len(queue)
         /\ ToSet(queue) = ToSet(Fetched(queue, device, call, limit))
                             \union ToSet(Retained(queue, device, call, limit))
         /\ \A s \in ToSet(Fetched(queue, device, call, limit)) :
              s.to = device /\ call \in {AnyCall, s.call}
  <1> DEFINE taken == Taken(queue, device, call, limit)
  <1>1. /\ taken \in SUBSET DOMAIN queue
        /\ (DOMAIN queue \ taken) \in SUBSET DOMAIN queue
        /\ \A i \in taken : queue[i].to = device /\ call \in {AnyCall, queue[i].call}
    BY DEF Taken, Wanted
  <1>2. /\ Fetched(queue, device, call, limit) = At(queue, taken)
        /\ Retained(queue, device, call, limit) = At(queue, DOMAIN queue \ taken)
    BY DEF Fetched, Retained
  <1> HIDE DEF taken
  <1>3. /\ At(queue, taken) \in Seq(S)
        /\ ToSet(At(queue, taken)) = {queue[i] : i \in taken}
    BY <1>1, AtPlaces
  <1>4. /\ At(queue, DOMAIN queue \ taken) \in Seq(S)
        /\ Len(At(queue, DOMAIN queue \ taken)) <= Len(queue)
        /\ ToSet(At(queue, DOMAIN queue \ taken)) = {queue[i] : i \in DOMAIN queue \ taken}
    BY <1>1, AtPlaces
  <1>5. ToSet(queue) = {queue[i] : i \in taken} \union {queue[i] : i \in DOMAIN queue \ taken}
    BY <1>1 DEF ToSet
  <1>6. ToSet(queue) = ToSet(Fetched(queue, device, call, limit))
                         \union ToSet(Retained(queue, device, call, limit))
    BY <1>2, <1>3, <1>4, <1>5
  <1>7. \A s \in ToSet(Fetched(queue, device, call, limit)) :
          s.to = device /\ call \in {AnyCall, s.call}
    BY <1>1, <1>2, <1>3
  <1>8. QED
    BY <1>2, <1>3, <1>4, <1>6, <1>7

\* What a fetch takes is older than what it would have taken as well without its limit.
LEMMA TakenFirst ==
  ASSUME NEW S, NEW queue \in Seq(S), NEW device, NEW call, NEW limit \in Nat,
         NEW i \in Taken(queue, device, call, limit),
         NEW j \in Wanted(queue, device, call) \ Taken(queue, device, call, limit)
  PROVE  i < j
  <1> DEFINE wanted == Wanted(queue, device, call)
             UpTo(k) == {w \in wanted : w <= k}
  <1>1. /\ wanted \in SUBSET (1 .. Len(queue)) /\ Len(queue) \in Nat
        /\ i \in wanted /\ j \in wanted
        /\ Cardinality(UpTo(i)) <= limit /\ ~(Cardinality(UpTo(j)) <= limit)
    BY DEF Wanted, Taken
  <1>2. IsFiniteSet(1 .. Len(queue))
    BY <1>1, FS_Interval
  <1>3. UpTo(i) \in SUBSET (1 .. Len(queue)) /\ UpTo(j) \in SUBSET (1 .. Len(queue))
    BY <1>1
  <1>4. j <= i => UpTo(j) \in SUBSET UpTo(i)
    BY <1>1
  <1> HIDE DEF UpTo, wanted
  <1>5. IsFiniteSet(UpTo(i)) /\ IsFiniteSet(UpTo(j))
    BY <1>2, <1>3, FS_Subset
  <1>6. Cardinality(UpTo(i)) \in Nat /\ Cardinality(UpTo(j)) \in Nat
    BY <1>5, FS_CardinalityType
  <1>7. j <= i => Cardinality(UpTo(j)) <= Cardinality(UpTo(i))
    BY <1>4, <1>5, FS_Subset
  <1>8. i \in Nat /\ j \in Nat
    BY <1>1
  <1>9. QED
    BY <1>1, <1>6, <1>7, <1>8
=============================================================================
