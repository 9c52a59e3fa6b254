----------------------- MODULE GovernedSchedulerProofs -----------------------
(***************************************************************************)
(* Proofs about GovernedScheduler for every finite set of items, every     *)
(* capacity and concurrency limit, and any number of closers.              *)
(***************************************************************************)
EXTENDS GovernedScheduler, FiniteSetTheorems, WellFoundedInduction, TLAPS

-----------------------------------------------------------------------------
(* Queues without repetitions.                                             *)

Distinct(q) == \A m, n \in 1..Len(q) : q[m] = q[n] => m = n

LEMMA IntervalCardinality ==
  ASSUME NEW n \in Nat
  PROVE  IsFiniteSet(1..n) /\ Cardinality(1..n) = n
<1>1. IsFiniteSet(1..n) /\ Cardinality(1..n) = IF 1 > n THEN 0 ELSE n - 1 + 1
  BY FS_Interval
<1> QED
  BY <1>1

LEMMA DistinctCardinality ==
  ASSUME NEW q \in Seq(Items), Distinct(q)
  PROVE  IsFiniteSet(Queued(q)) /\ Cardinality(Queued(q)) = Len(q)
<1> DEFINE f == [n \in 1..Len(q) |-> q[n]]
<1>1. f \in Bijection(1..Len(q), Queued(q))
  BY DEF Bijection, Injection, Surjection, IsInjective, Queued, Distinct
<1>2. IsFiniteSet(1..Len(q)) /\ Cardinality(1..Len(q)) = Len(q)
  BY IntervalCardinality
<1>3. ExistsBijection(1..Len(q), Queued(q))
  BY <1>1 DEF ExistsBijection
<1> QED
  BY <1>2, <1>3, FS_Bijection

LEMMA LeastNatural ==
  ASSUME NEW T, T \subseteq Nat, T # {}
  PROVE  \E m \in T : \A n \in T : m <= n
<1>1. IsWellFoundedOn(OpToRel(<, Nat), Nat)
  BY NatLessThanWellFounded
<1>2. PICK x \in T : \A y \in T : ~(<<y, x>> \in OpToRel(<, Nat))
  BY <1>1, WFMin
<1>3. \A y \in T : ~(y < x)
  BY <1>2 DEF OpToRel
<1> QED
  BY <1>3

LEMMA FiniteItems == \A S \in SUBSET Items : IsFiniteSet(S) /\ Cardinality(S) \in Nat
  BY ConstantsAssumption, FS_Subset, FS_CardinalityType

-----------------------------------------------------------------------------
(* Withdrawing items keeps the others, in their order.                     *)

\* The positions of q that stay, and the position that becomes the r-th.
Kept(items, q) == {n \in 1..Len(q) : q[n] \notin items}

RankIn(kept, n) == Cardinality({m \in kept : m <= n})

Place(kept, r) == CHOOSE n \in kept : RankIn(kept, n) = r

LEMMA RankIsBijective ==
  ASSUME NEW L \in Nat, NEW kept \in SUBSET (1..L)
  PROVE  /\ IsFiniteSet(kept) /\ Cardinality(kept) \in 0..L
         /\ \A n \in kept : RankIn(kept, n) \in 1..Cardinality(kept)
         /\ \A m, n \in kept : m < n => RankIn(kept, m) < RankIn(kept, n)
         /\ \A m, n \in kept : RankIn(kept, m) = RankIn(kept, n) => m = n
         /\ \A r \in 1..Cardinality(kept) : \E n \in kept : RankIn(kept, n) = r
<1> DEFINE Upto(n) == {m \in kept : m <= n}
<1>1. /\ IsFiniteSet(kept) /\ Cardinality(kept) \in 0..L
      /\ \A T \in SUBSET kept : IsFiniteSet(T) /\ Cardinality(T) \in Nat
  <2>1. IsFiniteSet(1..L) /\ Cardinality(1..L) = L
    BY IntervalCardinality
  <2>2. IsFiniteSet(kept) /\ Cardinality(kept) <= L
    BY <2>1, FS_Subset
  <2>3. \A T \in SUBSET kept : IsFiniteSet(T) /\ Cardinality(T) \in Nat
    BY <2>2, FS_Subset, FS_CardinalityType
  <2> QED
    BY <2>2, <2>3
<1>2. ASSUME NEW n \in kept
      PROVE  RankIn(kept, n) \in 1..Cardinality(kept)
  <2>1. Upto(n) \in SUBSET kept /\ Upto(n) # {}
    OBVIOUS
  <2>2. Cardinality(Upto(n)) # 0 /\ Cardinality(Upto(n)) <= Cardinality(kept)
    BY <1>1, <2>1, FS_Subset, FS_EmptySet
  <2> QED
    BY <1>1, <2>1, <2>2 DEF RankIn
<1>3. ASSUME NEW m \in kept, NEW n \in kept, m < n
      PROVE  RankIn(kept, m) < RankIn(kept, n)
  <2>1. Upto(m) \in SUBSET Upto(n) /\ Upto(m) # Upto(n)
    <3>1. n \in Nat /\ m \in Nat /\ n <= n /\ ~(n <= m)
      BY <1>3
    <3>2. n \in Upto(n) /\ n \notin Upto(m)
      BY <3>1
    <3>3. \A k \in kept : k <= m => k <= n
      BY <1>3
    <3> QED
      BY <3>2, <3>3
  <2>2. IsFiniteSet(Upto(n)) /\ Cardinality(Upto(n)) \in Nat /\ Cardinality(Upto(m)) \in Nat
    BY <1>1
  <2>3. Cardinality(Upto(m)) <= Cardinality(Upto(n)) /\ Cardinality(Upto(m)) # Cardinality(Upto(n))
    BY <2>1, <2>2, FS_Subset
  <2> QED
    BY <2>2, <2>3 DEF RankIn
<1>4. \A m, n \in kept : RankIn(kept, m) = RankIn(kept, n) => m = n
  <2> SUFFICES ASSUME NEW m \in kept, NEW n \in kept, RankIn(kept, m) = RankIn(kept, n)
               PROVE  m = n
    OBVIOUS
  <2>1. ~(m < n) /\ ~(n < m)
    BY <1>2, <1>3
  <2> QED
    BY <2>1
<1>5. ASSUME NEW r \in 1..Cardinality(kept)
      PROVE  \E n \in kept : RankIn(kept, n) = r
  <2> DEFINE f == [n \in kept |-> RankIn(kept, n)]
             ranks == 1..Cardinality(kept)
  <2>1. f \in Injection(kept, ranks)
    BY <1>2, <1>4 DEF Injection, IsInjective
  <2>2. IsFiniteSet(ranks) /\ Cardinality(ranks) = Cardinality(kept)
    BY <1>1, IntervalCardinality
  <2>3. f \in Surjection(kept, ranks)
    BY <2>1, <2>2, FS_Injection
  <2> QED
    BY <2>3 DEF Surjection
<1> QED
  BY <1>1, <1>2, <1>3, <1>4, <1>5

LEMMA PlaceFacts ==
  ASSUME NEW L \in Nat, NEW kept \in SUBSET (1..L)
  PROVE  /\ \A r \in 1..Cardinality(kept) : Place(kept, r) \in kept
         /\ \A r, s \in 1..Cardinality(kept) : r < s <=> Place(kept, r) < Place(kept, s)
         /\ \A n \in kept : \E r \in 1..Cardinality(kept) : Place(kept, r) = n
<1>1. \A r \in 1..Cardinality(kept) : Place(kept, r) \in kept /\ RankIn(kept, Place(kept, r)) = r
  BY RankIsBijective DEF Place
<1>2. \A m, n \in kept : m < n => RankIn(kept, m) < RankIn(kept, n)
  BY RankIsBijective
<1>3. \A n \in kept : RankIn(kept, n) \in 1..Cardinality(kept)
  BY RankIsBijective
<1>4. \A m, n \in kept : RankIn(kept, m) = RankIn(kept, n) => m = n
  BY RankIsBijective
<1>5. Cardinality(kept) \in Nat
  BY RankIsBijective
<1>6. ASSUME NEW r \in 1..Cardinality(kept), NEW s \in 1..Cardinality(kept)
      PROVE  r < s <=> Place(kept, r) < Place(kept, s)
  <2>1. Place(kept, r) \in Nat /\ Place(kept, s) \in Nat
    <3>1. Place(kept, r) \in 1..L /\ Place(kept, s) \in 1..L
      BY <1>1
    <3> QED
      BY <3>1
  <2>2. \/ Place(kept, r) < Place(kept, s) \/ Place(kept, s) < Place(kept, r)
        \/ Place(kept, r) = Place(kept, s)
    BY <2>1
  <2>3. Place(kept, s) < Place(kept, r) => s < r
    BY <1>1, <1>2
  <2>4. Place(kept, r) < Place(kept, s) => r < s
    BY <1>1, <1>2
  <2> QED
    BY <1>1, <1>5, <2>1, <2>2, <2>3, <2>4
<1> QED
  BY <1>1, <1>3, <1>4, <1>6

\* w keeps the order of those elements of q that it still has.
KeepsOrder(q, w) ==
  \A m, n \in 1..Len(q) :
    m < n /\ {q[m], q[n]} \subseteq Queued(w) =>
      \E x, y \in 1..Len(w) : x < y /\ w[x] = q[m] /\ w[y] = q[n]

LEMMA WithdrawFacts ==
  ASSUME NEW items, NEW q \in Seq(Items), Distinct(q)
  PROVE  /\ Withdraw(items, q) \in Seq(Items)
         /\ Len(Withdraw(items, q)) <= Len(q)
         /\ Distinct(Withdraw(items, q))
         /\ Queued(Withdraw(items, q)) = Queued(q) \ items
         /\ KeepsOrder(q, Withdraw(items, q))
<1> DEFINE kept == Kept(items, q)
           w == Withdraw(items, q)
<1>1. kept \in SUBSET (1..Len(q)) /\ Len(q) \in Nat
  BY DEF Kept
<1>2. Cardinality(kept) \in 0..Len(q)
  BY <1>1, RankIsBijective
<1>3. w = [r \in 1..Cardinality(kept) |-> q[Place(kept, r)]]
  BY DEF Withdraw, Kept, Place, RankIn
<1>4. /\ \A r \in 1..Cardinality(kept) : Place(kept, r) \in kept
      /\ \A r, s \in 1..Cardinality(kept) : r < s <=> Place(kept, r) < Place(kept, s)
      /\ \A n \in kept : \E r \in 1..Cardinality(kept) : Place(kept, r) = n
  BY <1>1, PlaceFacts
<1>5. \A n \in 1..Len(q) : n \in kept <=> q[n] \notin items
  BY DEF Kept
<1> HIDE DEF kept, w
<1>6. w \in Seq(Items) /\ Len(w) = Cardinality(kept)
  <2>1. \A n \in 1..Len(q) : q[n] \in Items
    OBVIOUS
  <2>2. \A r \in 1..Cardinality(kept) : q[Place(kept, r)] \in Items
    BY <1>1, <1>4, <2>1
  <2>3. w \in [1..Cardinality(kept) -> Items]
    BY <1>3, <2>2
  <2>4. Cardinality(kept) \in Nat
    BY <1>2
  <2> QED
    BY <2>3, <2>4
<1>7. Distinct(w)
  <2> SUFFICES ASSUME NEW r \in 1..Len(w), NEW s \in 1..Len(w), w[r] = w[s]
               PROVE  r = s
    BY DEF Distinct
  <2>1. Place(kept, r) = Place(kept, s)
    BY <1>1, <1>3, <1>4, <1>6 DEF Distinct
  <2>2. ~(r < s) /\ ~(s < r)
    BY <1>1, <1>4, <1>6, <2>1
  <2> QED
    BY <1>2, <1>6, <2>2
<1>8. Queued(w) = Queued(q) \ items
  <2>1. \A r \in 1..Len(w) : w[r] \in Queued(q) /\ w[r] \notin items
    BY <1>1, <1>3, <1>4, <1>5, <1>6 DEF Queued
  <2>2. \A n \in 1..Len(q) : q[n] \notin items => q[n] \in Queued(w)
    BY <1>3, <1>4, <1>5, <1>6 DEF Queued
  <2> QED
    BY <2>1, <2>2 DEF Queued
<1>9. KeepsOrder(q, w)
  <2> SUFFICES ASSUME NEW m \in 1..Len(q), NEW n \in 1..Len(q), m < n,
                      {q[m], q[n]} \subseteq Queued(w)
               PROVE  \E x, y \in 1..Len(w) : x < y /\ w[x] = q[m] /\ w[y] = q[n]
    BY DEF KeepsOrder
  <2>1. m \in kept /\ n \in kept
    BY <1>5, <1>8
  <2>2. PICK x \in 1..Len(w), y \in 1..Len(w) : Place(kept, x) = m /\ Place(kept, y) = n
    BY <1>4, <1>6, <2>1
  <2> QED
    BY <1>3, <1>4, <1>6, <2>2
<1> QED
  BY <1>2, <1>6, <1>7, <1>8, <1>9 DEF w

-----------------------------------------------------------------------------
(* What the pump starts.                                                   *)

Startable(q, active, m) ==
  /\ \A i \in 1..m : q[i] \notin Exclusive
  /\ m = 0 \/ Cardinality(active) + m <= MaxConcurrency

\* A longest startable prefix exists.
LEMMA LongestStart ==
  ASSUME NEW q \in Seq(Items), NEW active \in SUBSET Items
  PROVE  \E n \in 0..Len(q) :
           /\ Startable(q, active, n)
           /\ \A m \in 0..Len(q) : Startable(q, active, m) => m <= n
<1> DEFINE T == {m \in Nat : m = Len(q) + 1 \/ (m \in 0..Len(q) /\ ~Startable(q, active, m))}
<1>1. Startable(q, active, 0)
  BY DEF Startable
<1>2. PICK k \in T : \A m \in T : k <= m
  <2>1. Len(q) + 1 \in T
    OBVIOUS
  <2> QED
    BY <2>1, LeastNatural
<1>3. k \in 1..Len(q) + 1 /\ Startable(q, active, k - 1)
  BY <1>1, <1>2
<1>4. ASSUME NEW m \in 0..Len(q), Startable(q, active, m)
      PROVE  m <= k - 1
  <2>1. Cardinality(active) \in Nat /\ MaxConcurrency \in Nat
    BY FiniteItems, ConstantsAssumption
  <2>2. \A j \in 0..m : Startable(q, active, j)
    BY <1>4, <2>1 DEF Startable
  <2> QED
    BY <1>2, <1>3, <2>2
<1> QED
  BY <1>3, <1>4

\* The pump respects the barriers, the exclusive flag and the limit; it starts
\* an exclusive item alone, and stops only where one of these tells it to.
LEMMA StartCountFacts ==
  ASSUME NEW q \in Seq(Items), NEW active \in SUBSET Items,
         NEW exclusive \in BOOLEAN, NEW barriers \in Nat
  PROVE  LET n == StartCount(q, active, exclusive, barriers)
         IN  /\ n \in 0..Len(q)
             /\ n # 0 =>
                  /\ ~exclusive /\ barriers = 0
                  /\ \/ n = 1 /\ q[1] \in Exclusive /\ active = {}
                     \/ /\ \A i \in 1..n : q[i] \notin Exclusive
                        /\ Cardinality(active) + n <= MaxConcurrency
             /\ n < Len(q) /\ ~exclusive /\ barriers = 0 =>
                  \/ n = 0 /\ q[1] \in Exclusive /\ active # {}
                  \/ n = 1 /\ q[1] \in Exclusive
                  \/ q[1] \notin Exclusive /\ q[n + 1] \in Exclusive
                  \/ Cardinality(active) + n >= MaxConcurrency
<1> DEFINE n == StartCount(q, active, exclusive, barriers)
<1>0. Cardinality(active) \in Nat /\ MaxConcurrency \in Nat
  BY FiniteItems, ConstantsAssumption
<1>1. CASE exclusive \/ barriers > 0 \/ q = <<>>
  BY <1>1 DEF StartCount
<1>2. CASE ~exclusive /\ barriers = 0 /\ q # <<>> /\ Head(q) \in Exclusive
  <2>1. n = IF active = {} THEN 1 ELSE 0
    BY <1>2 DEF StartCount
  <2>2. Head(q) = q[1] /\ Len(q) >= 1
    BY <1>2
  <2> QED
    BY <1>2, <2>1, <2>2
<1>3. CASE ~exclusive /\ barriers = 0 /\ q # <<>> /\ Head(q) \notin Exclusive
  <2>1. n = CHOOSE k \in 0..Len(q) :
              /\ Startable(q, active, k)
              /\ \A m \in 0..Len(q) : Startable(q, active, m) => m <= k
    BY <1>3 DEF StartCount, Startable
  <2>2. /\ n \in 0..Len(q)
        /\ Startable(q, active, n)
        /\ \A m \in 0..Len(q) : Startable(q, active, m) => m <= n
    BY <2>1, LongestStart
  <2>3. q[1] \notin Exclusive
    BY <1>3
  <2> HIDE DEF n
  <2>4. ASSUME n < Len(q)
        PROVE  q[n + 1] \in Exclusive \/ Cardinality(active) + n >= MaxConcurrency
    <3>1. ~Startable(q, active, n + 1)
      BY <2>2, <2>4
    <3> QED
      BY <1>0, <2>2, <2>4, <3>1 DEF Startable
  <2>5. n # 0 => /\ \A i \in 1..n : q[i] \notin Exclusive
                 /\ Cardinality(active) + n <= MaxConcurrency
    BY <2>2 DEF Startable
  <2> QED
    BY <1>3, <2>2, <2>3, <2>4, <2>5 DEF n
<1> QED
  BY <1>1, <1>2, <1>3

-----------------------------------------------------------------------------
(* The bookkeeping, of the variables or of what a method is about to pump. *)

RunningIn(st) == {i \in Items : st[i] = "running"}

Consistent(q, active, exclusive, barriers, st) ==
  /\ q \in Seq(Items) /\ Distinct(q)
  /\ st \in [Items -> States]
  /\ \A i \in Items : st[i] = "queued" <=> i \in Queued(q)
  /\ active = {i \in Items : st[i] \in {"running", "cancelling"}}
  /\ barriers = Cardinality({i \in Items : st[i] = "cancelling"})
  /\ exclusive \in BOOLEAN /\ (exclusive <=> RunningIn(st) \cap Exclusive # {})
  /\ Cardinality(RunningIn(st)) <= MaxConcurrency
  /\ \A i \in RunningIn(st) : i \in Exclusive => RunningIn(st) = {i}

\* The items the pump starts.
StartedBy(q, active, exclusive, barriers) ==
  {q[i] : i \in 1..StartCount(q, active, exclusive, barriers)}

\* The pump took n items, those of the set started, from the head of q and
\* left the rest.
StartsPrefix(q, active, exclusive, st, n, started) ==
  /\ n \in 0..Len(q) /\ started = {q[i] : i \in 1..n}
  /\ started \in SUBSET Items /\ started \subseteq Queued(q)
  /\ IsFiniteSet(started) /\ Cardinality(started) = n
  /\ queue' \in Seq(Items) /\ Len(queue') = Len(q) - n
  /\ \A i \in 1..Len(queue') : queue'[i] = q[n + i]
  /\ Distinct(queue') /\ Queued(queue') = Queued(q) \ started
  /\ state' \in [Items -> States]
  /\ \A i \in Items : state'[i] = IF i \in started THEN "running" ELSE st[i]
  /\ activeItems' = active \cup started
  /\ exclusiveRunning' = (exclusive \/ started \cap Exclusive # {})

LEMMA PumpFacts ==
  ASSUME NEW q \in Seq(Items), Distinct(q), NEW active \in SUBSET Items,
         NEW exclusive \in BOOLEAN, NEW barriers \in Nat, NEW st \in [Items -> States],
         Pump(q, active, exclusive, barriers, st)
  PROVE  StartsPrefix(q, active, exclusive, st,
                      StartCount(q, active, exclusive, barriers),
                      StartedBy(q, active, exclusive, barriers))
<1> DEFINE n == StartCount(q, active, exclusive, barriers)
           started == StartedBy(q, active, exclusive, barriers)
<1>0. started = {q[i] : i \in 1..n}
  BY DEF StartedBy
<1>1. n \in 0..Len(q)
  BY StartCountFacts
<1>2. /\ queue' = SubSeq(q, n + 1, Len(q))
      /\ activeItems' = active \cup started
      /\ exclusiveRunning' = (exclusive \/ started \cap Exclusive # {})
      /\ state' = [i \in Items |-> IF i \in started THEN "running" ELSE st[i]]
  BY <1>0 DEF Pump
<1> HIDE DEF n, started
<1>3. /\ queue' \in Seq(Items) /\ Len(queue') = Len(q) - n
      /\ \A i \in 1..Len(queue') : queue'[i] = q[n + i]
  BY <1>1, <1>2
<1>4. Distinct(queue')
  BY <1>1, <1>3 DEF Distinct
<1>5. Queued(queue') = Queued(q) \ started /\ started \subseteq Queued(q)
  <2>1. \A i \in 1..Len(queue') : queue'[i] \in Queued(q) /\ queue'[i] \notin started
    <3> SUFFICES ASSUME NEW i \in 1..Len(queue')
                 PROVE  queue'[i] \in Queued(q) /\ queue'[i] \notin started
      OBVIOUS
    <3>1. queue'[i] = q[n + i] /\ n + i \in 1..Len(q)
      BY <1>1, <1>3
    <3>2. \A j \in 1..n : q[j] # q[n + i]
      BY <1>1, <3>1 DEF Distinct
    <3> QED
      BY <1>0, <3>1, <3>2 DEF Queued
  <2>2. \A m \in 1..Len(q) : m \in 1..n \/ (m - n \in 1..Len(queue') /\ q[m] = queue'[m - n])
    BY <1>1, <1>3
  <2>3. \A m \in 1..n : m \in 1..Len(q)
    BY <1>1
  <2> QED
    BY <1>0, <2>1, <2>2, <2>3 DEF Queued
<1>6. state' \in [Items -> States]
  BY <1>2 DEF States
<1>7. IsFiniteSet(started) /\ Cardinality(started) = n /\ started \in SUBSET Items
  <2> DEFINE f == [i \in 1..n |-> q[i]]
  <2>0. \A i \in 1..n : i \in 1..Len(q)
    BY <1>1
  <2>1. f \in Bijection(1..n, started)
    <3>1. f \in [1..n -> started]
      BY <1>0
    <3>2. \A i, j \in 1..n : f[i] = f[j] => i = j
      BY <2>0 DEF Distinct
    <3>3. \A x \in started : \E i \in 1..n : f[i] = x
      BY <1>0
    <3> QED
      BY <3>1, <3>2, <3>3 DEF Bijection, Injection, Surjection, IsInjective
  <2>2. n \in Nat /\ \A i \in 1..n : q[i] \in Items
    BY <1>1
  <2>3. IsFiniteSet(1..n) /\ Cardinality(1..n) = n
    BY <2>2, IntervalCardinality
  <2>4. ExistsBijection(1..n, started)
    BY <2>1 DEF ExistsBijection
  <2> QED
    BY <1>0, <2>2, <2>3, <2>4, FS_Bijection
<1>8. \A i \in Items : state'[i] = IF i \in started THEN "running" ELSE st[i]
  BY <1>2
<1>9. StartsPrefix(q, active, exclusive, st, n, started)
  BY <1>0, <1>1, <1>2, <1>3, <1>4, <1>5, <1>6, <1>7, <1>8 DEF StartsPrefix
<1> QED
  BY <1>9 DEF n, started

\* Pumping keeps the bookkeeping consistent.
LEMMA PumpConsistent ==
  ASSUME NEW q, NEW active, NEW exclusive, NEW barriers, NEW st,
         Consistent(q, active, exclusive, barriers, st),
         Pump(q, active, exclusive, barriers, st)
  PROVE  Consistent(queue', activeItems', exclusiveRunning', barriers, state')
<1> DEFINE n == StartCount(q, active, exclusive, barriers)
           started == StartedBy(q, active, exclusive, barriers)
           cancelling == {i \in Items : st[i] = "cancelling"}
<1>1. /\ q \in Seq(Items) /\ Distinct(q) /\ active \in SUBSET Items
      /\ exclusive \in BOOLEAN /\ barriers \in Nat /\ st \in [Items -> States]
  <2>1. Cardinality(cancelling) \in Nat
    BY FiniteItems
  <2> QED
    BY <2>1 DEF Consistent
<1>2. StartsPrefix(q, active, exclusive, st, n, started)
  BY <1>1, PumpFacts
<1>3. n # 0 =>
        /\ ~exclusive /\ barriers = 0
        /\ \/ n = 1 /\ q[1] \in Exclusive /\ active = {}
           \/ /\ \A i \in 1..n : q[i] \notin Exclusive
              /\ Cardinality(active) + n <= MaxConcurrency
  BY <1>1, StartCountFacts
<1>4. /\ n = 0 => started = {}
      /\ n = 1 => started = {q[1]}
      /\ started \cap Exclusive # {} => \E i \in 1..n : q[i] \in Exclusive
  BY DEF StartedBy
<1> HIDE DEF n, started
<1> USE DEF StartsPrefix
<1>5. \A i \in started : st[i] = "queued" /\ i \in Items
  BY <1>2 DEF Consistent
<1>6. \A i \in Items : state'[i] = "queued" <=> i \in Queued(queue')
  BY <1>2 DEF Consistent
<1>7. /\ activeItems' = {i \in Items : state'[i] \in {"running", "cancelling"}}
      /\ {i \in Items : state'[i] = "cancelling"} = cancelling
      /\ RunningIn(state') = RunningIn(st) \cup started
  BY <1>2, <1>5 DEF Consistent, RunningIn
<1>8. exclusiveRunning' \in BOOLEAN /\ (exclusiveRunning' <=> RunningIn(state') \cap Exclusive # {})
  <2>1. exclusive <=> RunningIn(st) \cap Exclusive # {}
    BY DEF Consistent
  <2>2. exclusiveRunning' <=> (exclusive \/ started \cap Exclusive # {})
    BY <1>2
  <2>3. exclusiveRunning' \in BOOLEAN
    BY <1>2
  <2> QED
    BY <1>7, <2>1, <2>2, <2>3
<1>9. RunningIn(st) \subseteq active
  BY DEF Consistent, RunningIn
<1>10. Cardinality(RunningIn(state')) <= MaxConcurrency
  <2>1. CASE n = 0
    BY <1>4, <1>7, <2>1 DEF Consistent
  <2>2. CASE n # 0 /\ active = {} /\ n = 1
    <3>1. RunningIn(state') = started
      BY <1>7, <1>9, <2>2
    <3> QED
      BY <1>2, <2>2, <3>1, ConstantsAssumption
  <2>3. CASE n # 0 /\ Cardinality(active) + n <= MaxConcurrency
    <3>1. /\ IsFiniteSet(active) /\ Cardinality(active) \in Nat
          /\ Cardinality(active \cap started) \in Nat
      BY <1>1, FiniteItems
    <3>2. Cardinality(active \cup started) <= Cardinality(active) + n
      <4>1. Cardinality(active \cup started)
              = Cardinality(active) + Cardinality(started) - Cardinality(active \cap started)
        BY <1>2, <3>1, FS_Union
      <4> QED
        BY <1>2, <3>1, <4>1
    <3>3. Cardinality(RunningIn(state')) <= Cardinality(active \cup started)
      <4>1. active \cup started \in SUBSET Items
        BY <1>1, <1>2
      <4>2. IsFiniteSet(active \cup started)
        BY <4>1, FiniteItems
      <4>3. RunningIn(state') \in SUBSET (active \cup started)
        BY <1>7, <1>9
      <4> QED
        BY <4>2, <4>3, FS_Subset
    <3>4. /\ Cardinality(RunningIn(state')) \in Nat /\ Cardinality(active \cup started) \in Nat
          /\ MaxConcurrency \in Nat
      BY <1>1, <1>2, FiniteItems, ConstantsAssumption DEF RunningIn
    <3> QED
      BY <1>2, <2>3, <3>1, <3>2, <3>3, <3>4
  <2> QED
    BY <1>3, <2>1, <2>2, <2>3
<1>11. \A i \in RunningIn(state') : i \in Exclusive => RunningIn(state') = {i}
  <2>1. CASE n = 0
    BY <1>4, <1>7, <2>1 DEF Consistent
  <2>2. CASE n = 1 /\ q[1] \in Exclusive /\ active = {}
    <3>1. started = {q[1]} /\ RunningIn(state') = started
      BY <1>4, <1>7, <1>9, <2>2
    <3> QED
      BY <3>1
  <2>3. CASE n # 0 /\ \A i \in 1..n : q[i] \notin Exclusive
    <3>1. started \cap Exclusive = {} /\ RunningIn(st) \cap Exclusive = {}
      BY <1>3, <1>4, <2>3 DEF Consistent
    <3> QED
      BY <1>7, <3>1
  <2> QED
    BY <1>3, <2>1, <2>2, <2>3
<1> QED
  BY <1>2, <1>6, <1>7, <1>8, <1>10, <1>11 DEF Consistent
-----------------------------------------------------------------------------
(* The other ways the bookkeeping changes.                                 *)

CancellingIn(st) == {i \in Items : st[i] = "cancelling"}

\* The sets and numbers a consistent bookkeeping is about are finite.
LEMMA ConsistentFacts ==
  ASSUME NEW q, NEW active, NEW exclusive, NEW barriers, NEW st,
         Consistent(q, active, exclusive, barriers, st)
  PROVE  /\ q \in Seq(Items) /\ Distinct(q) /\ st \in [Items -> States]
         /\ active \in SUBSET Items /\ IsFiniteSet(active)
         /\ exclusive \in BOOLEAN
         /\ IsFiniteSet(CancellingIn(st)) /\ barriers = Cardinality(CancellingIn(st))
         /\ barriers \in Nat
         /\ IsFiniteSet(RunningIn(st)) /\ Cardinality(RunningIn(st)) \in Nat
<1>1. CancellingIn(st) \in SUBSET Items /\ RunningIn(st) \in SUBSET Items
  BY DEF CancellingIn, RunningIn
<1>2. active \in SUBSET Items
  BY DEF Consistent
<1> QED
  BY <1>1, <1>2, FiniteItems DEF Consistent, CancellingIn

\* An item joins the end of the queue.
LEMMA JoinConsistent ==
  ASSUME NEW q, NEW active, NEW exclusive, NEW barriers, NEW st,
         Consistent(q, active, exclusive, barriers, st),
         NEW i \in Items, st[i] = "new"
  PROVE  Consistent(Append(q, i), active, exclusive, barriers,
                    [st EXCEPT ![i] = "queued"])
<1> DEFINE w == Append(q, i)
           nst == [st EXCEPT ![i] = "queued"]
<1>1. /\ q \in Seq(Items) /\ Distinct(q) /\ st \in [Items -> States]
      /\ \A j \in Items : st[j] = "queued" <=> j \in Queued(q)
  BY DEF Consistent
<1>2. i \notin Queued(q)
  BY <1>1
<1>3. /\ w \in Seq(Items) /\ Len(w) = Len(q) + 1 /\ w[Len(q) + 1] = i
      /\ \A n \in 1..Len(q) : w[n] = q[n]
  BY <1>1
<1>4. Distinct(w)
  BY <1>1, <1>2, <1>3 DEF Distinct, Queued
<1>5. Queued(w) = Queued(q) \cup {i}
  BY <1>1, <1>3 DEF Queued
<1>6. nst \in [Items -> States] /\ \A j \in Items : nst[j] = IF j = i THEN "queued" ELSE st[j]
  BY <1>1 DEF States
<1> HIDE DEF w, nst
<1>7. \A j \in Items : nst[j] = "queued" <=> j \in Queued(w)
  BY <1>1, <1>5, <1>6
<1>8. /\ RunningIn(nst) = RunningIn(st)
      /\ {j \in Items : nst[j] \in {"running", "cancelling"}}
           = {j \in Items : st[j] \in {"running", "cancelling"}}
      /\ {j \in Items : nst[j] = "cancelling"} = {j \in Items : st[j] = "cancelling"}
  BY <1>6 DEF RunningIn
<1>9. Consistent(w, active, exclusive, barriers, nst)
  BY <1>3, <1>4, <1>6, <1>7, <1>8 DEF Consistent
<1> QED
  BY <1>9 DEF w, nst

\* Items leave the queue to be cancelled: each raises the barrier by one.
LEMMA WithdrawConsistent ==
  ASSUME NEW q, NEW active, NEW exclusive, NEW barriers, NEW st,
         Consistent(q, active, exclusive, barriers, st),
         NEW S, S \subseteq Queued(q)
  PROVE  Consistent(Withdraw(S, q), active \cup S, exclusive, barriers + Cardinality(S),
                    [i \in Items |-> IF i \in S THEN "cancelling" ELSE st[i]])
<1> DEFINE w == Withdraw(S, q)
           nst == [i \in Items |-> IF i \in S THEN "cancelling" ELSE st[i]]
<1>1. /\ q \in Seq(Items) /\ Distinct(q) /\ st \in [Items -> States]
      /\ \A i \in Items : st[i] = "queued" <=> i \in Queued(q)
  BY DEF Consistent
<1>2. w \in Seq(Items) /\ Distinct(w) /\ Queued(w) = Queued(q) \ S
  BY <1>1, WithdrawFacts
<1>3. S \in SUBSET Items /\ \A i \in S : st[i] = "queued"
  BY <1>1 DEF Queued
<1>4. nst \in [Items -> States]
      /\ \A i \in Items : nst[i] = IF i \in S THEN "cancelling" ELSE st[i]
  BY <1>1 DEF States
<1> HIDE DEF w, nst
<1>5. \A i \in Items : nst[i] = "queued" <=> i \in Queued(w)
  BY <1>1, <1>2, <1>4
<1>6. /\ RunningIn(nst) = RunningIn(st)
      /\ active \cup S = {i \in Items : nst[i] \in {"running", "cancelling"}}
      /\ CancellingIn(nst) = CancellingIn(st) \cup S
      /\ CancellingIn(st) \cap S = {}
  BY <1>3, <1>4 DEF RunningIn, CancellingIn, Consistent
<1>7. barriers + Cardinality(S) = Cardinality(CancellingIn(nst))
  <2>1. IsFiniteSet(S) /\ Cardinality(S) \in Nat
    BY <1>3, FiniteItems
  <2>2. /\ IsFiniteSet(CancellingIn(st)) /\ barriers = Cardinality(CancellingIn(st))
        /\ barriers \in Nat
    BY ConsistentFacts
  <2>3. Cardinality(CancellingIn(st) \cup S)
          = Cardinality(CancellingIn(st)) + Cardinality(S) - Cardinality({})
    BY <1>6, <2>1, <2>2, FS_Union
  <2> QED
    BY <1>6, <2>1, <2>2, <2>3, FS_EmptySet
<1>8. Consistent(w, active \cup S, exclusive, barriers + Cardinality(S), nst)
  BY <1>2, <1>4, <1>5, <1>6, <1>7 DEF Consistent, CancellingIn
<1> QED
  BY <1>8 DEF w, nst

\* A running item settles: the exclusive flag falls with an exclusive one.
LEMMA FinishConsistent ==
  ASSUME NEW q, NEW active, NEW exclusive, NEW barriers, NEW st,
         Consistent(q, active, exclusive, barriers, st),
         NEW i \in Items, st[i] = "running"
  PROVE  Consistent(q, active \ {i}, exclusive /\ i \notin Exclusive, barriers,
                    [st EXCEPT ![i] = "settled"])
<1> DEFINE nst == [st EXCEPT ![i] = "settled"]
           nex == exclusive /\ i \notin Exclusive
<1>1. nst \in [Items -> States] /\ \A j \in Items : nst[j] = IF j = i THEN "settled" ELSE st[j]
  BY DEF Consistent, States
<1>2. nex \in BOOLEAN /\ (nex <=> exclusive /\ i \notin Exclusive)
  BY DEF Consistent
<1> HIDE DEF nst, nex
<1>3. RunningIn(nst) = RunningIn(st) \ {i} /\ i \in RunningIn(st)
  BY <1>1 DEF RunningIn
<1>4. nex <=> RunningIn(nst) \cap Exclusive # {}
  <2>1. CASE i \in Exclusive
    <3>1. RunningIn(nst) = {}
      BY <1>3, <2>1 DEF Consistent
    <3> QED
      BY <1>2, <2>1, <3>1
  <2>2. CASE i \notin Exclusive
    BY <1>2, <1>3, <2>2 DEF Consistent
  <2> QED
    BY <2>1, <2>2
<1>5. Cardinality(RunningIn(nst)) <= MaxConcurrency
  <2>1. IsFiniteSet(RunningIn(st)) /\ Cardinality(RunningIn(st)) \in Nat
    BY ConsistentFacts
  <2>2. Cardinality(RunningIn(nst)) \in Nat
        /\ Cardinality(RunningIn(nst)) <= Cardinality(RunningIn(st))
    <3>1. RunningIn(nst) \in SUBSET RunningIn(st)
      BY <1>3
    <3>2. IsFiniteSet(RunningIn(nst)) /\ Cardinality(RunningIn(nst)) <= Cardinality(RunningIn(st))
      BY <2>1, <3>1, FS_Subset
    <3> QED
      BY <3>2, FS_CardinalityType
  <2>3. Cardinality(RunningIn(st)) <= MaxConcurrency /\ MaxConcurrency \in Nat
    BY ConstantsAssumption DEF Consistent
  <2> QED
    BY <2>1, <2>2, <2>3
<1>6. \A j \in RunningIn(nst) : j \in Exclusive => RunningIn(nst) = {j}
  BY <1>3 DEF Consistent
<1>7. /\ \A j \in Items : nst[j] = "queued" <=> st[j] = "queued"
      /\ {j \in Items : nst[j] = "cancelling"} = {j \in Items : st[j] = "cancelling"}
      /\ {j \in Items : nst[j] \in {"running", "cancelling"}}
           = {j \in Items : st[j] \in {"running", "cancelling"}} \ {i}
  BY <1>1
<1>8. Consistent(q, active \ {i}, nex, barriers, nst)
  BY <1>1, <1>2, <1>4, <1>5, <1>6, <1>7 DEF Consistent
<1> QED
  BY <1>8 DEF nst, nex

\* A cancelled item settles and lowers the barrier.
LEMMA ReleaseConsistent ==
  ASSUME NEW q, NEW active, NEW exclusive, NEW barriers, NEW st,
         Consistent(q, active, exclusive, barriers, st),
         NEW i \in Items, st[i] = "cancelling"
  PROVE  Consistent(q, active \ {i}, exclusive, barriers - 1, [st EXCEPT ![i] = "settled"])
<1> DEFINE nst == [st EXCEPT ![i] = "settled"]
<1>1. nst \in [Items -> States] /\ \A j \in Items : nst[j] = IF j = i THEN "settled" ELSE st[j]
  BY DEF Consistent, States
<1> HIDE DEF nst
<1>2. CancellingIn(nst) = CancellingIn(st) \ {i} /\ i \in CancellingIn(st)
  BY <1>1 DEF CancellingIn
<1>3. barriers - 1 = Cardinality(CancellingIn(nst))
  <2>1. IsFiniteSet(CancellingIn(st)) /\ barriers = Cardinality(CancellingIn(st))
    BY ConsistentFacts
  <2> QED
    BY <1>2, <2>1, FS_RemoveElement
<1>4. /\ \A j \in Items : nst[j] = "queued" <=> st[j] = "queued"
      /\ RunningIn(nst) = RunningIn(st)
      /\ {j \in Items : nst[j] \in {"running", "cancelling"}}
           = {j \in Items : st[j] \in {"running", "cancelling"}} \ {i}
  BY <1>1 DEF RunningIn
<1>5. Consistent(q, active \ {i}, exclusive, barriers - 1, nst)
  BY <1>1, <1>3, <1>4 DEF Consistent, CancellingIn
<1> QED
  BY <1>5 DEF nst
\* A request enters with its signal aborted: it is cancelled unqueued.
LEMMA AbortConsistent ==
  ASSUME NEW q, NEW active, NEW exclusive, NEW barriers, NEW st,
         Consistent(q, active, exclusive, barriers, st),
         NEW i \in Items, st[i] = "new"
  PROVE  Consistent(q, active \cup {i}, exclusive, barriers + 1,
                    [st EXCEPT ![i] = "cancelling"])
<1> DEFINE nst == [st EXCEPT ![i] = "cancelling"]
<1>1. /\ nst \in [Items -> States]
      /\ \A j \in Items : nst[j] = IF j = i THEN "cancelling" ELSE st[j]
  BY DEF Consistent, States
<1> HIDE DEF nst
<1>2. CancellingIn(nst) = CancellingIn(st) \cup {i} /\ i \notin CancellingIn(st)
  BY <1>1 DEF CancellingIn
<1>3. barriers + 1 = Cardinality(CancellingIn(nst))
  <2>1. IsFiniteSet(CancellingIn(st)) /\ barriers = Cardinality(CancellingIn(st))
    BY ConsistentFacts
  <2> QED
    BY <1>2, <2>1, FS_AddElement
<1>4. /\ \A j \in Items : nst[j] = "queued" <=> st[j] = "queued"
      /\ RunningIn(nst) = RunningIn(st)
      /\ {j \in Items : nst[j] \in {"running", "cancelling"}}
           = {j \in Items : st[j] \in {"running", "cancelling"}} \cup {i}
  BY <1>1 DEF RunningIn
<1>5. Consistent(q, active \cup {i}, exclusive, barriers + 1, nst)
  BY <1>1, <1>3, <1>4 DEF Consistent, CancellingIn
<1> QED
  BY <1>5 DEF nst

-----------------------------------------------------------------------------
(* What the pump leaves waiting, it leaves waiting for a reason.           *)

\* NoLostWakeup of the given queue, active set and flags.
Awake(q, active, exclusive, barriers) ==
  q # <<>> /\ barriers = 0 =>
    \/ exclusive
    \/ Cardinality(active) >= MaxConcurrency
    \/ Head(q) \in Exclusive /\ active # {}

LEMMA PumpWakes ==
  ASSUME NEW q, NEW active, NEW exclusive, NEW barriers, NEW st,
         Consistent(q, active, exclusive, barriers, st),
         Pump(q, active, exclusive, barriers, st)
  PROVE  Awake(queue', activeItems', exclusiveRunning', barriers)
<1> DEFINE n == StartCount(q, active, exclusive, barriers)
           started == StartedBy(q, active, exclusive, barriers)
<1>1. /\ q \in Seq(Items) /\ Distinct(q) /\ active \in SUBSET Items
      /\ exclusive \in BOOLEAN /\ barriers \in Nat /\ st \in [Items -> States]
  BY ConsistentFacts
<1>2. StartsPrefix(q, active, exclusive, st, n, started)
  BY <1>1, PumpFacts
<1>3. n < Len(q) /\ ~exclusive /\ barriers = 0 =>
        \/ n = 0 /\ q[1] \in Exclusive /\ active # {}
        \/ n = 1 /\ q[1] \in Exclusive
        \/ q[1] \notin Exclusive /\ q[n + 1] \in Exclusive
        \/ Cardinality(active) + n >= MaxConcurrency
  BY <1>1, StartCountFacts
<1> HIDE DEF n, started
<1> SUFFICES ASSUME queue' # <<>>, barriers = 0, ~exclusiveRunning'
             PROVE  \/ Cardinality(activeItems') >= MaxConcurrency
                    \/ Head(queue') \in Exclusive /\ activeItems' # {}
  BY DEF Awake
<1>4. /\ n \in 0..Len(q) /\ queue' \in Seq(Items) /\ Len(queue') = Len(q) - n
      /\ \A i \in 1..Len(queue') : queue'[i] = q[n + i]
      /\ started = {q[i] : i \in 1..n}
      /\ activeItems' = active \cup started
      /\ started \subseteq Queued(q) /\ started \in SUBSET Items
      /\ IsFiniteSet(started) /\ Cardinality(started) = n
  BY <1>2 DEF StartsPrefix
<1>5. ~exclusive /\ started \cap Exclusive = {}
  BY <1>2 DEF StartsPrefix
<1>6. n < Len(q) /\ Head(queue') = q[n + 1]
  BY <1>4
<1>7. CASE n = 0 /\ q[1] \in Exclusive /\ active # {}
  BY <1>4, <1>6, <1>7
<1>8. ~(n = 1 /\ q[1] \in Exclusive)
  BY <1>4, <1>5
<1>9. CASE q[1] \notin Exclusive /\ q[n + 1] \in Exclusive
  <2>1. 1 \in 1..n
    BY <1>4, <1>9
  <2>2. q[1] \in activeItems'
    BY <1>4, <2>1
  <2> QED
    BY <1>6, <1>9, <2>2
<1>10. CASE Cardinality(active) + n >= MaxConcurrency
  <2>1. active \cap started = {}
    BY <1>4 DEF Consistent
  <2>2. IsFiniteSet(active) /\ Cardinality(active) \in Nat
    BY <1>1, FiniteItems
  <2>3. Cardinality(active \cup started)
          = Cardinality(active) + Cardinality(started) - Cardinality({})
    BY <1>4, <2>1, <2>2, FS_Union
  <2>4. Cardinality(activeItems') = Cardinality(active) + n
    BY <1>4, <2>2, <2>3, FS_EmptySet
  <2> QED
    BY <1>10, <2>4
<1> QED
  BY <1>3, <1>5, <1>6, <1>7, <1>8, <1>9, <1>10

\* An empty queue stays empty, and the pump makes no queue longer.
LEMMA PumpShortens ==
  ASSUME NEW q, NEW active, NEW exclusive, NEW barriers, NEW st,
         Consistent(q, active, exclusive, barriers, st),
         Pump(q, active, exclusive, barriers, st)
  PROVE  /\ queue' \in Seq(Items) /\ Len(queue') <= Len(q)
         /\ q = <<>> => queue' = <<>> /\ activeItems' = active
         /\ activeItems' \in SUBSET Items
<1> DEFINE n == StartCount(q, active, exclusive, barriers)
           started == StartedBy(q, active, exclusive, barriers)
<1>1. /\ q \in Seq(Items) /\ Distinct(q) /\ active \in SUBSET Items
      /\ exclusive \in BOOLEAN /\ barriers \in Nat /\ st \in [Items -> States]
  BY ConsistentFacts
<1>2. StartsPrefix(q, active, exclusive, st, n, started)
  BY <1>1, PumpFacts
<1> HIDE DEF n, started
<1>3. /\ n \in 0..Len(q) /\ queue' \in Seq(Items) /\ Len(queue') = Len(q) - n
      /\ started \subseteq Queued(q) /\ started \in SUBSET Items
      /\ activeItems' = active \cup started
  BY <1>2 DEF StartsPrefix
<1>4. q = <<>> => Queued(q) = {}
  BY DEF Queued
<1> QED
  BY <1>1, <1>3, <1>4

\* Behind a barrier, or from an empty queue, the pump starts nothing.
LEMMA PumpHolds ==
  ASSUME NEW q, NEW active, NEW exclusive, NEW barriers, NEW st,
         Consistent(q, active, exclusive, barriers, st),
         Pump(q, active, exclusive, barriers, st),
         barriers > 0 \/ q = <<>>
  PROVE  \A i \in Items : state'[i] = st[i]
<1> DEFINE n == StartCount(q, active, exclusive, barriers)
           started == StartedBy(q, active, exclusive, barriers)
<1>1. /\ q \in Seq(Items) /\ Distinct(q) /\ active \in SUBSET Items
      /\ exclusive \in BOOLEAN /\ barriers \in Nat /\ st \in [Items -> States]
  BY ConsistentFacts
<1>2. StartsPrefix(q, active, exclusive, st, n, started)
  BY <1>1, PumpFacts
<1>3. n = 0
  BY DEF StartCount
<1> HIDE DEF n, started
<1>4. started = {}
  BY <1>2, <1>3 DEF StartsPrefix
<1> QED
  BY <1>2, <1>4 DEF StartsPrefix

-----------------------------------------------------------------------------
(* The inductive invariant.                                                *)

\* Closing and halting, beside the bookkeeping: who waits for the drain has
\* stopped the scheduler, and a failed cancellation has emptied it.
ShutdownInv ==
  /\ \A k \in Closers : closing[k] # "open" => ~accepting
  /\ (\E i \in Items : reply[i] = "failed") => ~accepting /\ queue = <<>>

Inv ==
  /\ Consistent(queue, activeItems, exclusiveRunning, cancellationBarriers, state)
  /\ Len(queue) <= MaxQueue
  /\ accepting \in BOOLEAN
  /\ cancelled \subseteq Items \ NonCancellable
  /\ reply \in [Items -> Replies \cup {None}]
  /\ closing \in [Closers -> {"open", "draining", "closed"}]
  /\ \A i \in Items : state[i] = "settled" => reply[i] # None
  /\ ShutdownInv
  /\ DrainIsHonest
  /\ NoLostWakeup

LEMMA InitInv == Init => Inv
<1> SUFFICES ASSUME Init PROVE Inv
  OBVIOUS
<1>1. Consistent(queue, activeItems, exclusiveRunning, cancellationBarriers, state)
  <2>1. queue \in Seq(Items) /\ Distinct(queue) /\ Queued(queue) = {}
    BY DEF Init, Distinct, Queued
  <2>2. state \in [Items -> States] /\ \A i \in Items : state[i] = "new"
    BY DEF Init, States
  <2>3. /\ RunningIn(state) = {}
        /\ {i \in Items : state[i] \in {"running", "cancelling"}} = {}
        /\ {i \in Items : state[i] = "cancelling"} = {}
    BY <2>2 DEF RunningIn
  <2>4. Cardinality({}) = 0 /\ MaxConcurrency \in Nat
    BY FS_EmptySet, ConstantsAssumption
  <2>5. activeItems = {} /\ ~exclusiveRunning /\ cancellationBarriers = 0
        /\ exclusiveRunning \in BOOLEAN
    BY DEF Init
  <2>6. /\ \A i \in Items : state[i] = "queued" <=> i \in Queued(queue)
        /\ cancellationBarriers = Cardinality({i \in Items : state[i] = "cancelling"})
        /\ Cardinality(RunningIn(state)) <= MaxConcurrency
    <3>1. \A i \in Items : state[i] = "queued" <=> i \in Queued(queue)
      BY <2>1, <2>2
    <3>2. cancellationBarriers = Cardinality({i \in Items : state[i] = "cancelling"})
      <4> DEFINE C == {i \in Items : state[i] = "cancelling"}
      <4>1. C = {}
        BY <2>2
      <4> HIDE DEF C
      <4>2. cancellationBarriers = Cardinality(C)
        BY <2>4, <2>5, <4>1
      <4> QED
        BY <4>2 DEF C
    <3>3. Cardinality(RunningIn(state)) <= MaxConcurrency
      <4>1. Cardinality(RunningIn(state)) = 0
        BY <2>3, <2>4
      <4> QED
        BY <4>1, ConstantsAssumption
    <3> QED
      BY <3>1, <3>2, <3>3
  <2> QED
    BY <2>1, <2>2, <2>3, <2>5, <2>6 DEF Consistent
<1>2. Len(queue) <= MaxQueue /\ queue = <<>>
  BY ConstantsAssumption DEF Init
<1>3. /\ accepting \in BOOLEAN /\ cancelled \subseteq Items \ NonCancellable
      /\ reply \in [Items -> Replies \cup {None}]
      /\ closing \in [Closers -> {"open", "draining", "closed"}]
      /\ \A i \in Items : state[i] # "settled"
  BY DEF Init
<1>4. ShutdownInv /\ DrainIsHonest
  BY NoReplyAssumption DEF Init, ShutdownInv, DrainIsHonest, Replies
<1>5. NoLostWakeup
  BY <1>2 DEF NoLostWakeup
<1> QED
  BY <1>1, <1>2, <1>3, <1>4, <1>5 DEF Inv
-----------------------------------------------------------------------------
(* Every action keeps it.                                                  *)

\* The parts of the invariant the pump answers for.
LEMMA PumpInv ==
  ASSUME NEW q, NEW active, NEW exclusive, NEW barriers, NEW st,
         Consistent(q, active, exclusive, barriers, st),
         Pump(q, active, exclusive, barriers, st),
         cancellationBarriers' = barriers, Len(q) <= MaxQueue
  PROVE  /\ Consistent(queue, activeItems, exclusiveRunning, cancellationBarriers, state)'
         /\ (Len(queue) <= MaxQueue)'
         /\ NoLostWakeup'
         /\ \A i \in Items : state'[i] = st[i] \/ state'[i] = "running"
<1>1. Consistent(queue', activeItems', exclusiveRunning', barriers, state')
  BY PumpConsistent
<1>2. Consistent(queue, activeItems, exclusiveRunning, cancellationBarriers, state)'
  BY <1>1 DEF Consistent, Distinct, Queued, RunningIn
<1>3. Awake(queue', activeItems', exclusiveRunning', barriers)
  BY PumpWakes
<1>4. NoLostWakeup'
  BY <1>3 DEF Awake, NoLostWakeup
<1>5. (Len(queue) <= MaxQueue)'
  <2>1. queue' \in Seq(Items) /\ Len(queue') <= Len(q)
    BY PumpShortens
  <2>2. q \in Seq(Items)
    BY ConsistentFacts
  <2> QED
    BY <2>1, <2>2, ConstantsAssumption
<1>6. \A i \in Items : state'[i] = st[i] \/ state'[i] = "running"
  BY DEF Pump
<1> QED
  BY <1>2, <1>4, <1>5, <1>6

LEMMA InvFacts ==
  ASSUME Inv
  PROVE  /\ queue \in Seq(Items) /\ Len(queue) \in Nat
         /\ state \in [Items -> States]
         /\ activeItems \in SUBSET Items
         /\ cancellationBarriers \in Nat
         /\ exclusiveRunning \in BOOLEAN
         /\ \A i \in Items : state[i] = "queued" <=> i \in Queued(queue)
         /\ \A i \in Items : i \in activeItems <=> state[i] \in {"running", "cancelling"}
         /\ \A i \in Items : state[i] = "cancelling" => cancellationBarriers > 0
<1>1. Consistent(queue, activeItems, exclusiveRunning, cancellationBarriers, state)
  BY DEF Inv
<1>2. /\ queue \in Seq(Items) /\ state \in [Items -> States]
      /\ activeItems \in SUBSET Items /\ exclusiveRunning \in BOOLEAN
      /\ cancellationBarriers \in Nat
      /\ IsFiniteSet(CancellingIn(state))
      /\ cancellationBarriers = Cardinality(CancellingIn(state))
  BY <1>1, ConsistentFacts
<1>3. ASSUME NEW i \in Items, state[i] = "cancelling"
      PROVE  cancellationBarriers > 0
  <2>1. CancellingIn(state) # {}
    BY <1>3 DEF CancellingIn
  <2>2. cancellationBarriers # 0
    BY <1>2, <2>1, FS_EmptySet
  <2> QED
    BY <1>2, <2>2
<1> QED
  BY <1>1, <1>2, <1>3 DEF Consistent

\* A closer is told of the drain only by ResolveDrain or by its own close().
LEMMA ResolveDrainFacts ==
  ASSUME NEW q, NEW active, NEW waiting \in [Closers -> {"open", "draining", "closed"}]
  PROVE  /\ ResolveDrain(q, active, waiting) \in [Closers -> {"open", "draining", "closed"}]
         /\ \A k \in Closers : ResolveDrain(q, active, waiting)[k] # "open" => waiting[k] # "open"
         /\ \A k \in Closers : ResolveDrain(q, active, waiting)[k] = "closed" =>
              waiting[k] = "closed" \/ (q = <<>> /\ active = {})
  BY DEF ResolveDrain

LEMMA RejectInv ==
  ASSUME Inv, NEW i \in Items, Reject(i) PROVE Inv'
<1>1. /\ state[i] = "new" /\ state' = [state EXCEPT ![i] = "settled"]
      /\ \E a \in {"capacity", "closed"} : reply' = [reply EXCEPT ![i] = a]
      /\ UNCHANGED <<queue, activeItems, exclusiveRunning, cancellationBarriers,
                     accepting, cancelled, closing>>
  BY DEF Reject
<1>2. Consistent(queue, activeItems, exclusiveRunning, cancellationBarriers, state)
  BY DEF Inv
<1>3. state' \in [Items -> States] /\ \A j \in Items : state'[j] = IF j = i THEN "settled" ELSE state[j]
  BY <1>1, InvFacts DEF States
<1>4. /\ RunningIn(state') = RunningIn(state)
      /\ {j \in Items : state'[j] \in {"running", "cancelling"}}
           = {j \in Items : state[j] \in {"running", "cancelling"}}
      /\ {j \in Items : state'[j] = "cancelling"} = {j \in Items : state[j] = "cancelling"}
      /\ \A j \in Items : state'[j] = "queued" <=> state[j] = "queued"
  BY <1>1, <1>3 DEF RunningIn
<1>5. Consistent(queue, activeItems, exclusiveRunning, cancellationBarriers, state')
  BY <1>2, <1>3, <1>4 DEF Consistent
<1>6. Consistent(queue, activeItems, exclusiveRunning, cancellationBarriers, state)'
  BY <1>1, <1>5 DEF Consistent, Distinct, Queued, RunningIn
<1>7. /\ reply' \in [Items -> Replies \cup {None}]
      /\ \A j \in Items : reply'[j] = "failed" => reply[j] = "failed"
      /\ reply'[i] # None
      /\ \A j \in Items : reply[j] # None => reply'[j] # None
  BY <1>1, NoReplyAssumption DEF Inv, Replies
<1>8. \A j \in Items : state'[j] = "settled" => reply'[j] # None
  BY <1>3, <1>7 DEF Inv
<1>9. ShutdownInv' /\ DrainIsHonest' /\ NoLostWakeup'
  BY <1>1, <1>7 DEF Inv, ShutdownInv, DrainIsHonest, NoLostWakeup
<1> QED
  BY <1>1, <1>6, <1>7, <1>8, <1>9 DEF Inv

LEMMA EnqueueInv ==
  ASSUME Inv, NEW i \in Items, Enqueue(i) PROVE Inv'
<1> DEFINE q == Append(queue, i)
           st == [state EXCEPT ![i] = "queued"]
<1>1. /\ state[i] = "new" /\ accepting /\ Len(queue) < MaxQueue
      /\ Pump(q, activeItems, exclusiveRunning, cancellationBarriers, st)
      /\ UNCHANGED <<cancellationBarriers, accepting, cancelled, reply, closing>>
  BY DEF Enqueue
<1>2. Consistent(queue, activeItems, exclusiveRunning, cancellationBarriers, state)
  BY DEF Inv
<1>3. Consistent(q, activeItems, exclusiveRunning, cancellationBarriers, st)
  BY <1>1, <1>2, JoinConsistent
<1>4. Len(q) <= MaxQueue /\ \A j \in Items : st[j] # state[j] => st[j] = "queued"
  BY <1>1, InvFacts, ConstantsAssumption
<1> HIDE DEF q, st
<1>5. /\ Consistent(queue, activeItems, exclusiveRunning, cancellationBarriers, state)'
      /\ (Len(queue) <= MaxQueue)' /\ NoLostWakeup'
      /\ \A j \in Items : state'[j] = st[j] \/ state'[j] = "running"
  BY <1>1, <1>3, <1>4, PumpInv
<1>6. \A j \in Items : state'[j] = "settled" => reply'[j] # None
  <2>1. \A j \in Items : state'[j] = "settled" => state[j] = "settled"
    BY <1>4, <1>5
  <2> QED
    BY <1>1, <2>1 DEF Inv
<1>7. ShutdownInv' /\ DrainIsHonest'
  BY <1>1 DEF Inv, ShutdownInv, DrainIsHonest
<1> QED
  BY <1>1, <1>5, <1>6, <1>7 DEF Inv

LEMMA EnqueueAbortedInv ==
  ASSUME Inv, NEW i \in Items, EnqueueAborted(i) PROVE Inv'
<1>1. /\ state[i] = "new" /\ i \notin NonCancellable /\ accepting
      /\ state' = [state EXCEPT ![i] = "cancelling"]
      /\ activeItems' = activeItems \cup {i}
      /\ cancellationBarriers' = cancellationBarriers + 1
      /\ cancelled' = cancelled \cup {i}
      /\ UNCHANGED <<queue, exclusiveRunning, accepting, reply, closing>>
  BY DEF EnqueueAborted
<1>2. Consistent(queue, activeItems, exclusiveRunning, cancellationBarriers, state)
  BY DEF Inv
<1>3. Consistent(queue, activeItems \cup {i}, exclusiveRunning, cancellationBarriers + 1,
                 [state EXCEPT ![i] = "cancelling"])
  BY <1>1, <1>2, AbortConsistent
<1>4. Consistent(queue, activeItems, exclusiveRunning, cancellationBarriers, state)'
  BY <1>1, <1>3 DEF Consistent, Distinct, Queued, RunningIn
<1>5. \A j \in Items : state'[j] = "settled" => reply'[j] # None
  BY <1>1, InvFacts DEF Inv
<1>6. ShutdownInv' /\ DrainIsHonest'
  BY <1>1 DEF Inv, ShutdownInv, DrainIsHonest
<1>7. NoLostWakeup'
  BY <1>1, InvFacts DEF NoLostWakeup
<1> QED
  BY <1>1, <1>4, <1>5, <1>6, <1>7 DEF Inv

LEMMA CancelQueuedInv ==
  ASSUME Inv, NEW i \in Items, CancelQueued(i) PROVE Inv'
<1>1. /\ state[i] = "queued" /\ i \notin NonCancellable
      /\ queue' = Withdraw({i}, queue)
      /\ state' = [state EXCEPT ![i] = "cancelling"]
      /\ activeItems' = activeItems \cup {i}
      /\ cancellationBarriers' = cancellationBarriers + 1
      /\ cancelled' = cancelled \cup {i}
      /\ UNCHANGED <<exclusiveRunning, accepting, reply, closing>>
  BY DEF CancelQueued
<1>2. Consistent(queue, activeItems, exclusiveRunning, cancellationBarriers, state)
  BY DEF Inv
<1>3. {i} \subseteq Queued(queue) /\ Cardinality({i}) = 1
  BY <1>1, InvFacts, FS_Singleton
<1>4. state' = [j \in Items |-> IF j \in {i} THEN "cancelling" ELSE state[j]]
  BY <1>1, InvFacts
<1>5. Consistent(Withdraw({i}, queue), activeItems \cup {i}, exclusiveRunning,
                 cancellationBarriers + Cardinality({i}),
                 [j \in Items |-> IF j \in {i} THEN "cancelling" ELSE state[j]])
  BY <1>2, <1>3, WithdrawConsistent
<1>6. Consistent(queue', activeItems', exclusiveRunning', cancellationBarriers', state')
  BY <1>1, <1>3, <1>4, <1>5
<1>7. Consistent(queue, activeItems, exclusiveRunning, cancellationBarriers, state)'
  BY <1>6 DEF Consistent, Distinct, Queued, RunningIn
<1>8. (Len(queue) <= MaxQueue)'
  <2>1. Distinct(queue)
    BY <1>2 DEF Consistent
  <2>2. queue' \in Seq(Items) /\ Len(queue') <= Len(queue)
    BY <1>1, <2>1, InvFacts, WithdrawFacts
  <2> QED
    BY <2>2, InvFacts, ConstantsAssumption DEF Inv
<1>9. \A j \in Items : state'[j] = "settled" => reply'[j] # None
  BY <1>1, <1>4 DEF Inv
<1>10. queue # <<>>
  BY <1>3 DEF Queued
<1>11. ShutdownInv' /\ DrainIsHonest'
  BY <1>1, <1>10 DEF Inv, ShutdownInv, DrainIsHonest
<1>12. NoLostWakeup'
  BY <1>1, InvFacts DEF NoLostWakeup
<1> QED
  BY <1>1, <1>7, <1>8, <1>9, <1>11, <1>12 DEF Inv
\* An answer of the port moves no item.
LEMMA AnswerInv ==
  ASSUME Inv, NEW i \in Items,
         CancelRunning(i) \/ PortAnswers(i) \/ CancellationPersisted(i)
  PROVE  Inv'
<1>1. /\ UNCHANGED <<queue, state, activeItems, exclusiveRunning, cancellationBarriers,
                     accepting, closing>>
      /\ cancelled' \subseteq Items \ NonCancellable
      /\ \/ reply' = reply
         \/ \E a \in {"outcome", "cancelled"} : reply' = [reply EXCEPT ![i] = a]
  BY DEF Inv, CancelRunning, PortAnswers, CancellationPersisted
<1>2. Consistent(queue, activeItems, exclusiveRunning, cancellationBarriers, state)'
  BY <1>1 DEF Inv, Consistent, Distinct, Queued, RunningIn
<1>3. /\ reply' \in [Items -> Replies \cup {None}]
      /\ \A j \in Items : reply'[j] = "failed" => reply[j] = "failed"
      /\ \A j \in Items : reply[j] # None => reply'[j] # None
  BY <1>1, NoReplyAssumption DEF Inv, Replies
<1>4. ShutdownInv' /\ DrainIsHonest' /\ NoLostWakeup'
  BY <1>1, <1>3 DEF Inv, ShutdownInv, DrainIsHonest, NoLostWakeup
<1> QED
  BY <1>1, <1>2, <1>3, <1>4 DEF Inv

LEMMA ReleaseInv ==
  ASSUME Inv, NEW i \in Items, Release(i) PROVE Inv'
<1> DEFINE exclusive == exclusiveRunning /\ i \notin Exclusive
           active == activeItems \ {i}
           st == [state EXCEPT ![i] = "settled"]
<1>1. /\ state[i] = "running" /\ reply[i] # None
      /\ Pump(queue, active, exclusive, cancellationBarriers, st)
      /\ \/ closing' = closing
         \/ closing' = ResolveDrain(queue', activeItems', closing)
      /\ UNCHANGED <<cancellationBarriers, accepting, cancelled, reply>>
  BY DEF Release
<1>2. Consistent(queue, activeItems, exclusiveRunning, cancellationBarriers, state)
  BY DEF Inv
<1>3. Consistent(queue, active, exclusive, cancellationBarriers, st)
  BY <1>1, <1>2, FinishConsistent
<1>4. \A j \in Items : st[j] = "settled" => state[j] = "settled" \/ j = i
  BY InvFacts
<1> HIDE DEF active, exclusive, st
<1>5. /\ Consistent(queue, activeItems, exclusiveRunning, cancellationBarriers, state)'
      /\ (Len(queue) <= MaxQueue)' /\ NoLostWakeup'
      /\ \A j \in Items : state'[j] = st[j] \/ state'[j] = "running"
  BY <1>1, <1>3, PumpInv DEF Inv
<1>6. \A j \in Items : state'[j] = "settled" => reply'[j] # None
  BY <1>1, <1>4, <1>5 DEF Inv
<1>7. /\ closing' \in [Closers -> {"open", "draining", "closed"}]
      /\ \A k \in Closers : closing'[k] # "open" => closing[k] # "open"
      /\ \A k \in Closers : closing'[k] = "closed" =>
           closing[k] = "closed" \/ (queue' = <<>> /\ activeItems' = {})
  BY <1>1, ResolveDrainFacts DEF Inv
<1>8. queue = <<>> => queue' = <<>>
  BY <1>1, <1>3, PumpShortens
<1>9. activeItems # {}
  BY <1>1, InvFacts
<1>10. ShutdownInv'
  BY <1>1, <1>7, <1>8 DEF Inv, ShutdownInv
<1>11. DrainIsHonest'
  BY <1>1, <1>7, <1>9 DEF Inv, ShutdownInv, DrainIsHonest
<1> QED
  BY <1>1, <1>5, <1>6, <1>7, <1>10, <1>11 DEF Inv

LEMMA CancellationFailsInv ==
  ASSUME Inv, NEW i \in Items, CancellationFails(i) PROVE Inv'
<1>1. /\ state[i] = "cancelling"
      /\ accepting' = FALSE /\ queue' = <<>>
      /\ state' = [j \in Items |-> IF j \in Queued(queue) THEN "settled" ELSE state[j]]
      /\ reply' = [j \in Items |-> IF j = i THEN "failed"
                                   ELSE IF j \in Queued(queue) THEN "halted" ELSE reply[j]]
      /\ UNCHANGED <<activeItems, exclusiveRunning, cancellationBarriers, cancelled, closing>>
  BY DEF CancellationFails
<1>2. Consistent(queue, activeItems, exclusiveRunning, cancellationBarriers, state)
  BY DEF Inv
<1>3. /\ state' \in [Items -> States]
      /\ \A j \in Items : state'[j] = IF state[j] = "queued" THEN "settled" ELSE state[j]
  BY <1>1, InvFacts DEF States
<1>4. queue' \in Seq(Items) /\ Len(queue') = 0 /\ Queued(queue') = {} /\ Distinct(queue')
  BY <1>1 DEF Queued, Distinct
<1>5. /\ RunningIn(state') = RunningIn(state)
      /\ {j \in Items : state'[j] \in {"running", "cancelling"}}
           = {j \in Items : state[j] \in {"running", "cancelling"}}
      /\ {j \in Items : state'[j] = "cancelling"} = {j \in Items : state[j] = "cancelling"}
      /\ \A j \in Items : state'[j] # "queued"
  BY <1>3 DEF RunningIn
<1>6. Consistent(queue', activeItems, exclusiveRunning, cancellationBarriers, state')
  BY <1>2, <1>3, <1>4, <1>5 DEF Consistent
<1>7. Consistent(queue, activeItems, exclusiveRunning, cancellationBarriers, state)'
  BY <1>1, <1>6 DEF Consistent, Distinct, Queued, RunningIn
<1>8. /\ reply' \in [Items -> Replies \cup {None}]
      /\ \A j \in Items : state'[j] = "settled" => reply'[j] # None
  BY <1>1, <1>3, InvFacts, NoReplyAssumption DEF Inv, Replies
<1>9. ShutdownInv' /\ DrainIsHonest' /\ NoLostWakeup'
  BY <1>1 DEF Inv, ShutdownInv, DrainIsHonest, NoLostWakeup
<1>10. (Len(queue) <= MaxQueue)'
  BY <1>4, ConstantsAssumption
<1> QED
  BY <1>1, <1>7, <1>8, <1>9, <1>10 DEF Inv

LEMMA CancellationReleasedInv ==
  ASSUME Inv, NEW i \in Items, CancellationReleased(i) PROVE Inv'
<1> DEFINE active == activeItems \ {i}
           barriers == cancellationBarriers - 1
           st == [state EXCEPT ![i] = "settled"]
<1>1. /\ state[i] = "cancelling" /\ reply[i] # None
      /\ cancellationBarriers' = barriers
      /\ UNCHANGED <<accepting, cancelled, reply>>
  BY DEF CancellationReleased
<1>2. Consistent(queue, activeItems, exclusiveRunning, cancellationBarriers, state)
  BY DEF Inv
<1>3. Consistent(queue, active, exclusiveRunning, barriers, st)
  BY <1>1, <1>2, ReleaseConsistent
<1>4. \A j \in Items : st[j] = "settled" => state[j] = "settled" \/ j = i
  BY InvFacts
<1>5. accepting \in BOOLEAN /\ activeItems # {}
  BY <1>1, InvFacts DEF Inv
<1>6. CASE accepting
  <2>1. /\ Pump(queue, active, exclusiveRunning, cancellationBarriers', st)
        /\ closing' = closing
    BY <1>6 DEF CancellationReleased
  <2>2. Pump(queue, active, exclusiveRunning, barriers, st)
    BY <1>1, <2>1
  <2> HIDE DEF active, barriers, st
  <2>3. /\ Consistent(queue, activeItems, exclusiveRunning, cancellationBarriers, state)'
        /\ (Len(queue) <= MaxQueue)' /\ NoLostWakeup'
        /\ \A j \in Items : state'[j] = st[j] \/ state'[j] = "running"
    BY <1>1, <1>3, <2>2, PumpInv DEF Inv
  <2>4. \A j \in Items : state'[j] = "settled" => reply'[j] # None
    BY <1>1, <1>4, <2>3 DEF Inv
  <2>5. ShutdownInv' /\ DrainIsHonest'
    BY <1>1, <1>6, <2>1 DEF Inv, ShutdownInv, DrainIsHonest
  <2> QED
    BY <1>1, <2>1, <2>3, <2>4, <2>5 DEF Inv
<1>7. CASE ~accepting
  <2>1. /\ state' = st /\ activeItems' = active
        /\ closing' = ResolveDrain(queue, activeItems', closing)
        /\ UNCHANGED <<queue, exclusiveRunning>>
    BY <1>7 DEF CancellationReleased
  <2> HIDE DEF active, barriers, st
  <2>2. Consistent(queue', activeItems', exclusiveRunning', cancellationBarriers', state')
    BY <1>1, <1>3, <2>1
  <2>3. Consistent(queue, activeItems, exclusiveRunning, cancellationBarriers, state)'
    BY <2>2 DEF Consistent, Distinct, Queued, RunningIn
  <2>4. \A j \in Items : state'[j] = "settled" => reply'[j] # None
    BY <1>1, <1>4, <2>1 DEF Inv
  <2>5. /\ closing' \in [Closers -> {"open", "draining", "closed"}]
        /\ \A k \in Closers : closing'[k] # "open" => closing[k] # "open"
        /\ \A k \in Closers : closing'[k] = "closed" =>
             closing[k] = "closed" \/ (queue' = <<>> /\ activeItems' = {})
    BY <2>1, ResolveDrainFacts DEF Inv
  <2>6. ShutdownInv' /\ NoLostWakeup'
    BY <1>1, <1>7, <2>1, <2>5 DEF Inv, ShutdownInv, NoLostWakeup
  <2>7. DrainIsHonest'
    BY <1>1, <1>5, <1>7, <2>5 DEF Inv, DrainIsHonest
  <2>8. (Len(queue) <= MaxQueue)'
    BY <2>1 DEF Inv
  <2> QED
    BY <1>1, <2>1, <2>3, <2>4, <2>5, <2>6, <2>7, <2>8 DEF Inv
<1> QED
  BY <1>5, <1>6, <1>7
LEMMA CloseInv ==
  ASSUME Inv, NEW k \in Closers, Close(k) PROVE Inv'
<1>1. PICK mode \in CloseModes :
        LET withdrawn == IF mode.cancelQueued THEN Queued(queue) \ NonCancellable ELSE {}
        IN  /\ closing[k] = "open" /\ accepting' = FALSE
            /\ cancellationBarriers' = cancellationBarriers + Cardinality(withdrawn)
            /\ IF mode.cancelQueued
               THEN Pump(Withdraw(withdrawn, queue), activeItems \cup withdrawn, exclusiveRunning,
                         cancellationBarriers + Cardinality(withdrawn),
                         [i \in Items |-> IF i \in withdrawn THEN "cancelling" ELSE state[i]])
               ELSE UNCHANGED <<queue, activeItems, exclusiveRunning, state>>
            /\ cancelled' = cancelled \cup withdrawn \cup
                  (IF mode.cancelRunning THEN activeItems' \ NonCancellable ELSE {})
            /\ closing' = [closing EXCEPT ![k] =
                  IF queue' = <<>> /\ activeItems' = {} THEN "closed" ELSE "draining"]
            /\ UNCHANGED reply
  BY DEF Close
<1> DEFINE withdrawn == IF mode.cancelQueued THEN Queued(queue) \ NonCancellable ELSE {}
           left == Withdraw(withdrawn, queue)
           active == activeItems \cup withdrawn
           barriers == cancellationBarriers + Cardinality(withdrawn)
           marked == [i \in Items |-> IF i \in withdrawn THEN "cancelling" ELSE state[i]]
<1>2. Consistent(queue, activeItems, exclusiveRunning, cancellationBarriers, state)
  BY DEF Inv
<1>3. withdrawn \subseteq Queued(queue) /\ withdrawn \subseteq Items \ NonCancellable
  BY InvFacts DEF Queued
<1>4. Consistent(left, active, exclusiveRunning, barriers, marked)
  BY <1>2, <1>3, WithdrawConsistent
<1>5. left \in Seq(Items) /\ Len(left) <= Len(queue)
  <2>1. Distinct(queue)
    BY <1>2 DEF Consistent
  <2> QED
    BY <2>1, InvFacts, WithdrawFacts
<1>6. Len(left) <= MaxQueue
  BY <1>5, InvFacts, ConstantsAssumption DEF Inv
<1>7. \A i \in Items : marked[i] = "settled" => state[i] = "settled"
  OBVIOUS
<1>8. queue = <<>> => left = <<>> /\ active = activeItems
  BY <1>3, <1>5 DEF Queued
<1>9. /\ closing[k] = "open" /\ accepting' = FALSE
      /\ cancellationBarriers' = barriers
      /\ IF mode.cancelQueued
         THEN Pump(left, active, exclusiveRunning, barriers, marked)
         ELSE UNCHANGED <<queue, activeItems, exclusiveRunning, state>>
      /\ cancelled' = cancelled \cup withdrawn \cup
            (IF mode.cancelRunning THEN activeItems' \ NonCancellable ELSE {})
      /\ closing' = [closing EXCEPT ![k] =
            IF queue' = <<>> /\ activeItems' = {} THEN "closed" ELSE "draining"]
      /\ UNCHANGED reply
  BY <1>1
<1>10. ~mode.cancelQueued => barriers = cancellationBarriers
  BY FS_EmptySet, InvFacts
<1>11. /\ Consistent(queue, activeItems, exclusiveRunning, cancellationBarriers, state)'
       /\ (Len(queue) <= MaxQueue)' /\ NoLostWakeup'
       /\ \A i \in Items : state'[i] = "settled" => state[i] = "settled"
       /\ queue = <<>> => queue' = <<>> /\ activeItems' = activeItems
       /\ activeItems' \in SUBSET Items
  <2> HIDE DEF withdrawn, left, active, barriers, marked
  <2>1. CASE mode.cancelQueued
    <3>1. /\ Pump(left, active, exclusiveRunning, barriers, marked)
          /\ cancellationBarriers' = barriers
      BY <1>9, <2>1
    <3>2. /\ Consistent(queue, activeItems, exclusiveRunning, cancellationBarriers, state)'
          /\ (Len(queue) <= MaxQueue)' /\ NoLostWakeup'
          /\ \A i \in Items : state'[i] = marked[i] \/ state'[i] = "running"
      BY <1>4, <1>6, <3>1, PumpInv
    <3>3. /\ left = <<>> => queue' = <<>> /\ activeItems' = active
          /\ activeItems' \in SUBSET Items
      BY <1>4, <3>1, PumpShortens
    <3> QED
      BY <1>7, <1>8, <3>2, <3>3
  <2>2. CASE ~mode.cancelQueued
    <3>1. /\ UNCHANGED <<queue, activeItems, exclusiveRunning, state>>
          /\ cancellationBarriers' = cancellationBarriers
      BY <1>9, <1>10, <2>2
    <3>2. Consistent(queue, activeItems, exclusiveRunning, cancellationBarriers, state)'
      BY <1>2, <3>1 DEF Consistent, Distinct, Queued, RunningIn
    <3>3. NoLostWakeup' /\ (Len(queue) <= MaxQueue)'
      BY <1>9, <3>1 DEF NoLostWakeup, Inv
    <3> QED
      BY <3>1, <3>2, <3>3, InvFacts
  <2> QED
    BY <2>1, <2>2
<1>12. cancelled' \subseteq Items \ NonCancellable
  BY <1>3, <1>9, <1>11 DEF Inv
<1>13. /\ closing' \in [Closers -> {"open", "draining", "closed"}]
       /\ \A c \in Closers : closing'[c] = "closed" =>
            closing[c] = "closed" \/ (queue' = <<>> /\ activeItems' = {})
  BY <1>9 DEF Inv
<1>14. ShutdownInv'
  BY <1>9, <1>11 DEF Inv, ShutdownInv
<1>15. DrainIsHonest'
  BY <1>9, <1>11, <1>13 DEF Inv, DrainIsHonest
<1>16. \A i \in Items : state'[i] = "settled" => reply'[i] # None
  BY <1>9, <1>11 DEF Inv
<1> QED
  BY <1>9, <1>11, <1>12, <1>13, <1>14, <1>15, <1>16 DEF Inv

LEMMA InvStep == Inv /\ [Next]_vars => Inv'
<1> SUFFICES ASSUME Inv, [Next]_vars PROVE Inv'
  OBVIOUS
<1>1. ASSUME NEW i \in Items, CallerStep(i)
      PROVE  Inv'
  BY <1>1, RejectInv, EnqueueInv, EnqueueAbortedInv, CancelQueuedInv, AnswerInv DEF CallerStep
<1>2. ASSUME NEW i \in Items, Continuation(i)
      PROVE  Inv'
  BY <1>2, AnswerInv, ReleaseInv, CancellationFailsInv, CancellationReleasedInv DEF Continuation
<1>3. CASE UNCHANGED vars
  <2>1. Consistent(queue, activeItems, exclusiveRunning, cancellationBarriers, state)'
    BY <1>3 DEF vars, Inv, Consistent, Distinct, Queued, RunningIn
  <2> QED
    BY <1>3, <2>1 DEF vars, Inv, ShutdownInv, DrainIsHonest, NoLostWakeup
<1> QED
  BY <1>1, <1>2, <1>3, CloseInv DEF Next

LEMMA Invariant == Spec => []Inv
BY InitInv, InvStep, PTL DEF Spec

-----------------------------------------------------------------------------
(* What the scheduler promises.                                            *)

\* Every variable keeps its type, and the barriers never outnumber the items.
THEOREM TypeCorrect == Spec => []TypeOK
<1>1. ASSUME Inv PROVE TypeOK
  <2>1. Consistent(queue, activeItems, exclusiveRunning, cancellationBarriers, state)
    BY <1>1 DEF Inv
  <2>2. cancellationBarriers \in 0..Cardinality(Items)
    <3>1. CancellingIn(state) \in SUBSET Items
      BY DEF CancellingIn
    <3>2. /\ Cardinality(CancellingIn(state)) \in Nat /\ Cardinality(Items) \in Nat
          /\ Cardinality(CancellingIn(state)) <= Cardinality(Items)
      BY <3>1, FiniteItems, ConstantsAssumption, FS_Subset
    <3>3. cancellationBarriers = Cardinality(CancellingIn(state))
      BY <2>1, ConsistentFacts
    <3> QED
      BY <3>2, <3>3
  <2> QED
    BY <1>1, <2>2, InvFacts DEF TypeOK, Inv
<1> QED
  BY <1>1, Invariant, PTL

\* However calls, completions and cancellations interleave, an exclusive item
\* runs alone and the concurrency limit holds.
THEOREM Isolation == Spec => []ExclusiveIsolation
<1>1. ASSUME Inv PROVE ExclusiveIsolation
  BY <1>1 DEF Inv, Consistent, ExclusiveIsolation, RunningIn, Running
<1> QED
  BY <1>1, Invariant, PTL

\* Queue, active set, exclusive flag and barrier count always say the same of
\* an item as its own state.
THEOREM BooksAgree == Spec => []Bookkeeping
<1>1. ASSUME Inv PROVE Bookkeeping
  <2>1. Consistent(queue, activeItems, exclusiveRunning, cancellationBarriers, state)
    BY <1>1 DEF Inv
  <2>2. Cardinality(Queued(queue)) = Len(queue)
    BY <2>1, DistinctCardinality DEF Consistent
  <2> QED
    BY <1>1, <2>1, <2>2 DEF Consistent, Inv, Bookkeeping, RunningIn, Running
<1> QED
  BY <1>1, Invariant, PTL

\* Whatever the pump leaves queued waits for something still there.
THEOREM WakeupsKept == Spec => []NoLostWakeup
<1>1. Inv => NoLostWakeup
  BY DEF Inv
<1> QED
  BY <1>1, Invariant, PTL

\* No closer is told of a drain that has not happened.
THEOREM DrainsAreHonest == Spec => []DrainIsHonest
<1>1. Inv => DrainIsHonest
  BY DEF Inv
<1> QED
  BY <1>1, Invariant, PTL
-----------------------------------------------------------------------------
(* The durability barrier.                                                 *)

\* A cancellation the port has not answered, or failed to record.
Withheld == \E i \in Items : (state[i] = "cancelling" /\ reply[i] = None) \/ reply[i] = "failed"

\* Nothing starts.
NoStart == \A i \in Items : state[i] # "running" => state'[i] # "running"

LEMMA WithheldFacts ==
  ASSUME Inv, Withheld
  PROVE  cancellationBarriers > 0 \/ (queue = <<>> /\ ~accepting)
BY InvFacts DEF Withheld, Inv, ShutdownInv

\* Withdrawing from a queue leaves nothing of an empty one.
LEMMA WithdrawEmpty == ASSUME NEW S PROVE Withdraw(S, <<>>) = <<>>
<1>1. <<>> \in Seq(Items) /\ Distinct(<<>>)
  BY DEF Distinct
<1>2. Withdraw(S, <<>>) \in Seq(Items) /\ Len(Withdraw(S, <<>>)) <= Len(<<>>)
  BY <1>1, WithdrawFacts
<1> QED
  BY <1>2

LEMMA EnqueueHeld ==
  ASSUME Inv, Withheld, NEW i \in Items, Enqueue(i) PROVE NoStart
<1> DEFINE q == Append(queue, i)
           st == [state EXCEPT ![i] = "queued"]
<1>1. /\ state[i] = "new" /\ accepting
      /\ Pump(q, activeItems, exclusiveRunning, cancellationBarriers, st)
  BY DEF Enqueue
<1>2. Consistent(q, activeItems, exclusiveRunning, cancellationBarriers, st)
  BY <1>1, JoinConsistent DEF Inv
<1>3. \A j \in Items : st[j] = "running" => state[j] = "running"
  BY InvFacts
<1> HIDE DEF q, st
<1>4. cancellationBarriers > 0
  BY <1>1, WithheldFacts
<1>5. \A j \in Items : state'[j] = st[j]
  BY <1>1, <1>2, <1>4, PumpHolds
<1> QED
  BY <1>3, <1>5 DEF NoStart

LEMMA ReleaseHeld ==
  ASSUME Inv, Withheld, NEW i \in Items, Release(i) PROVE NoStart
<1> DEFINE exclusive == exclusiveRunning /\ i \notin Exclusive
           active == activeItems \ {i}
           st == [state EXCEPT ![i] = "settled"]
<1>1. state[i] = "running" /\ Pump(queue, active, exclusive, cancellationBarriers, st)
  BY DEF Release
<1>2. Consistent(queue, active, exclusive, cancellationBarriers, st)
  BY <1>1, FinishConsistent DEF Inv
<1>3. \A j \in Items : st[j] = "running" => state[j] = "running"
  BY InvFacts
<1> HIDE DEF active, exclusive, st
<1>4. cancellationBarriers > 0 \/ queue = <<>>
  BY WithheldFacts
<1>5. \A j \in Items : state'[j] = st[j]
  BY <1>1, <1>2, <1>4, PumpHolds
<1> QED
  BY <1>3, <1>5 DEF NoStart

LEMMA CancellationReleasedHeld ==
  ASSUME Inv, Withheld, NEW i \in Items, CancellationReleased(i) PROVE NoStart
<1> DEFINE active == activeItems \ {i}
           barriers == cancellationBarriers - 1
           st == [state EXCEPT ![i] = "settled"]
<1>1. state[i] = "cancelling" /\ reply[i] # None /\ cancellationBarriers' = barriers
  BY DEF CancellationReleased
<1>2. Consistent(queue, active, exclusiveRunning, barriers, st)
  BY <1>1, ReleaseConsistent DEF Inv
<1>3. \A j \in Items : st[j] = "running" => state[j] = "running"
  BY InvFacts
<1>4. CASE accepting
  <2>1. Pump(queue, active, exclusiveRunning, barriers, st)
    BY <1>1, <1>4 DEF CancellationReleased
  <2>2. PICK j \in Items : state[j] = "cancelling" /\ reply[j] = None
    BY <1>4 DEF Withheld, Inv, ShutdownInv
  <2>3. j \in CancellingIn(st)
    BY <1>1, <2>2, InvFacts DEF CancellingIn
  <2> HIDE DEF active, barriers, st
  <2>4. barriers > 0
    <3>1. IsFiniteSet(CancellingIn(st)) /\ barriers = Cardinality(CancellingIn(st))
          /\ barriers \in Nat
      BY <1>2, ConsistentFacts
    <3>2. barriers # 0
      BY <2>3, <3>1, FS_EmptySet
    <3> QED
      BY <3>1, <3>2
  <2>5. \A l \in Items : state'[l] = st[l]
    BY <1>2, <2>1, <2>4, PumpHolds
  <2> QED
    BY <1>3, <2>5 DEF NoStart
<1>5. CASE ~accepting
  BY <1>3, <1>5 DEF CancellationReleased, NoStart
<1> QED
  BY <1>4, <1>5

LEMMA CloseHeld ==
  ASSUME Inv, Withheld, NEW k \in Closers, Close(k) PROVE NoStart
<1>1. PICK mode \in CloseModes :
        LET withdrawn == IF mode.cancelQueued THEN Queued(queue) \ NonCancellable ELSE {}
        IN  IF mode.cancelQueued
            THEN Pump(Withdraw(withdrawn, queue), activeItems \cup withdrawn, exclusiveRunning,
                      cancellationBarriers + Cardinality(withdrawn),
                      [i \in Items |-> IF i \in withdrawn THEN "cancelling" ELSE state[i]])
            ELSE UNCHANGED <<queue, activeItems, exclusiveRunning, state>>
  BY DEF Close
<1> DEFINE withdrawn == Queued(queue) \ NonCancellable
           left == Withdraw(withdrawn, queue)
           active == activeItems \cup withdrawn
           barriers == cancellationBarriers + Cardinality(withdrawn)
           marked == [i \in Items |-> IF i \in withdrawn THEN "cancelling" ELSE state[i]]
<1>2. CASE mode.cancelQueued
  <2>1. Pump(left, active, exclusiveRunning, barriers, marked)
    BY <1>1, <1>2
  <2>2. withdrawn \subseteq Queued(queue) /\ withdrawn \in SUBSET Items
    BY InvFacts DEF Queued
  <2>3. Consistent(left, active, exclusiveRunning, barriers, marked)
    BY <2>2, WithdrawConsistent DEF Inv
  <2>4. barriers > 0 \/ left = <<>>
    <3>1. Cardinality(withdrawn) \in Nat /\ cancellationBarriers \in Nat
      BY <2>2, FiniteItems, InvFacts
    <3>2. cancellationBarriers > 0 \/ queue = <<>>
      BY WithheldFacts
    <3>3. CASE cancellationBarriers > 0
      BY <3>1, <3>3
    <3>4. CASE queue = <<>>
      BY <3>4, WithdrawEmpty
    <3> QED
      BY <3>2, <3>3, <3>4
  <2>5. \A i \in Items : marked[i] = "running" => state[i] = "running"
    OBVIOUS
  <2> HIDE DEF withdrawn, left, active, barriers, marked
  <2>6. \A i \in Items : state'[i] = marked[i]
    BY <2>1, <2>3, <2>4, PumpHolds
  <2> QED
    BY <2>5, <2>6 DEF NoStart
<1>3. CASE ~mode.cancelQueued
  BY <1>1, <1>3 DEF NoStart
<1> QED
  BY <1>2, <1>3

\* The actions that do not pump start nothing at any time.
LEMMA QuietSteps ==
  ASSUME Inv, NEW i \in Items,
         \/ EnqueueAborted(i) \/ Reject(i) \/ CancelQueued(i) \/ CancelRunning(i)
         \/ PortAnswers(i) \/ CancellationPersisted(i) \/ CancellationFails(i)
  PROVE  NoStart
BY InvFacts DEF NoStart, EnqueueAborted, Reject, CancelQueued, CancelRunning, PortAnswers,
   CancellationPersisted, CancellationFails

\* While a queued cancellation is not durably answered, or once one has
\* failed, no item starts.
THEOREM BarrierHolds == Spec => CancellationIsBarrier
<1>1. Inv /\ [Next]_vars => BarrierStep
  <2> SUFFICES ASSUME Inv, [Next]_vars, Withheld PROVE NoStart
    BY DEF BarrierStep, Withheld, NoStart
  <2>1. ASSUME NEW i \in Items, CallerStep(i)
        PROVE  NoStart
    BY <2>1, EnqueueHeld, QuietSteps DEF CallerStep
  <2>2. ASSUME NEW i \in Items, Continuation(i)
        PROVE  NoStart
    BY <2>2, ReleaseHeld, CancellationReleasedHeld, QuietSteps DEF Continuation
  <2>3. CASE UNCHANGED vars
    BY <2>3 DEF vars, NoStart
  <2> QED
    BY <2>1, <2>2, <2>3, CloseHeld DEF Next
<1> QED
  BY <1>1, Invariant, PTL DEF Spec, CancellationIsBarrier
-----------------------------------------------------------------------------
(* The order of the queue.                                                 *)

\* Pumping a queue that holds the old one in its order, but for withdrawn
\* items, lets nothing overtake.
LEMMA PumpFifo ==
  ASSUME NEW q, NEW active, NEW exclusive, NEW barriers, NEW st,
         Consistent(q, active, exclusive, barriers, st),
         Pump(q, active, exclusive, barriers, st),
         queue \in Seq(Items), KeepsOrder(queue, q),
         \A i \in Queued(queue) : i \in Queued(q) \/ st[i] = "cancelling"
  PROVE  FifoStep
<1> DEFINE n == StartCount(q, active, exclusive, barriers)
           started == StartedBy(q, active, exclusive, barriers)
<1>1. /\ q \in Seq(Items) /\ Distinct(q) /\ active \in SUBSET Items
      /\ exclusive \in BOOLEAN /\ barriers \in Nat /\ st \in [Items -> States]
  BY ConsistentFacts
<1>2. StartsPrefix(q, active, exclusive, st, n, started)
  BY <1>1, PumpFacts
<1> HIDE DEF n, started
<1>3. /\ n \in 0..Len(q) /\ started = {q[i] : i \in 1..n}
      /\ queue' \in Seq(Items) /\ Len(queue') = Len(q) - n
      /\ \A i \in 1..Len(queue') : queue'[i] = q[n + i]
      /\ Queued(queue') = Queued(q) \ started
      /\ \A i \in Items : state'[i] = IF i \in started THEN "running" ELSE st[i]
  BY <1>2 DEF StartsPrefix
<1>4. \A i \in Items : st[i] = "queued" <=> i \in Queued(q)
  BY DEF Consistent
<1>5. \A x \in 1..Len(q) : q[x] \in started <=> x <= n
  <2>1. \A i \in 1..n : i \in 1..Len(q) /\ i <= n
    BY <1>3
  <2>2. \A x \in 1..Len(q) : x <= n => x \in 1..n
    BY <1>3
  <2> QED
    BY <1>1, <1>3, <2>1, <2>2 DEF Distinct
<1>6. \A m \in 1..Len(queue) : queue[m] \in Items /\ queue[m] \in Queued(queue)
  BY DEF Queued
<1>7. ASSUME NEW l \in 1..Len(queue), NEW m \in 1..Len(queue), l < m
      PROVE  /\ state'[queue[m]] = "running" => state'[queue[l]] # "queued"
             /\ {queue[l], queue[m]} \subseteq Queued(queue') =>
                  \E x, y \in 1..Len(queue') :
                    x < y /\ queue'[x] = queue[l] /\ queue'[y] = queue[m]
  <2>1. {queue[l], queue[m]} \subseteq Queued(q) =>
          \E x, y \in 1..Len(q) : x < y /\ q[x] = queue[l] /\ q[y] = queue[m]
    BY <1>7 DEF KeepsOrder
  <2>2. ASSUME state'[queue[m]] = "running", state'[queue[l]] = "queued"
        PROVE  FALSE
    <3>1. queue[l] \in Queued(q) /\ queue[l] \notin started
      BY <1>3, <1>4, <1>6, <2>2
    <3>2. queue[m] \in started
      BY <1>3, <1>4, <1>6, <2>2
    <3>3. queue[m] \in Queued(q)
      BY <1>2, <3>2 DEF StartsPrefix
    <3>4. PICK x \in 1..Len(q), y \in 1..Len(q) : x < y /\ q[x] = queue[l] /\ q[y] = queue[m]
      BY <2>1, <3>1, <3>3
    <3>5. y <= n /\ ~(x <= n)
      BY <1>5, <3>1, <3>2, <3>4
    <3> QED
      BY <1>3, <3>4, <3>5
  <2>3. ASSUME {queue[l], queue[m]} \subseteq Queued(queue')
        PROVE  \E x, y \in 1..Len(queue') :
                 x < y /\ queue'[x] = queue[l] /\ queue'[y] = queue[m]
    <3>1. PICK x \in 1..Len(q), y \in 1..Len(q) : x < y /\ q[x] = queue[l] /\ q[y] = queue[m]
      BY <1>3, <2>1, <2>3
    <3>2. ~(x <= n) /\ ~(y <= n)
      BY <1>3, <1>5, <2>3, <3>1
    <3>3. /\ x - n \in 1..Len(queue') /\ y - n \in 1..Len(queue') /\ x - n < y - n
          /\ n + (x - n) = x /\ n + (y - n) = y
      BY <1>1, <1>3, <3>1, <3>2
    <3>4. queue'[x - n] = queue[l] /\ queue'[y - n] = queue[m]
      BY <1>3, <3>1, <3>3
    <3> QED
      BY <3>3, <3>4
  <2> QED
    BY <2>2, <2>3
<1> QED
  BY <1>7 DEF FifoStep

\* A queue keeps its own order, also with something behind it.
LEMMA SameOrder ==
  ASSUME NEW q \in Seq(Items)
  PROVE  KeepsOrder(q, q) /\ \A i \in Items : KeepsOrder(q, Append(q, i))
<1>1. KeepsOrder(q, q)
  BY DEF KeepsOrder
<1>2. ASSUME NEW i \in Items
      PROVE  KeepsOrder(q, Append(q, i))
  <2>1. \A m \in 1..Len(q) : m \in 1..Len(Append(q, i)) /\ Append(q, i)[m] = q[m]
    OBVIOUS
  <2> QED
    BY <2>1 DEF KeepsOrder
<1> QED
  BY <1>1, <1>2

\* A step that starts nothing and keeps the order lets nothing overtake.
LEMMA QuietFifo ==
  ASSUME Inv, NoStart, KeepsOrder(queue, queue')
  PROVE  FifoStep
<1>1. \A m \in 1..Len(queue) : queue[m] \in Items /\ state[queue[m]] = "queued"
  BY InvFacts DEF Queued
<1>2. \A m \in 1..Len(queue) : state'[queue[m]] # "running"
  BY <1>1 DEF NoStart
<1> QED
  BY <1>2 DEF FifoStep, KeepsOrder

LEMMA EnqueueFifo ==
  ASSUME Inv, NEW i \in Items, Enqueue(i) PROVE FifoStep
<1> DEFINE q == Append(queue, i)
           st == [state EXCEPT ![i] = "queued"]
<1>1. /\ state[i] = "new"
      /\ Pump(q, activeItems, exclusiveRunning, cancellationBarriers, st)
  BY DEF Enqueue
<1>2. Consistent(q, activeItems, exclusiveRunning, cancellationBarriers, st)
  BY <1>1, JoinConsistent DEF Inv
<1>3. queue \in Seq(Items) /\ KeepsOrder(queue, q)
  BY InvFacts, SameOrder
<1>4. \A j \in Queued(queue) : j \in Queued(q)
  <2>1. \A m \in 1..Len(queue) : m \in 1..Len(q) /\ q[m] = queue[m]
    BY <1>3
  <2> QED
    BY <2>1 DEF Queued
<1> HIDE DEF q, st
<1> QED
  BY <1>1, <1>2, <1>3, <1>4, PumpFifo

LEMMA ReleaseFifo ==
  ASSUME Inv, NEW i \in Items, Release(i) PROVE FifoStep
<1> DEFINE exclusive == exclusiveRunning /\ i \notin Exclusive
           active == activeItems \ {i}
           st == [state EXCEPT ![i] = "settled"]
<1>1. state[i] = "running" /\ Pump(queue, active, exclusive, cancellationBarriers, st)
  BY DEF Release
<1>2. Consistent(queue, active, exclusive, cancellationBarriers, st)
  BY <1>1, FinishConsistent DEF Inv
<1>3. queue \in Seq(Items) /\ KeepsOrder(queue, queue)
  BY InvFacts, SameOrder
<1> HIDE DEF active, exclusive, st
<1> QED
  BY <1>1, <1>2, <1>3, PumpFifo

LEMMA CancellationReleasedFifo ==
  ASSUME Inv, NEW i \in Items, CancellationReleased(i) PROVE FifoStep
<1> DEFINE active == activeItems \ {i}
           barriers == cancellationBarriers - 1
           st == [state EXCEPT ![i] = "settled"]
<1>1. state[i] = "cancelling" /\ cancellationBarriers' = barriers
  BY DEF CancellationReleased
<1>2. Consistent(queue, active, exclusiveRunning, barriers, st)
  BY <1>1, ReleaseConsistent DEF Inv
<1>3. queue \in Seq(Items) /\ KeepsOrder(queue, queue)
  BY InvFacts, SameOrder
<1>4. CASE accepting
  <2>1. Pump(queue, active, exclusiveRunning, barriers, st)
    BY <1>1, <1>4 DEF CancellationReleased
  <2> HIDE DEF active, barriers, st
  <2> QED
    BY <1>2, <1>3, <2>1, PumpFifo
<1>5. CASE ~accepting
  <2>1. UNCHANGED queue /\ NoStart
    BY <1>5, InvFacts DEF CancellationReleased, NoStart
  <2> QED
    BY <1>3, <2>1, QuietFifo
<1> QED
  BY <1>4, <1>5

LEMMA CloseFifo ==
  ASSUME Inv, NEW k \in Closers, Close(k) PROVE FifoStep
<1>1. PICK mode \in CloseModes :
        LET withdrawn == IF mode.cancelQueued THEN Queued(queue) \ NonCancellable ELSE {}
        IN  IF mode.cancelQueued
            THEN Pump(Withdraw(withdrawn, queue), activeItems \cup withdrawn, exclusiveRunning,
                      cancellationBarriers + Cardinality(withdrawn),
                      [i \in Items |-> IF i \in withdrawn THEN "cancelling" ELSE state[i]])
            ELSE UNCHANGED <<queue, activeItems, exclusiveRunning, state>>
  BY DEF Close
<1> DEFINE withdrawn == Queued(queue) \ NonCancellable
           left == Withdraw(withdrawn, queue)
           active == activeItems \cup withdrawn
           barriers == cancellationBarriers + Cardinality(withdrawn)
           marked == [i \in Items |-> IF i \in withdrawn THEN "cancelling" ELSE state[i]]
<1>2. CASE mode.cancelQueued
  <2>1. Pump(left, active, exclusiveRunning, barriers, marked)
    BY <1>1, <1>2
  <2>2. withdrawn \subseteq Queued(queue) /\ withdrawn \in SUBSET Items
    BY InvFacts DEF Queued
  <2>3. Consistent(left, active, exclusiveRunning, barriers, marked)
    BY <2>2, WithdrawConsistent DEF Inv
  <2>4. queue \in Seq(Items) /\ Distinct(queue)
    BY DEF Inv, Consistent
  <2>5. KeepsOrder(queue, left) /\ Queued(left) = Queued(queue) \ withdrawn
    BY <2>4, WithdrawFacts
  <2>6. \A i \in withdrawn : marked[i] = "cancelling"
    BY <2>2
  <2> HIDE DEF withdrawn, left, active, barriers, marked
  <2>7. \A i \in Queued(queue) : i \in Queued(left) \/ marked[i] = "cancelling"
    BY <2>5, <2>6
  <2> QED
    BY <2>1, <2>3, <2>4, <2>5, <2>7, PumpFifo
<1>3. CASE ~mode.cancelQueued
  <2>1. UNCHANGED queue /\ NoStart
    BY <1>1, <1>3 DEF NoStart
  <2> QED
    BY <2>1, InvFacts, SameOrder, QuietFifo
<1> QED
  BY <1>2, <1>3

\* The actions that do not pump keep the order.
LEMMA QuietOrder ==
  ASSUME Inv, NEW i \in Items,
         \/ EnqueueAborted(i) \/ Reject(i) \/ CancelQueued(i) \/ CancelRunning(i)
         \/ PortAnswers(i) \/ CancellationPersisted(i) \/ CancellationFails(i)
  PROVE  FifoStep
<1>1. queue \in Seq(Items) /\ Distinct(queue) /\ KeepsOrder(queue, queue)
  BY SameOrder DEF Inv, Consistent
<1>2. CASE CancelQueued(i)
  <2>1. KeepsOrder(queue, queue')
    BY <1>1, <1>2, WithdrawFacts DEF CancelQueued
  <2> QED
    BY <1>2, <2>1, QuietSteps, QuietFifo
<1>3. CASE CancellationFails(i)
  <2>1. Queued(queue') = {}
    BY <1>3 DEF CancellationFails, Queued
  <2>2. KeepsOrder(queue, queue')
    BY <2>1 DEF KeepsOrder
  <2> QED
    BY <1>3, <2>2, QuietSteps, QuietFifo
<1>4. CASE \/ EnqueueAborted(i) \/ Reject(i) \/ CancelRunning(i)
           \/ PortAnswers(i) \/ CancellationPersisted(i)
  <2>1. queue' = queue
    BY <1>4 DEF EnqueueAborted, Reject, CancelRunning, PortAnswers, CancellationPersisted
  <2>2. NoStart
    BY <1>4, QuietSteps
  <2> QED
    BY <1>1, <2>1, <2>2, QuietFifo
<1> QED
  BY <1>2, <1>3, <1>4

\* No item starts before an older one that stays queued, and what stays queued
\* keeps its order.
THEOREM FifoHolds == Spec => NothingOvertakes
<1>1. Inv /\ [Next]_vars => FifoStep
  <2> SUFFICES ASSUME Inv, [Next]_vars PROVE FifoStep
    OBVIOUS
  <2>1. ASSUME NEW i \in Items, CallerStep(i)
        PROVE  FifoStep
    BY <2>1, EnqueueFifo, QuietOrder DEF CallerStep
  <2>2. ASSUME NEW i \in Items, Continuation(i)
        PROVE  FifoStep
    BY <2>2, ReleaseFifo, CancellationReleasedFifo, QuietOrder DEF Continuation
  <2>3. CASE UNCHANGED vars
    <3>1. UNCHANGED queue /\ NoStart
      BY <2>3 DEF vars, NoStart
    <3> QED
      BY <3>1, InvFacts, SameOrder, QuietFifo
  <2> QED
    BY <2>1, <2>2, <2>3, CloseFifo DEF Next
<1> QED
  BY <1>1, Invariant, PTL DEF Spec, NothingOvertakes
=============================================================================
