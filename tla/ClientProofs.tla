---------------------------- MODULE ClientProofs ----------------------------
(***************************************************************************)
(* What the client asks of the node and what it makes of the answers: the  *)
(* recent blocks, for any window, any concurrency and any tip              *)
(* (RecentBlocks), the requests and documents of Answers, whatever the     *)
(* ages and sizes that Requests leaves open, and Readings: the calls, for  *)
(* any amounts and identifiers, the sums and charts of a sample, and the   *)
(* sections of a block page and what a payload is called.                  *)
(***************************************************************************)
EXTENDS RecentBlocks, Answers, Readings, TLAPS, FiniteSetTheorems, SequenceTheorems, WellFoundedInduction

(* RecentBlocks: every block of the window, once.                             *)
-----------------------------------------------------------------------------
Polled == phase \in {"pool", "done"}

\* Nothing is stored before the tip is known, and nothing is under way at the end.
PhasesFit ==
  /\ phase = "tip" => stored = {} /\ failed = {}
  /\ phase = "done" => Busy = {}

\* The counter is ahead of every worker, also of those that have returned.
CounterAhead == Polled => \A w \in Workers : worker[w] < next

\* What is stored is the block of that index, unless its fetch failed.
ResultsRight ==
  Polled => \A i \in Indexes :
    results[i] = IF i \in stored \ failed THEN Heights(i) ELSE Missing

IInv == TypeOK /\ PhasesFit /\ EachIndexOnce /\ CounterAhead /\ ResultsRight

-----------------------------------------------------------------------------
\* The workers are an interval, as long as the window allows and no longer than the bound.
LEMMA WorkersAre ==
  ASSUME PoolAssumption, TypeOK
  PROVE  /\ count \in Nat
         /\ IsFiniteSet(Workers) /\ Workers = 1..Cardinality(Workers)
         /\ Cardinality(Workers) \in Nat \ {0}
         /\ Cardinality(Workers) <= Concurrency
         /\ count # 0 => Cardinality(Workers) <= count
         /\ Cardinality(Workers) < Concurrency => Cardinality(Workers) >= count
<1> DEFINE n == IF count = 0 THEN 1 ELSE IF count < Concurrency THEN count ELSE Concurrency
<1>1. count \in Nat /\ Concurrency \in Nat \ {0}
  BY DEF PoolAssumption, TypeOK
<1>2. n \in Nat \ {0} /\ Workers = 1..n
  BY <1>1 DEF Workers
<1>3. IsFiniteSet(Workers) /\ Cardinality(Workers) = n
  <2> HIDE DEF n
  <2>1. 1 \in Int /\ n \in Int /\ ~ (1 > n) /\ n - 1 + 1 = n
    BY <1>2
  <2>2. IsFiniteSet(1..n) /\ Cardinality(1..n) = IF 1 > n THEN 0 ELSE n - 1 + 1
    BY <2>1, FS_Interval
  <2> QED BY <1>2, <2>1, <2>2
<1>4. Workers = 1..Cardinality(Workers)
  BY <1>2, <1>3
<1>5. /\ n <= Concurrency
      /\ count # 0 => n <= count
      /\ n < Concurrency => n >= count
  BY <1>1
<1> HIDE DEF n
<1> QED BY <1>1, <1>2, <1>3, <1>4, <1>5

\* Every height of the window is one the node has reported.
LEMMA HeightType ==
  ASSUME PoolAssumption, TypeOK, NEW i \in Indexes
  PROVE  Heights(i) \in 0..MaxTip
BY DEF PoolAssumption, TypeOK, Heights, Indexes

\* Once the tip is read each worker starts on an index of its own.
LEMMA ReadTipKeeps ==
  ASSUME PoolAssumption, IInv, NEW tip \in 0..MaxTip, ReadTip(tip)
  PROVE  IInv'
<1>1. /\ phase = "tip" /\ phase' = "pool" /\ height' = tip /\ count' = count
      /\ worker' = [w \in Workers |-> w - 1] /\ next' = Cardinality(Workers)
      /\ results' = [i \in Indexes |-> Missing]
      /\ stored' = {} /\ failed' = {}
  BY DEF ReadTip, IInv, PhasesFit
<1>2. /\ count \in Nat /\ Workers = 1..Cardinality(Workers)
      /\ Cardinality(Workers) \in Nat \ {0}
  BY WorkersAre DEF IInv
<1>3. Workers' = Workers /\ Indexes' = Indexes
  BY <1>1 DEF Workers, Indexes
<1>4. TypeOK'
  BY <1>1, <1>2, <1>3 DEF TypeOK, IInv
<1>5. PhasesFit'
  BY <1>1 DEF PhasesFit
<1>6. CounterAhead'
  BY <1>1, <1>2, <1>3 DEF CounterAhead
<1>7. ResultsRight'
  BY <1>1, <1>3 DEF ResultsRight
<1>8. EachIndexOnce'
  <2>1. \A v, w \in Workers : worker'[v] = worker'[w] => v = w
    BY <1>1, <1>2
  <2>2. \A i \in Indexes : i < next' <=> \E w \in Workers : worker'[w] = i
    <3> SUFFICES ASSUME NEW i \in Indexes
                 PROVE  i < next' <=> \E w \in Workers : worker'[w] = i
      OBVIOUS
    <3>1. i \in Nat
      BY <1>2 DEF Indexes
    <3>2. ASSUME i < next' PROVE \E w \in Workers : worker'[w] = i
      <4>1. i + 1 \in Workers /\ worker'[i + 1] = i
        BY <1>1, <1>2, <3>1, <3>2
      <4> QED BY <4>1
    <3>3. ASSUME NEW w \in Workers, worker'[w] = i PROVE i < next'
      BY <1>1, <1>2, <3>3
    <3> QED BY <3>2, <3>3
  <2>3. DOMAIN worker' = Workers /\ Busy' \subseteq Workers
    BY <1>1 DEF Busy
  <2> QED BY <1>1, <1>3, <2>1, <2>2, <2>3 DEF EachIndexOnce
<1> QED BY <1>4, <1>5, <1>6, <1>7, <1>8 DEF IInv

\* A fetch that settles fills its own index, and its worker takes the next.
LEMMA SettleKeeps ==
  ASSUME PoolAssumption, IInv, NEW w \in Workers, NEW found \in BOOLEAN, Settle(w, found)
  PROVE  IInv'
<1> DEFINE i0 == worker[w]
           block == IF found THEN Heights(i0) ELSE Missing
<1>1. /\ phase = "pool" /\ w \in Busy
      /\ results' = [results EXCEPT ![i0] = block]
      /\ stored' = stored \cup {i0}
      /\ failed' = IF found THEN failed ELSE failed \cup {i0}
      /\ worker' = [worker EXCEPT ![w] = next] /\ next' = next + 1
      /\ phase' = phase /\ count' = count /\ height' = height
  BY DEF Settle, Store
<1>2. /\ count \in Nat /\ next \in Nat /\ MaxTip \in Nat
      /\ worker \in [Workers -> Nat] /\ results \in [Indexes -> 0..MaxTip \cup {Missing}]
      /\ stored \subseteq Indexes /\ failed \subseteq stored
  BY <1>1, WorkersAre DEF IInv, TypeOK, PoolAssumption
<1>3. i0 \in Indexes /\ i0 < count
  BY <1>1, <1>2 DEF Busy, Indexes
<1>4. /\ Workers' = Workers /\ Indexes' = Indexes /\ \A i \in Indexes : Heights(i)' = Heights(i)
  BY <1>1 DEF Workers, Indexes, Heights
<1>5. /\ worker'[w] = next
      /\ \A v \in Workers \ {w} : worker'[v] = worker[v]
      /\ worker' \in [Workers -> Nat]
  BY <1>1, <1>2
<1>6. /\ \A i \in Indexes : i \in stored => \A v \in Workers : worker[v] # i
      /\ \A i \in Indexes : i < next <=> (i \in stored \/ \E v \in Workers : worker[v] = i)
      /\ \A u, v \in Workers : u \in Busy /\ v \in Busy /\ worker[u] = worker[v] => u = v
      /\ \A v \in Workers : worker[v] < next
  BY <1>1, <1>2 DEF IInv, EachIndexOnce, CounterAhead, Polled, Busy
<1>7. TypeOK'
  <2>1. block \in 0..MaxTip \cup {Missing}
    BY <1>3, HeightType DEF IInv
  <2>2. results' \in [Indexes -> 0..MaxTip \cup {Missing}]
    BY <1>1, <1>2, <2>1
  <2>3. stored' \subseteq Indexes /\ failed' \subseteq stored'
    BY <1>1, <1>2, <1>3
  <2>4. next' \in Nat
    BY <1>1, <1>2
  <2> QED BY <1>1, <1>4, <1>5, <2>2, <2>3, <2>4 DEF TypeOK, IInv
<1>8. PhasesFit'
  BY <1>1 DEF PhasesFit
<1>9. CounterAhead'
  <2>1. ASSUME NEW v \in Workers PROVE worker'[v] < next'
    <3>1. CASE v = w
      BY <1>1, <1>2, <1>5, <3>1
    <3>2. CASE v # w
      BY <1>1, <1>2, <1>5, <1>6, <3>2
    <3> QED BY <3>1, <3>2
  <2> QED BY <1>4, <2>1 DEF CounterAhead
<1>10. ResultsRight'
  <2>1. i0 \notin stored /\ i0 \notin failed
    BY <1>2, <1>3, <1>6
  <2>2. ASSUME NEW i \in Indexes
        PROVE  results'[i] = IF i \in stored' \ failed' THEN Heights(i) ELSE Missing
    <3>1. CASE i = i0
      BY <1>1, <1>2, <1>3, <2>1, <3>1
    <3>2. CASE i # i0
      <4>1. results'[i] = results[i]
        BY <1>1, <1>2, <3>2
      <4>2. i \in stored' \ failed' <=> i \in stored \ failed
        BY <1>1, <3>2
      <4>3. results[i] = IF i \in stored \ failed THEN Heights(i) ELSE Missing
        BY <1>1 DEF IInv, ResultsRight, Polled
      <4> QED BY <4>1, <4>2, <4>3
    <3> QED BY <3>1, <3>2
  <2> QED BY <1>4, <2>2 DEF ResultsRight
<1>11. EachIndexOnce'
  <2>1. ASSUME NEW i \in Indexes, i \in stored', NEW v \in Workers PROVE worker'[v] # i
    <3>1. i < next /\ i \in Nat
      BY <1>1, <1>2, <1>3, <1>6, <2>1 DEF Indexes
    <3>2. CASE v = w
      BY <1>2, <1>5, <3>1, <3>2
    <3>3. CASE v # w
      <4>1. worker'[v] = worker[v]
        BY <1>5, <3>3
      <4>2. CASE i \in stored
        BY <1>6, <4>1, <4>2
      <4>3. CASE i = i0
        <5>1. worker[v] = i0 => v \in Busy
          BY <1>2, <1>3 DEF Busy
        <5> QED BY <1>1, <1>6, <3>3, <4>1, <4>3, <5>1
      <4> QED BY <1>1, <2>1, <4>2, <4>3
    <3> QED BY <3>2, <3>3
  <2>2. ASSUME NEW i \in Indexes
        PROVE  i < next' <=> (i \in stored' \/ \E v \in Workers : worker'[v] = i)
    <3>1. i \in Nat
      BY <1>2 DEF Indexes
    <3>2. ASSUME i < next' PROVE i \in stored' \/ \E v \in Workers : worker'[v] = i
      <4>1. CASE i = next
        BY <1>5, <4>1
      <4>2. CASE i < next /\ i \notin stored
        <5>1. PICK v \in Workers : worker[v] = i
          BY <1>6, <4>2
        <5> QED BY <1>1, <1>5, <5>1
      <4>3. CASE i \in stored
        BY <1>1, <4>3
      <4> QED BY <1>1, <1>2, <3>1, <3>2, <4>1, <4>2, <4>3
    <3>3. ASSUME i \in stored' PROVE i < next'
      <4>1. i < next
        BY <1>1, <1>3, <1>6, <3>3
      <4> QED BY <1>1, <1>2, <3>1, <4>1
    <3>4. ASSUME NEW v \in Workers, worker'[v] = i PROVE i < next'
      BY <1>4, <1>9, <1>1, <3>4 DEF CounterAhead, Polled
    <3> QED BY <3>2, <3>3, <3>4
  <2>3. ASSUME NEW u \in Workers, NEW v \in Workers, u \in Busy', v \in Busy',
               worker'[u] = worker'[v]
        PROVE  u = v
    <3>1. \A x \in Workers \ {w} : worker'[x] # next
      BY <1>2, <1>5, <1>6
    <3>2. \A x \in Workers \ {w} : x \in Busy' => x \in Busy
      BY <1>1, <1>2, <1>5 DEF Busy
    <3>3. CASE u = w \/ v = w
      BY <1>5, <2>3, <3>1, <3>3
    <3>4. CASE u # w /\ v # w
      BY <1>5, <1>6, <2>3, <3>2, <3>4
    <3> QED BY <3>3, <3>4
  <2>4. DOMAIN worker' = Workers /\ Busy' \subseteq Workers
    BY <1>5 DEF Busy
  <2> QED BY <1>4, <2>1, <2>2, <2>3, <2>4 DEF EachIndexOnce
<1> QED BY <1>7, <1>8, <1>9, <1>10, <1>11 DEF IInv

\* A failed tip, the end of the load and a stutter leave what was fetched as it is.
LEMMA EndsKeep ==
  ASSUME IInv, TipFails \/ Finish \/ UNCHANGED vars
  PROVE  IInv'
<1>1. UNCHANGED <<count, height, next, worker, results, stored, failed>>
  BY DEF TipFails, Finish, vars, pool
<1>2. \/ phase = "tip" /\ phase' = "failed"
      \/ phase = "pool" /\ Busy = {} /\ phase' = "done"
      \/ phase' = phase
  BY DEF TipFails, Finish, vars
<1>3. Busy' = Busy /\ Workers' = Workers /\ Indexes' = Indexes
  BY <1>1 DEF Busy, Workers, Indexes
<1>4. \A i : Heights(i)' = Heights(i)
  BY <1>1 DEF Heights
<1>5. TypeOK' /\ PhasesFit'
  BY <1>1, <1>2, <1>3 DEF IInv, TypeOK, PhasesFit
<1>6. EachIndexOnce' /\ CounterAhead'
  BY <1>1, <1>2, <1>3 DEF IInv, EachIndexOnce, CounterAhead, Polled
<1>7. ResultsRight'
  BY <1>1, <1>2, <1>3, <1>4 DEF IInv, ResultsRight, Polled
<1> QED BY <1>5, <1>6, <1>7 DEF IInv

\* The inductive invariant holds in every reachable state.
THEOREM Invariant == PoolAssumption => (Spec => []IInv)
<1> SUFFICES ASSUME PoolAssumption PROVE Spec => []IInv
  OBVIOUS
<1>1. Init => IInv
  BY DEF Init, IInv, TypeOK, PhasesFit, EachIndexOnce, CounterAhead, ResultsRight, Polled,
         PoolAssumption
<1>2. IInv /\ [Next]_vars => IInv'
  BY ReadTipKeeps, SettleKeeps, EndsKeep DEF Next
<1> QED BY <1>1, <1>2, PTL DEF Spec

\* Workers that share the counter fetch every index once, in whatever order answers come.
THEOREM EachOnce == PoolAssumption => (Spec => []EachIndexOnce)
<1>1. IInv => EachIndexOnce
  BY DEF IInv
<1> QED BY <1>1, Invariant, PTL

-----------------------------------------------------------------------------
\* A busy worker stands for an index that is not stored, each for its own.
LEMMA BusyAreLeft ==
  ASSUME PoolAssumption, IInv, phase = "pool"
  PROVE  /\ IsFiniteSet(Busy) /\ Busy \subseteq Workers
         /\ IsFiniteSet(Indexes \ stored)
         /\ Cardinality(Indexes \ stored) = count - Cardinality(stored)
         /\ [w \in Busy |-> worker[w]] \in Injection(Busy, Indexes \ stored)
<1>1. worker \in [Workers -> Nat] /\ count \in Nat /\ stored \subseteq Indexes
  BY WorkersAre DEF IInv, TypeOK
<1>2. Busy \subseteq Workers /\ IsFiniteSet(Busy)
  BY <1>1, WorkersAre, FS_Subset DEF Busy, IInv
<1>3. IsFiniteSet(Indexes) /\ Cardinality(Indexes) = count
  BY <1>1, FS_Interval DEF Indexes
<1>4. IsFiniteSet(Indexes \ stored) /\ IsFiniteSet(stored)
  BY <1>1, <1>3, FS_Subset
<1>5. Cardinality(Indexes \ stored) = count - Cardinality(stored)
  <2>1. Cardinality(Indexes \ stored) = Cardinality(Indexes) - Cardinality(Indexes \cap stored)
    BY <1>3, FS_Difference
  <2>2. Indexes \cap stored = stored
    BY <1>1
  <2> QED BY <1>3, <2>1, <2>2
<1>6. \A w \in Busy : worker[w] \in Indexes \ stored
  BY <1>1, <1>2 DEF IInv, EachIndexOnce, Busy, Indexes
<1>7. \A v, w \in Busy : worker[v] = worker[w] => v = w
  BY DEF IInv, EachIndexOnce
<1>8. [w \in Busy |-> worker[w]] \in Injection(Busy, Indexes \ stored)
  BY <1>6, <1>7 DEF Injection, IsInjective
<1> QED BY <1>2, <1>4, <1>5, <1>8

\* As many fetches are under way as are left, up to the bound.
THEOREM Conserving == PoolAssumption => (Spec => []WorkConserving)
<1> SUFFICES ASSUME PoolAssumption PROVE Spec => []WorkConserving
  OBVIOUS
<1>1. IInv => WorkConserving
  <2> SUFFICES ASSUME IInv, phase = "pool"
               PROVE  Cardinality(Busy) = IF count - Cardinality(stored) < Concurrency
                        THEN count - Cardinality(stored) ELSE Concurrency
    BY DEF WorkConserving
  <2> DEFINE f == [w \in Busy |-> worker[w]]
             left == Cardinality(Indexes \ stored)
  <2>1. /\ IsFiniteSet(Busy) /\ Busy \subseteq Workers /\ IsFiniteSet(Indexes \ stored)
        /\ left = count - Cardinality(stored)
        /\ f \in Injection(Busy, Indexes \ stored)
    BY BusyAreLeft
  <2>2. /\ Cardinality(Busy) \in Nat /\ left \in Nat
        /\ Cardinality(Busy) <= left
        /\ f \in Surjection(Busy, Indexes \ stored) => Cardinality(Busy) = left
    <3>1. /\ Cardinality(Busy) <= left
          /\ Cardinality(Busy) = left <=> f \in Surjection(Busy, Indexes \ stored)
      BY <2>1, FS_Injection
    <3>2. Cardinality(Busy) \in Nat /\ left \in Nat
      BY <2>1, FS_CardinalityType
    <3> QED BY <3>1, <3>2
  <2>3. /\ Cardinality(Busy) <= Cardinality(Workers)
        /\ Cardinality(Workers) \in Nat /\ Cardinality(Workers) <= Concurrency
        /\ Cardinality(Workers) < Concurrency => Cardinality(Workers) >= count
        /\ IsFiniteSet(Workers)
    BY <2>1, WorkersAre, FS_Subset DEF IInv
  <2>4. /\ worker \in [Workers -> Nat] /\ count \in Nat /\ next \in Nat
        /\ Concurrency \in Nat /\ left <= count
    <3>1. IsFiniteSet(Indexes) /\ Cardinality(Indexes) = count
      <4>1. count \in Nat /\ 0 \in Int /\ count - 1 \in Int
        BY WorkersAre DEF IInv
      <4> QED BY <4>1, FS_Interval DEF Indexes
    <3>2. left <= count
      BY <3>1, FS_Subset
    <3> QED BY <3>2, WorkersAre DEF IInv, TypeOK, PoolAssumption
  <2>5. CASE Busy = Workers
    BY <2>1, <2>2, <2>3, <2>4, <2>5
  <2>6. CASE Busy # Workers
    <3>1. PICK w \in Workers : w \notin Busy
      BY <2>1, <2>6
    <3>2. count <= worker[w] /\ worker[w] < next
      BY <2>4, <3>1 DEF Busy, IInv, CounterAhead, Polled
    <3>3. ASSUME NEW i \in Indexes \ stored PROVE \E v \in Busy : f[v] = i
      <4>1. i < next /\ i < count
        BY <2>4, <3>2 DEF Indexes
      <4>2. PICK v \in Workers : worker[v] = i
        BY <2>4, <4>1 DEF IInv, EachIndexOnce
      <4>3. v \in Busy
        BY <2>4, <4>1, <4>2 DEF Busy
      <4> QED BY <4>2, <4>3
    <3>4. f \in [Busy -> Indexes \ stored]
      BY <2>1 DEF Injection
    <3>5. f \in Surjection(Busy, Indexes \ stored)
      BY <3>3, <3>4 DEF Surjection
    <3> QED BY <2>1, <2>2, <2>3, <2>4, <3>5
  <2> QED BY <2>5, <2>6
<1> QED BY <1>1, Invariant, PTL

-----------------------------------------------------------------------------
\* When the call is done, every index has been answered, and holds the block of its height
\* unless its own fetch failed.
WindowFilled ==
  phase = "done" =>
    /\ stored = Indexes
    /\ \A i \in Indexes : results[i] = IF i \in failed THEN Missing ELSE Heights(i)

\* The list of recent blocks has every height of the window, however the workers take turns
\* (recent-blocks.ts).
THEOREM Filled == PoolAssumption => (Spec => []WindowFilled)
<1> SUFFICES ASSUME PoolAssumption PROVE Spec => []WindowFilled
  OBVIOUS
<1>1. IInv => WindowFilled
  <2> SUFFICES ASSUME IInv, phase = "done" PROVE WindowFilled
    BY DEF WindowFilled
  <2>1. /\ worker \in [Workers -> Nat] /\ count \in Nat /\ next \in Nat
        /\ 1 \in Workers /\ Busy = {} /\ stored \subseteq Indexes
    BY WorkersAre DEF IInv, TypeOK, PhasesFit
  <2>2. count <= worker[1] /\ worker[1] < next
    BY <2>1 DEF Busy, IInv, CounterAhead, Polled
  <2>3. ASSUME NEW i \in Indexes PROVE i \in stored
    <3>1. i < next /\ i < count /\ i \in Nat
      BY <2>1, <2>2 DEF Indexes
    <3>2. \A w \in Workers : worker[w] # i
      BY <2>1, <3>1 DEF Busy
    <3> QED BY <2>1, <3>1, <3>2 DEF IInv, EachIndexOnce
  <2>4. stored = Indexes
    BY <2>1, <2>3
  <2> QED BY <2>4 DEF WindowFilled, IInv, ResultsRight, Polled
<1> QED BY <1>1, Invariant, PTL

-----------------------------------------------------------------------------
\* The n-th of a set of naturals, by the number of those that are no greater.
Rank(S, i) == Cardinality({j \in S : j <= i})
AtRank(S, n) == CHOOSE i \in S : Rank(S, i) = n

\* The place of one of a finite set of naturals among them; the greater has the later one.
LEMMA Ranks ==
  ASSUME NEW S \in SUBSET Nat, IsFiniteSet(S)
  PROVE  /\ \A i \in S : Rank(S, i) \in 1..Cardinality(S)
         /\ \A i, j \in S : i < j => Rank(S, i) < Rank(S, j)
<1>1. ASSUME NEW i \in S
      PROVE  /\ IsFiniteSet({j \in S : j <= i}) /\ Rank(S, i) \in Nat /\ Rank(S, i) <= Cardinality(S)
             /\ Rank(S, i) # 0
  <2> DEFINE T == {j \in S : j <= i}
  <2>1. T \in SUBSET S /\ i \in T
    OBVIOUS
  <2> HIDE DEF T
  <2>2. IsFiniteSet(T) /\ Cardinality(T) <= Cardinality(S)
    BY <2>1, FS_Subset
  <2>3. Cardinality(T) \in Nat /\ Cardinality(T) # 0
    BY <2>1, <2>2, FS_CardinalityType, FS_EmptySet
  <2> QED BY <2>2, <2>3 DEF T, Rank
<1>2. ASSUME NEW i \in S, NEW j \in S, i < j PROVE Rank(S, i) < Rank(S, j)
  <2> DEFINE A == {m \in S : m <= i}
             B == {m \in S : m <= j}
  <2>1. A \in SUBSET B /\ A # B
    <3>1. j \in B /\ j \notin A
      BY <1>2
    <3>2. \A m \in S : m <= i => m <= j
      BY <1>2
    <3> QED BY <3>1, <3>2
  <2>2. IsFiniteSet(B) /\ Rank(S, i) = Cardinality(A) /\ Rank(S, j) = Cardinality(B)
    BY <1>1 DEF Rank
  <2> HIDE DEF A, B
  <2>3. Cardinality(A) <= Cardinality(B) /\ Cardinality(A) # Cardinality(B)
    BY <2>1, <2>2, FS_Subset
  <2>4. Rank(S, i) \in Nat /\ Rank(S, j) \in Nat
    BY <1>1
  <2>5. Rank(S, i) <= Rank(S, j) /\ Rank(S, i) # Rank(S, j)
    BY <2>2, <2>3
  <2>6. \A a, b \in Nat : a <= b /\ a # b => a < b
    OBVIOUS
  <2> QED BY <2>4, <2>5, <2>6
<1>3. ASSUME NEW i \in S PROVE Rank(S, i) \in 1..Cardinality(S)
  <2>1. Rank(S, i) \in Nat /\ Rank(S, i) <= Cardinality(S) /\ Rank(S, i) # 0
    BY <1>1
  <2>2. Cardinality(S) \in Nat
    BY FS_CardinalityType
  <2>3. \A r, c \in Nat : r <= c /\ r # 0 => r \in 1..c
    OBVIOUS
  <2> QED BY <2>1, <2>2, <2>3
<1> QED BY <1>2, <1>3

\* Every one of them is at one rank, and the greater at the higher rank.
LEMMA Ranked ==
  ASSUME NEW S \in SUBSET Nat, IsFiniteSet(S)
  PROVE  /\ \A n \in 1..Cardinality(S) : AtRank(S, n) \in S
         /\ \A m, n \in 1..Cardinality(S) : m < n => AtRank(S, m) < AtRank(S, n)
         /\ \A i \in S : \E n \in 1..Cardinality(S) : AtRank(S, n) = i
<1> DEFINE c == Cardinality(S)
           f == [i \in S |-> Rank(S, i)]
<1>1. c \in Nat /\ IsFiniteSet(1..c) /\ Cardinality(1..c) = c
  <2>1. c \in Nat
    BY FS_CardinalityType
  <2>2. 1 \in Int /\ c \in Int
    BY <2>1
  <2>3. IsFiniteSet(1..c) /\ Cardinality(1..c) = IF 1 > c THEN 0 ELSE c - 1 + 1
    BY <2>2, FS_Interval
  <2> HIDE DEF c
  <2> QED BY <2>1, <2>3
<1> HIDE DEF c
<1>2. f \in [S -> 1..c]
  BY Ranks DEF c
<1>3. \A i, j \in S : Rank(S, i) = Rank(S, j) => i = j
  <2> SUFFICES ASSUME NEW i \in S, NEW j \in S, Rank(S, i) = Rank(S, j), i # j PROVE FALSE
    OBVIOUS
  <2>1. i < j \/ j < i
    OBVIOUS
  <2>2. Rank(S, i) \in Nat /\ Rank(S, j) \in Nat
    BY <1>2
  <2> QED BY <2>1, <2>2, Ranks
<1>4. f \in Injection(S, 1..c)
  BY <1>2, <1>3 DEF Injection, IsInjective
<1>5. f \in Surjection(S, 1..c)
  BY <1>1, <1>4, FS_Injection DEF c
<1>6. ASSUME NEW n \in 1..c PROVE AtRank(S, n) \in S /\ Rank(S, AtRank(S, n)) = n
  <2>1. \E i \in S : Rank(S, i) = n
    BY <1>5 DEF Surjection
  <2> QED BY <2>1 DEF AtRank
<1>7. ASSUME NEW m \in 1..c, NEW n \in 1..c, m < n PROVE AtRank(S, m) < AtRank(S, n)
  <2> DEFINE i == AtRank(S, m)
             j == AtRank(S, n)
  <2>1. i \in S /\ j \in S /\ Rank(S, i) = m /\ Rank(S, j) = n
    BY <1>6
  <2> HIDE DEF i, j
  <2>2. i # j
    BY <1>7, <2>1
  <2>3. j < i => n < m
    BY <2>1, Ranks
  <2>4. i \in Nat /\ j \in Nat /\ ~ (n < m)
    BY <1>7, <2>1
  <2>5. i < j
    BY <2>2, <2>3, <2>4
  <2> QED BY <2>5 DEF i, j
<1>8. ASSUME NEW i \in S PROVE \E n \in 1..c : AtRank(S, n) = i
  <2>1. Rank(S, i) \in 1..c
    BY <1>2
  <2>2. AtRank(S, Rank(S, i)) = i
    BY <1>3, <1>6, <2>1
  <2> QED BY <2>1, <2>2
<1> QED BY <1>6, <1>7, <1>8 DEF c

\* The answer is the whole window but for what failed, newest first (rpc-methods.ts:138-151).
THEOREM WindowWhole == PoolAssumption => (Spec => []WholeWindow)
<1> SUFFICES ASSUME PoolAssumption PROVE Spec => []WholeWindow
  OBVIOUS
<1>1. IInv /\ WindowFilled => WholeWindow
  <2> SUFFICES ASSUME IInv, WindowFilled, phase = "done"
               PROVE  /\ {Blocks[n] : n \in DOMAIN Blocks} = {Heights(i) : i \in Indexes \ failed}
                      /\ \A m, n \in DOMAIN Blocks :
                           m < n => Blocks[m] > Blocks[n] \/ (Blocks[m] = 0 /\ Blocks[n] = 0)
    BY DEF WholeWindow
  <2> DEFINE kept == Indexes \ failed
  <2>1. TypeOK /\ count \in Nat /\ height \in Nat
    BY WorkersAre DEF IInv, TypeOK
  <2>2. kept \in SUBSET Nat /\ IsFiniteSet(kept)
    <3>1. IsFiniteSet(Indexes)
      BY <2>1, FS_Interval DEF Indexes
    <3>2. Indexes \subseteq Nat
      BY DEF Indexes
    <3> QED BY <3>1, <3>2, FS_Subset
  <2>3. \A i \in Indexes : Heights(i) \in Nat /\ Heights(i) # Missing
    BY <2>1, HeightType DEF PoolAssumption
  <2>4. {i \in Indexes : results[i] # Missing} = kept
    BY <2>3 DEF WindowFilled
  <2>5. \A i \in kept : results[i] = Heights(i)
    BY DEF WindowFilled
  <2>6. Blocks = [n \in 1..Cardinality(kept) |-> results[AtRank(kept, n)]]
    <3> DEFINE found == {i \in Indexes : results[i] # Missing}
    <3>1. Blocks = [n \in 1..Cardinality(found) |-> results[AtRank(found, n)]]
      BY DEF Blocks, AtRank, Rank
    <3>2. found = kept
      BY <2>4
    <3> HIDE DEF found, kept
    <3> QED BY <3>1, <3>2
  <2> HIDE DEF kept
  <2>7. /\ DOMAIN Blocks = 1..Cardinality(kept)
        /\ \A n \in DOMAIN Blocks : Blocks[n] = Heights(AtRank(kept, n)) /\ AtRank(kept, n) \in kept
    BY <2>2, <2>5, <2>6, Ranked
  <2>8. {Blocks[n] : n \in DOMAIN Blocks} = {Heights(i) : i \in kept}
    <3>1. ASSUME NEW n \in DOMAIN Blocks PROVE Blocks[n] \in {Heights(i) : i \in kept}
      BY <2>7
    <3>2. ASSUME NEW i \in kept PROVE Heights(i) \in {Blocks[n] : n \in DOMAIN Blocks}
      <4>1. PICK n \in 1..Cardinality(kept) : AtRank(kept, n) = i
        BY <2>2, Ranked
      <4>2. n \in DOMAIN Blocks /\ Blocks[n] = Heights(i)
        BY <2>7, <4>1
      <4> QED BY <4>2
    <3> QED BY <3>1, <3>2
  <2>9. ASSUME NEW m \in DOMAIN Blocks, NEW n \in DOMAIN Blocks, m < n
        PROVE  Blocks[m] > Blocks[n] \/ (Blocks[m] = 0 /\ Blocks[n] = 0)
    <3> DEFINE i == AtRank(kept, m)
               j == AtRank(kept, n)
    <3>1. i < j /\ i \in Nat /\ j \in Nat
      BY <2>2, <2>7, <2>9, Ranked
    <3>2. Blocks[m] = Heights(i) /\ Blocks[n] = Heights(j)
      BY <2>7
    <3> HIDE DEF i, j
    <3>3. Heights(i) > Heights(j) \/ (Heights(i) = 0 /\ Heights(j) = 0)
      BY <2>1, <3>1 DEF Heights
    <3> QED BY <3>2, <3>3
  <2> QED BY <2>8, <2>9 DEF kept
<1> QED BY <1>1, Invariant, Filled, PTL

-----------------------------------------------------------------------------
(* Answers: what is asked and what is made of what comes back.                *)

\* What a key tells of a call: its method and its parameters.
BlockMethods == {"boing_getBlockByHeight", "boing_getBlockByHash"}
KeyTells(c) ==
  \/ c.key = Nil
  \/ /\ c.method \in BlockMethods
     /\ \E id : \E receipts, code \in BOOLEAN :
          /\ c.key = <<c.method, <<id, receipts, code>>>>
          /\ c.params = IF code /\ ~receipts THEN <<id>> ELSE <<id, receipts, code>>
  \/ /\ c.method \notin BlockMethods
     /\ c.key = <<c.method, c.params>>

\* The parameters given of a QA check are some of the four that follow the bytecode.
LEMMA QaParams ==
  ASSUME NEW g \in [1..4 -> {0, Nil}]
  PROVE  <<0>> \o QaCheckParams(g) \in Seq({0, Nil}) /\ Len(<<0>> \o QaCheckParams(g)) \in 0..5
<1> DEFINE upTo == {n \in 0..Len(g) : \A i \in 1..n : g[i] # Nil}
<1>1. g \in Seq({0, Nil}) /\ Len(g) = 4
  <2>1. 4 \in Nat
    OBVIOUS
  <2>2. g \in Seq({0, Nil})
    BY <2>1, SeqDef
  <2>3. DOMAIN g = 1..Len(g) /\ Len(g) \in Nat
    BY <2>2, LenProperties
  <2>4. DOMAIN g = 1..4
    OBVIOUS
  <2> QED BY <2>2, <2>3, <2>4
<1>2. 0 \in upTo /\ upTo \subseteq 0..4
  BY <1>1
<1>3. \E x \in upTo : \A y \in upTo : x >= y
  <2> HIDE DEF upTo
  <2>1. CASE 4 \in upTo
    BY <1>2, <2>1
  <2>2. CASE 4 \notin upTo /\ 3 \in upTo
    BY <1>2, <2>2
  <2>3. CASE 4 \notin upTo /\ 3 \notin upTo /\ 2 \in upTo
    BY <1>2, <2>3
  <2>4. CASE 4 \notin upTo /\ 3 \notin upTo /\ 2 \notin upTo
    BY <1>2, <2>4
  <2> QED BY <2>1, <2>2, <2>3, <2>4
<1>4. Max(upTo) \in upTo
  BY <1>3 DEF Max
<1>5. Max(upTo) \in 0..4
  BY <1>2, <1>4
<1> HIDE DEF upTo
<1> DEFINE n == Max(upTo)
<1>6. QaCheckParams(g) = SubSeq(g, 1, n)
  BY DEF QaCheckParams, upTo
<1>7. n \in 0..4
  BY <1>5
<1> HIDE DEF n
<1>8. SubSeq(g, 1, n) \in Seq({0, Nil}) /\ Len(SubSeq(g, 1, n)) \in 0..4
  BY <1>1, <1>7
<1> QED BY <1>6, <1>8

\* Every call of the client is one that the proxy knows, has few parameters, and is told by its key.
LEMMA ClientCallsAre ==
  ASSUME NEW ids, NEW c \in ClientCalls(ids)
  PROVE  c.method \in AllowedRpcMethods /\ Len(c.params) \in 0..MaxRpcParams /\ KeyTells(c)
<1>1. ASSUME NEW m \in BlockMethods, NEW i \in ids, NEW r \in BOOLEAN, NEW code \in BOOLEAN,
             c = BlockCall(m, i, r, code)
      PROVE  c.method \in AllowedRpcMethods /\ Len(c.params) \in 0..MaxRpcParams /\ KeyTells(c)
  <2>1. /\ c.method = m /\ c.key = <<m, <<i, r, code>>>>
        /\ c.params = IF code /\ ~r THEN <<i>> ELSE <<i, r, code>>
    BY <1>1 DEF BlockCall, BlockKey
  <2>2. Len(c.params) \in 0..3
    BY <2>1
  <2>3. m \in AllowedRpcMethods
    BY DEF BlockMethods, AllowedRpcMethods
  <2>4. KeyTells(c)
    BY <2>1 DEF KeyTells
  <2> QED BY <2>1, <2>2, <2>3, <2>4 DEF MaxRpcParams
<1>2. ASSUME NEW m \in AllowedRpcMethods \ BlockMethods, NEW args, Len(args) \in 0..MaxRpcParams,
             c \in {Cached(m, args), Uncached(m, args)}
      PROVE  c.method \in AllowedRpcMethods /\ Len(c.params) \in 0..MaxRpcParams /\ KeyTells(c)
  <2>1. c.method = m /\ c.params = args /\ c.key \in {Nil, <<m, args>>}
    BY <1>2 DEF Cached, Uncached
  <2> QED BY <1>2, <2>1 DEF KeyTells
<1>3. /\ KeptMethods \cup NameMethods \subseteq AllowedRpcMethods \ BlockMethods
      /\ {"boing_getAccount", "boing_getTransactionReceipt", "boing_faucetRequest", "boing_getAccountProof",
          "boing_getContractStorage", "boing_verifyAccountProof", "boing_qaCheck", "boing_health"}
         \subseteq AllowedRpcMethods \ BlockMethods
  BY DEF AllowedRpcMethods, BlockMethods, KeptMethods, NameMethods
<1>4. \A i, j : Len(<<>>) \in 0..MaxRpcParams /\ Len(<<i>>) \in 0..MaxRpcParams /\ Len(<<i, j>>) \in 0..MaxRpcParams
  BY DEF MaxRpcParams
<1>5. \A g \in [1..4 -> {0, Nil}] : Len(<<0>> \o QaCheckParams(g)) \in 0..MaxRpcParams
  BY QaParams DEF MaxRpcParams
<1> HIDE DEF KeyTells, AllowedRpcMethods, BlockMethods, KeptMethods, NameMethods, MaxRpcParams
<1>6. CASE \E m \in BlockMethods, i \in ids, r \in BOOLEAN, code \in BOOLEAN : c = BlockCall(m, i, r, code)
  BY <1>1, <1>6
<1>7. CASE \E m \in AllowedRpcMethods \ BlockMethods : \E args :
             Len(args) \in 0..MaxRpcParams /\ c \in {Cached(m, args), Uncached(m, args)}
  BY <1>2, <1>7
<1>8. \/ \E m \in BlockMethods, i \in ids, r \in BOOLEAN, code \in BOOLEAN : c = BlockCall(m, i, r, code)
      \/ \E m \in KeptMethods : c = Cached(m, <<>>)
      \/ \E m \in NameMethods \cup {"boing_getAccount"}, i \in ids : c = Cached(m, <<i>>)
      \/ \E m \in {"boing_getTransactionReceipt", "boing_faucetRequest", "boing_getAccountProof"}, i \in ids :
           c = Uncached(m, <<i>>)
      \/ \E m \in {"boing_getContractStorage", "boing_verifyAccountProof"}, i \in ids, j \in ids :
           c = Uncached(m, <<i, j>>)
      \/ \E g \in [1..4 -> {0, Nil}] : c = Uncached("boing_qaCheck", <<0>> \o QaCheckParams(g))
      \/ c = Uncached("boing_health", <<>>)
  <2> DEFINE Blk == {BlockCall(m, i, r, code) : m \in BlockMethods, i \in ids, r \in BOOLEAN, code \in BOOLEAN}
             Kpt == {Cached(m, <<>>) : m \in KeptMethods}
             One == {Cached(m, <<i>>) : m \in NameMethods \cup {"boing_getAccount"}, i \in ids}
             Oth == {Uncached(m, <<i>>) : m \in {"boing_getTransactionReceipt", "boing_faucetRequest",
                                                "boing_getAccountProof"}, i \in ids}
             Two == {Uncached(m, <<i, j>>) : m \in {"boing_getContractStorage", "boing_verifyAccountProof"},
                                             i \in ids, j \in ids}
             Chk == {Uncached("boing_qaCheck", <<0>> \o QaCheckParams(g)) : g \in [1..4 -> {0, Nil}]}
             Hlt == {Uncached("boing_health", <<>>)}
  <2>1. ClientCalls(ids) = Blk \cup Kpt \cup One \cup Oth \cup Two \cup Chk \cup Hlt
    BY DEF ClientCalls, BlockMethods
  <2>2. c \in Blk => \E m \in BlockMethods, i \in ids, r \in BOOLEAN, code \in BOOLEAN : c = BlockCall(m, i, r, code)
    OBVIOUS
  <2>3. /\ c \in Kpt => \E m \in KeptMethods : c = Cached(m, <<>>)
        /\ c \in One => \E m \in NameMethods \cup {"boing_getAccount"}, i \in ids : c = Cached(m, <<i>>)
    OBVIOUS
  <2>4. c \in Oth => \E m \in {"boing_getTransactionReceipt", "boing_faucetRequest", "boing_getAccountProof"}, i \in ids :
           c = Uncached(m, <<i>>)
    OBVIOUS
  <2>5. c \in Two => \E m \in {"boing_getContractStorage", "boing_verifyAccountProof"}, i \in ids, j \in ids :
           c = Uncached(m, <<i, j>>)
    OBVIOUS
  <2>6. /\ c \in Chk => \E g \in [1..4 -> {0, Nil}] : c = Uncached("boing_qaCheck", <<0>> \o QaCheckParams(g))
        /\ c \in Hlt => c = Uncached("boing_health", <<>>)
    BY Zenon
  <2> HIDE DEF Blk, Kpt, One, Oth, Two, Chk, Hlt
  <2>7. c \in Blk \/ c \in Kpt \/ c \in One \/ c \in Oth \/ c \in Two \/ c \in Chk \/ c \in Hlt
    BY <2>1
  <2> QED BY Zenon, <2>2, <2>3, <2>4, <2>5, <2>6, <2>7
<1> HIDE DEF Cached, Uncached
<1>9. CASE \E m \in KeptMethods : c = Cached(m, <<>>)
  <2>1. PICK m \in KeptMethods : c = Cached(m, <<>>)
    BY <1>9
  <2> QED BY <1>2, <1>3, <1>4, <2>1
<1>10. CASE \E m \in NameMethods \cup {"boing_getAccount"}, i \in ids : c = Cached(m, <<i>>)
  <2>1. PICK m \in NameMethods \cup {"boing_getAccount"}, i \in ids : c = Cached(m, <<i>>)
    BY <1>10
  <2> QED BY <1>2, <1>3, <1>4, <2>1
<1>11. CASE \E m \in {"boing_getTransactionReceipt", "boing_faucetRequest", "boing_getAccountProof"}, i \in ids :
              c = Uncached(m, <<i>>)
  <2>1. PICK m \in {"boing_getTransactionReceipt", "boing_faucetRequest", "boing_getAccountProof"}, i \in ids :
              c = Uncached(m, <<i>>)
    BY <1>11
  <2> QED BY <1>2, <1>3, <1>4, <2>1
<1>12. CASE \E m \in {"boing_getContractStorage", "boing_verifyAccountProof"}, i \in ids, j \in ids :
              c = Uncached(m, <<i, j>>)
  <2>1. PICK m \in {"boing_getContractStorage", "boing_verifyAccountProof"}, i \in ids, j \in ids :
              c = Uncached(m, <<i, j>>)
    BY <1>12
  <2> QED BY <1>2, <1>3, <1>4, <2>1
<1>13. CASE \E g \in [1..4 -> {0, Nil}] : c = Uncached("boing_qaCheck", <<0>> \o QaCheckParams(g))
  <2>1. PICK g \in [1..4 -> {0, Nil}] : c = Uncached("boing_qaCheck", <<0>> \o QaCheckParams(g))
    BY <1>13
  <2> DEFINE args == <<0>> \o QaCheckParams(g)
  <2>2. Len(args) \in 0..MaxRpcParams
    BY <1>5
  <2>3. c = Uncached("boing_qaCheck", args)
    BY <2>1
  <2> HIDE DEF args
  <2> QED BY <1>2, <1>3, <2>2, <2>3
<1>14. CASE c = Uncached("boing_health", <<>>)
  BY <1>2, <1>3, <1>4, <1>14
<1> QED BY <1>6, <1>8, <1>9, <1>10, <1>11, <1>12, <1>13, <1>14

\* No two calls share a key.
LEMMA KeysTell ==
  ASSUME NEW c, NEW d, KeyTells(c), KeyTells(d), c.key = d.key, c.key # Nil
  PROVE  c.method = d.method /\ c.params = d.params
<1>1. ASSUME NEW id, NEW receipts, NEW code, NEW i, NEW r, NEW k,
             <<c.method, <<id, receipts, code>>>> = <<d.method, <<i, r, k>>>>
      PROVE  c.method = d.method /\ id = i /\ receipts = r /\ code = k
  BY <1>1
<1>2. ASSUME NEW x, NEW y, <<c.method, x>> = <<d.method, y>>
      PROVE  c.method = d.method /\ x = y
  BY <1>2
<1>3. CASE c.method \in BlockMethods /\ d.method \in BlockMethods
  <2>0. PICK id : \E receipts, code \in BOOLEAN :
          /\ c.key = <<c.method, <<id, receipts, code>>>>
          /\ c.params = IF code /\ ~receipts THEN <<id>> ELSE <<id, receipts, code>>
    BY <1>3 DEF KeyTells
  <2>1. PICK receipts \in BOOLEAN, code \in BOOLEAN :
          /\ c.key = <<c.method, <<id, receipts, code>>>>
          /\ c.params = IF code /\ ~receipts THEN <<id>> ELSE <<id, receipts, code>>
    BY <2>0
  <2>4. PICK i : \E r, k \in BOOLEAN :
          /\ d.key = <<d.method, <<i, r, k>>>>
          /\ d.params = IF k /\ ~r THEN <<i>> ELSE <<i, r, k>>
    BY <1>3 DEF KeyTells
  <2>2. PICK r \in BOOLEAN, k \in BOOLEAN :
          /\ d.key = <<d.method, <<i, r, k>>>>
          /\ d.params = IF k /\ ~r THEN <<i>> ELSE <<i, r, k>>
    BY <2>4
  <2>5. <<c.method, <<id, receipts, code>>>> = <<d.method, <<i, r, k>>>>
    BY Zenon, <2>1, <2>2
  <2>3. c.method = d.method /\ id = i /\ receipts = r /\ code = k
    BY Zenon, <2>5, <1>1
  <2> QED BY <2>1, <2>2, <2>3
<1>4. CASE c.method \in BlockMethods /\ d.method \notin BlockMethods
  <2>1. PICK x : c.key = <<c.method, x>>
    BY <1>4 DEF KeyTells
  <2>2. d.key = <<d.method, d.params>>
    BY <1>4 DEF KeyTells
  <2>3. c.method = d.method
    BY <1>2, <2>1, <2>2
  <2> QED BY <1>4, <2>3
<1>5. CASE c.method \notin BlockMethods /\ d.method \in BlockMethods
  <2>1. PICK x : d.key = <<d.method, x>>
    BY <1>5 DEF KeyTells
  <2>2. c.key = <<c.method, c.params>>
    BY <1>5 DEF KeyTells
  <2>3. c.method = d.method
    BY <1>2, <2>1, <2>2
  <2> QED BY <1>5, <2>3
<1>6. CASE c.method \notin BlockMethods /\ d.method \notin BlockMethods
  <2>1. c.key = <<c.method, c.params>> /\ d.key = <<d.method, d.params>>
    BY <1>6 DEF KeyTells
  <2> QED BY <1>2, <2>1
<1> QED BY <1>3, <1>4, <1>5, <1>6

\* Calls come through.
LEMMA CallsDo == AskCall => CallsPass'
<1> SUFFICES ASSUME NEW c \in ClientCalls({1, 2}), NEW d \in ClientCalls({1, 2}), NEW id \in {1, 2},
                    answer' = [of |-> "call", first |-> c, second |-> d, id |-> id,
                               verdict |-> ValidateProxyRequest([single |-> TRUE, wellFormed |-> TRUE, safeId |-> TRUE,
                                                                 id |-> id, call |-> c])]
             PROVE  CallsPass'
  BY DEF AskCall, Answered
<1>1. /\ c.method \in AllowedRpcMethods /\ Len(c.params) \in 0..MaxRpcParams
      /\ KeyTells(c) /\ KeyTells(d)
  BY ClientCallsAre
<1>2. ValidateProxyRequest([single |-> TRUE, wellFormed |-> TRUE, safeId |-> TRUE, id |-> id, call |-> c])
        = [kind |-> "ok", id |-> id]
  <2>1. ~ (Len(c.params) > MaxRpcParams)
    <3>1. \A n \in 0..8 : ~ (n > 8)
      OBVIOUS
    <3> QED BY <1>1, <3>1 DEF MaxRpcParams
  <2> QED BY <1>1, <2>1 DEF ValidateProxyRequest
<1>3. c.key = d.key /\ c.key # Nil => c.method = d.method /\ c.params = d.params
  BY <1>1, KeysTell
<1> QED BY <1>2, <1>3 DEF CallsPass

-----------------------------------------------------------------------------
\* A rejection is told for what it is.
LEMMA ErrorsDo == AskError => RejectionsTold'
<1> SUFFICES ASSUME AskError PROVE RejectionsTold'
  OBVIOUS
<1>0. PICK r \in Rejections, outer \in {4900, -32603, -32053}, words \in {"unreachable", "too_large", "other"} :
        Answered([of |-> "error", rejection |-> r,
                  direct |-> GetFriendlyRpcErrorMessage([Bare(r) EXCEPT !.words = words]),
                  wallet |-> MapWalletErrorToUi(Wrapped(r, outer))])
  BY SMT DEF AskError
<1> DEFINE direct == [Bare(r) EXCEPT !.words = words]
           wrapped == Wrapped(r, outer)
           told == IF r.reason \in Reasons THEN r.reason ELSE CodeSays(r.code)
<1>1. r.reason \in {"stale_nonce", "pool_full", "other"} /\ r.code \in {-32016, -32053, -32601}
  BY DEF Rejections
<1>2. /\ ~ direct.nested /\ direct.code = r.code /\ direct.reason = r.reason
      /\ ~ direct.limited /\ direct.words = words
  BY DEF Bare
<1>3. wrapped.nested /\ wrapped.inner = r /\ ~ wrapped.cancelled
  BY DEF Wrapped, Bare
<1> HIDE DEF direct, wrapped
<1>4. DescribeRpcRejection(direct) = told
  BY <1>2 DEF DescribeRpcRejection, ToRpcErrorLike
<1>5. DescribeRpcRejection(wrapped) = told
  <2>1. ToRpcErrorLike(wrapped) = [code |-> r.code, reason |-> r.reason]
    BY <1>1, <1>3 DEF ToRpcErrorLike
  <2> QED BY <2>1 DEF DescribeRpcRejection
<1>6. /\ r.reason \in {"stale_nonce", "pool_full"} => told = r.reason
      /\ r.reason = "other" => told = CodeSays(r.code)
  BY <1>1 DEF Reasons
<1>7. /\ CodeSays(-32016) = "faucet_limit" /\ CodeSays(-32053) = "not_eligible" /\ CodeSays(-32601) = "unknown"
  BY DEF CodeSays
<1> HIDE DEF told
<1>8. told = "unknown" <=> r.reason = "other" /\ r.code = -32601
  BY <1>1, <1>6, <1>7
<1>9. told # "nodes_unavailable"
  BY <1>1, <1>6, <1>7
<1>10. /\ told # "unknown" => GetFriendlyRpcErrorMessage(direct) = told
       /\ told # "unknown" => MapWalletErrorToUi(wrapped) = told
  BY <1>2, <1>3, <1>4, <1>5 DEF GetFriendlyRpcErrorMessage, MapWalletErrorToUi
<1>11. /\ answer'.of = "error" /\ answer'.rejection = r
       /\ answer'.direct = GetFriendlyRpcErrorMessage(direct) /\ answer'.wallet = MapWalletErrorToUi(wrapped)
  BY <1>0 DEF direct, wrapped, Answered
<1> QED BY <1>6, <1>8, <1>9, <1>10, <1>11 DEF RejectionsTold

\* A route blames whom it is due.
LEMMA RoutesDo == AskRoutes => BlamesRightly'
<1> SUFFICES ASSUME NEW asked \in [network: BOOLEAN, id: BOOLEAN], NEW configured \in BOOLEAN, NEW up \in Services,
                    answer' = [of |-> "route", asked |-> asked, configured |-> configured, up |-> up,
                               nfts |-> AccountNftsStatus(asked, configured, up),
                               blob |-> BlobAccessStatus(asked, configured, up),
                               item |-> NftItemStatus(asked, configured, up)]
             PROVE  BlamesRightly'
  BY DEF AskRoutes, Answered
<1> DEFINE could == asked.network /\ asked.id /\ configured
           nfts == AccountNftsStatus(asked, configured, up)
           blob == BlobAccessStatus(asked, configured, up)
           item == NftItemStatus(asked, configured, up)
<1>1. up.status \in {200, 302, 404, 500}
  BY DEF Services
<1>2. /\ ~ could => nfts \in {400, 503}
      /\ could /\ (up.down \/ ~up.json) => nfts = 502
      /\ could /\ ~up.down /\ up.json => nfts = IF up.status = 302 THEN 502 ELSE up.status
  BY <1>1 DEF AccountNftsStatus
<1>3. /\ ~ could => blob = 400 /\ item = 400
      /\ could /\ up.down => blob = 502 /\ item = 502
      /\ could /\ ~up.down => blob \in {200, 502} /\ item \in {200, 404, 502}
      /\ could /\ up.json /\ ~up.down /\ ~up.error => blob = 200 /\ item = IF up.found THEN 200 ELSE 404
  BY DEF BlobAccessStatus, NftItemStatus
<1>4. /\ answer'.of = "route" /\ answer'.asked = asked /\ answer'.configured = configured /\ answer'.up = up
      /\ answer'.nfts = nfts /\ answer'.blob = blob /\ answer'.item = item
  OBVIOUS
<1> HIDE DEF nfts, blob, item
<1>5. \A status \in {nfts, blob, item} :
        /\ ~could <=> status \in {400, 503}
        /\ could /\ up.down <=> status = 502 /\ up.down
  BY <1>1, <1>2, <1>3
<1>6. could /\ up.json /\ ~up.down /\ ~up.error =>
        /\ nfts = 200 <=> up.status = 200
        /\ blob = 200
        /\ item = IF up.found THEN 200 ELSE 404
  BY <1>1, <1>2, <1>3
<1> HIDE DEF could
<1> QED BY <1>4, <1>5, <1>6 DEF BlamesRightly, could

-----------------------------------------------------------------------------
\* A search finds what is there.
LEMMA SearchesDo == AskSearch => SearchFinds'
<1> SUFFICES ASSUME AskSearch PROVE SearchFinds'
  OBVIOUS
<1>0. PICK q \in Texts : \E receipt, block \in IF IsHex64(q) THEN Fates ELSE {"none"} :
        answer' = [of |-> "search", q |-> q, receipt |-> receipt, block |-> block,
                   goes |-> Search(q, receipt, block)]
  BY Zenon DEF AskSearch, Answered
<1>9. PICK receipt \in Fates, block \in Fates :
        answer' = [of |-> "search", q |-> q, receipt |-> receipt, block |-> block,
                   goes |-> Search(q, receipt, block)]
  <2>1. PICK receipt \in IF IsHex64(q) THEN Fates ELSE {"none"}, block \in IF IsHex64(q) THEN Fates ELSE {"none"} :
          answer' = [of |-> "search", q |-> q, receipt |-> receipt, block |-> block,
                     goes |-> Search(q, receipt, block)]
    BY Zenon, <1>0
  <2>2. receipt \in Fates /\ block \in Fates
    BY DEF Fates
  <2> QED BY <2>1, <2>2
<1> DEFINE goes == Search(q, receipt, block)
<1>1. q.length \in {2, 3, 32, 64}
  BY DEF Texts
<1>2. IsHex64(q) => ~ NormalizeBoingName(q) /\ ~ LooksLikeBoingName(q)
  BY <1>1 DEF IsHex64, NormalizeBoingName, LooksLikeBoingName
<1>3. IsHex64(q) /\ q.chars # {"digit"} => goes = FoundBy(receipt, block)
  BY <1>2 DEF Search, OnlyDigits
<1>4. NormalizeBoingName(q) <=> LooksLikeBoingName(q)
  BY <1>1, <1>2 DEF NormalizeBoingName, LooksLikeBoingName, OnlyDigits
<1>5. goes = "name" <=> LooksLikeBoingName(q)
  BY DEF Search, FoundBy
<1>6. ~q.suffixed /\ q.length = 64 /\ q.chars \subseteq {"digit", "hex"} => goes \notin {"name", "error"}
  <2> SUFFICES ASSUME IsHex64(q) PROVE goes \notin {"name", "error"}
    BY DEF IsHex64
  <2> QED BY <1>2 DEF Search, FoundBy
<1>7. /\ FoundBy(receipt, block) = "tx" <=> receipt = "found"
      /\ FoundBy(receipt, block) = "block" <=> block = "found" /\ receipt # "found"
  BY DEF FoundBy
<1>8. answer'.of = "search" /\ answer'.q = q /\ answer'.receipt = receipt /\ answer'.block = block /\ answer'.goes = goes
  BY <1>9
<1> HIDE DEF goes
<1> QED BY <1>3, <1>4, <1>5, <1>6, <1>7, <1>8 DEF SearchFinds

-----------------------------------------------------------------------------
\* The order of the naturals is well-founded, so that a set of them that has a bound has a greatest.
Below == {p \in Nat \X Nat : p[1] < p[2]}

\* A set of naturals that is not empty has a least.
LEMMA Least ==
  ASSUME NEW T, T \subseteq Nat, T # {}
  PROVE  \E x \in T : \A y \in T : x <= y
<1>1. OpToRel(<, Nat) = Below
  BY Zenon DEF Below, OpToRel
<1>2. IsWellFoundedOn(OpToRel(<, Nat), Nat)
  BY Zenon, NatLessThanWellFounded
<1>3. IsWellFoundedOn(Below, Nat)
  BY Zenon, <1>1, <1>2
<1>4. PICK x \in T : \A y \in T : ~ (<<y, x>> \in Below)
  BY <1>3, WFMin
<1>5. ASSUME NEW y \in T PROVE x <= y
  <2>1. x \in Nat /\ y \in Nat /\ <<y, x>> \notin Below
    BY <1>4, <1>5
  <2>2. ~ (y < x)
    BY <2>1 DEF Below
  <2> QED BY <2>1, <2>2
<1> QED BY <1>5

\* The greatest of a bounded set of naturals is in it.
LEMMA MaxIs ==
  ASSUME NEW b \in Nat, NEW T, T \subseteq 0..b, T # {}
  PROVE  Max(T) \in T /\ \A y \in T : y <= Max(T)
<1> DEFINE U == {b - x : x \in T}
<1>1. U \subseteq Nat /\ U # {}
  <2>1. \A x \in T : b - x \in Nat
    OBVIOUS
  <2> QED BY <2>1
<1>2. PICK u \in U : \A v \in U : u <= v
  BY <1>1, Least
<1>3. PICK x \in T : u = b - x
  OBVIOUS
<1>4. ASSUME NEW y \in T PROVE x >= y
  <2>1. b - x <= b - y
    BY <1>2, <1>3
  <2> QED BY <2>1
<1>5. \E z \in T : \A y \in T : z >= y
  BY <1>4
<1>6. Max(T) \in T /\ \A y \in T : Max(T) >= y
  BY <1>5 DEF Max
<1> QED BY <1>6

\* A proof is found in the newest block that has its root.
LEMMA ProofsDo == RequestAssumption /\ AskProof => ProofsFound'
<1> SUFFICES ASSUME RequestAssumption,
                    NEW roots \in [0..3 -> {1, 2}], NEW head \in {1, 3}, NEW at \in 0..head,
                    NEW missing \in SUBSET ((head - 1)..head),
                    answer' = [of |-> "proof", roots |-> roots, head |-> head, at |-> at, missing |-> missing,
                               got |-> CheckAccountProof(roots[at], "yes", head, roots, missing)]
             PROVE  ProofsFound'
  BY DEF AskProof, Answered
<1> DEFINE root == roots[at]
           from == Max({0, head - Lookback + 1})
           same == {h \in (from..head) \ missing : roots[h] = root}
           matched == IF same = {} THEN Nil ELSE Max(same)
           seen == {h \in from..head : matched = Nil \/ h >= matched}
<1>1. Lookback \in Nat /\ head \in Nat /\ Nil \notin Int
  BY DEF RequestAssumption
<1>2. from \in Nat /\ from >= head - Lookback + 1 /\ from \in {0, head - Lookback + 1}
  <2> DEFINE k == head - Lookback + 1
  <2>1. k \in Int
    BY <1>1
  <2> HIDE DEF k
  <2>2. \E x \in {0, k} : \A y \in {0, k} : x >= y
    BY <2>1
  <2>3. Max({0, k}) \in {0, k} /\ \A y \in {0, k} : Max({0, k}) >= y
    BY <2>2 DEF Max
  <2>4. Max({0, k}) >= 0 /\ Max({0, k}) >= k
    BY <2>3
  <2> QED BY <2>1, <2>3, <2>4 DEF k
<1> HIDE DEF from
<1>3. same # {} => Max(same) \in same /\ \A h \in same : h <= Max(same)
  <2>1. same \subseteq 0..head
    BY <1>1, <1>2
  <2> QED BY <1>1, <2>1, MaxIs
<1>4. matched # Nil <=> same # {}
  <2>1. same \subseteq Int
    BY <1>1, <1>2
  <2> QED BY <1>1, <1>3, <2>1
<1>5. CheckAccountProof(root, "yes", head, roots, missing)
        = [verified |-> "yes", matched |-> matched, inspected |-> seen]
  BY DEF CheckAccountProof, FindRootMatch, from
<1>6. head - at < Lookback /\ at \notin missing => matched # Nil /\ matched >= at
  <2> SUFFICES ASSUME head - at < Lookback, at \notin missing PROVE at \in same
    BY <1>3, <1>4
  <2>1. at >= from /\ at <= head /\ at \in Int
    BY <1>1, <1>2
  <2> QED BY <1>1, <1>2, <2>1
<1>7. matched # Nil => roots[matched] = root /\ matched \notin missing /\ seen = matched..head
  <2> SUFFICES ASSUME matched # Nil
               PROVE  roots[matched] = root /\ matched \notin missing /\ seen = matched..head
    OBVIOUS
  <2>1. matched \in same
    BY <1>3, <1>4
  <2>2. matched \in from..head
    BY <2>1
  <2> HIDE DEF matched
  <2>3. seen = matched..head
    BY <1>1, <1>2, <2>2
  <2> QED BY <2>1, <2>3
<1>8. /\ answer'.of = "proof" /\ answer'.roots = roots /\ answer'.head = head /\ answer'.at = at
      /\ answer'.missing = missing /\ answer'.got.matched = matched /\ answer'.got.inspected = seen
  <2>1. answer'.got = CheckAccountProof(root, "yes", head, roots, missing)
    OBVIOUS
  <2> HIDE DEF matched, seen, same, root
  <2>2. answer'.got.matched = matched /\ answer'.got.inspected = seen
    BY <1>5, <2>1
  <2> QED BY <2>2
<1> HIDE DEF matched, seen, same
<1> QED BY <1>6, <1>7, <1>8 DEF ProofsFound

\* What is told of the storage tree agrees with itself and with the node.
LEMMA ActivationsDo == RequestAssumption /\ AskStorage => ActivationAgrees'
<1> SUFFICES ASSUME RequestAssumption,
                    NEW top \in {Lacking, Malformed, NoHeight, 1, 2}, NEW below \in {Lacking, Malformed, NoHeight, 1, 2},
                    NEW build \in {NoHeight, 1, 3}, NEW head \in -1..3,
                    answer' = StorageTold(top, below, build, head)
             PROVE  ActivationAgrees'
  BY DEF AskStorage, Answered
<1> DEFINE activation == ResolveStorageActivation([top |-> top, below |-> below], build)
           status == DescribeActivationStatus(head, activation)
           modes == [h \in 0..3 |-> StorageTreeModeAt(h, activation)]
<1>1. Nil \notin Int /\ head \in Int
  BY DEF RequestAssumption
<1>2. /\ activation.is \in {"off", "height", "unknown"} /\ activation.at \in Int
      /\ activation.is = "height" => activation.at >= 0
      /\ top = NoHeight => activation.is = "off"
      /\ top \in {1, 2} => activation.is = "height" /\ activation.at = top
  BY DEF ResolveStorageActivation, FindNodeInfoField, Lacking, Malformed, NoHeight
<1>3. /\ answer'.of = "storage" /\ answer'.top = top /\ answer'.head = head
      /\ answer'.status = status /\ answer'.modes = modes
  BY DEF StorageTold
<1> HIDE DEF activation
<1>4. \A h \in 0..3 : modes[h] = StorageTreeModeAt(h, activation)
  OBVIOUS
<1>5. \A h \in 0..3 : /\ activation.is = "off" => modes[h] = "legacy"
                      /\ activation.is = "height" => (modes[h] = "v2" <=> h >= activation.at)
                      /\ activation.is = "unknown" => modes[h] = "unknown"
  BY <1>4 DEF StorageTreeModeAt
<1>6. head >= 0 => (status.state = "active" <=> modes[head] = "v2")
  <2> SUFFICES ASSUME head >= 0 PROVE status.state = "active" <=> modes[head] = "v2"
    OBVIOUS
  <2>1. head \in 0..3 /\ head # NoHeight
    BY DEF NoHeight
  <2>2. status.state = "active" <=> activation.is = "height" /\ head >= activation.at
    BY <1>2, <2>1 DEF DescribeActivationStatus
  <2> QED BY <1>2, <1>5, <2>1, <2>2
<1>7. status.remaining # Nil => activation.is = "height" /\ status.remaining = activation.at - head
  BY DEF DescribeActivationStatus
<1>8. status.remaining # Nil => \A h \in 0..3 : modes[h] = "v2" <=> h >= head + status.remaining
  BY <1>1, <1>2, <1>5, <1>7
<1> HIDE DEF status, modes
<1>9. NoHeight = -1 /\ (top = NoHeight => \A h \in 0..3 : modes[h] = "legacy")
  BY <1>2, <1>5 DEF NoHeight
<1>10. top \in {1, 2} => \A h \in 0..3 : modes[h] = "v2" <=> h >= top
  BY <1>2, <1>5
<1> QED BY <1>3, <1>6, <1>8, <1>9, <1>10 DEF ActivationAgrees

-----------------------------------------------------------------------------
\* The length of a function on the first naturals.
LEMMA LenIs ==
  ASSUME NEW n \in Nat, NEW S, NEW s \in [1..n -> S]
  PROVE  Len(s) = n /\ DOMAIN s = 1..n
<1>1. s \in Seq(S)
  BY SeqDef
<1>2. DOMAIN s = 1..Len(s) /\ Len(s) \in Nat
  BY <1>1, LenProperties
<1>3. DOMAIN s = 1..n
  OBVIOUS
<1>4. \A a, b \in Nat : 1..a = 1..b => a = b
  <2> SUFFICES ASSUME NEW a \in Nat, NEW b \in Nat, 1..a = 1..b PROVE a = b
    OBVIOUS
  <2>1. CASE a < b
    <3>1. b \in 1..b /\ b \notin 1..a
      BY <2>1
    <3> QED BY <3>1
  <2>2. CASE b < a
    <3>1. a \in 1..a /\ a \notin 1..b
      BY <2>2
    <3> QED BY <3>1
  <2> QED BY <2>1, <2>2
<1> QED BY <1>2, <1>3, <1>4

\* What is left out of a transaction and what comes back of it.
LEMMA SlimIs ==
  ASSUME NEW tx \in Whole
  PROVE  /\ Slim(tx).sender = tx.sender /\ Slim(tx).kind = tx.kind /\ Slim(tx).size = tx.size
         /\ Slim(Slim(tx)) = Slim(tx)
         /\ tx.kind # "ContractCall" => Slim(tx) = tx
         /\ tx.kind = "ContractCall" =>
              /\ Slim(tx).omitted
              /\ \A d : Slim([Slim(tx) EXCEPT !.omitted = FALSE, !.data = d]) = Slim(tx)
              /\ [Slim(tx) EXCEPT !.omitted = FALSE, !.data = tx.data] = tx
<1>1. CASE tx.kind # "ContractCall"
  <2>1. Slim(tx) = tx
    BY <1>1 DEF Slim
  <2> QED BY <1>1, <2>1
<1>2. CASE tx.kind = "ContractCall"
  <2>1. tx = [sender |-> tx.sender, kind |-> "ContractCall", size |-> tx.size, omitted |-> FALSE, data |-> tx.data]
    BY <1>2 DEF Whole
  <2>2. Slim(tx) = [sender |-> tx.sender, kind |-> "ContractCall", size |-> tx.size, omitted |-> TRUE, data |-> "none"]
    BY <1>2, <2>1 DEF Slim
  <2>3. ASSUME NEW d
        PROVE  [Slim(tx) EXCEPT !.omitted = FALSE, !.data = d]
                 = [sender |-> tx.sender, kind |-> "ContractCall", size |-> tx.size, omitted |-> FALSE, data |-> d]
    <3> DEFINE r == Slim(tx)
               y == [r EXCEPT !.omitted = FALSE, !.data = d]
    <3>1. r = [sender |-> tx.sender, kind |-> "ContractCall", size |-> tx.size, omitted |-> TRUE, data |-> "none"]
      BY <2>2
    <3> HIDE DEF r
    <3>2. y = [r EXCEPT !.omitted = FALSE, !.data = d]
      OBVIOUS
    <3> HIDE DEF y
    <3>3. y = [sender |-> tx.sender, kind |-> "ContractCall", size |-> tx.size, omitted |-> FALSE, data |-> d]
      BY <3>1, <3>2
    <3> QED BY <3>3 DEF r, y
  <2>4. ASSUME NEW d
        PROVE  Slim([Slim(tx) EXCEPT !.omitted = FALSE, !.data = d]) = Slim(tx)
    BY <2>2, <2>3 DEF Slim
  <2>5. Slim(Slim(tx)) = Slim(tx)
    BY <2>2 DEF Slim
  <2>6. [Slim(tx) EXCEPT !.omitted = FALSE, !.data = tx.data] = tx
    BY <2>1, <2>3
  <2>7. Slim(tx).sender = tx.sender /\ Slim(tx).kind = tx.kind /\ Slim(tx).size = tx.size /\ Slim(tx).omitted
    BY <1>2, <2>2
  <2> QED BY <1>2, <2>4, <2>5, <2>6, <2>7
<1> QED BY <1>1, <1>2

\* A block gets back its own calldata.
LEMMA RestoresDo == RequestAssumption /\ AnswerAssumption /\ AskRestore => CalldataRestored'
<1> SUFFICES ASSUME RequestAssumption, AnswerAssumption, NEW block \in [1..2 -> Whole], NEW whole,
                    answer' = [of |-> "restore", block |-> block, whole |-> whole,
                               got |-> RestoreBlockCalldata([i \in 1..2 |-> Slim(block[i])], whole)]
             PROVE  CalldataRestored'
  BY Zenon DEF AskRestore, Answered
<1> DEFINE slim == [i \in 1..2 |-> Slim(block[i])]
           got == RestoreBlockCalldata(slim, whole)
           taken(i) == /\ Restorable(slim[i]) /\ whole[i].sender = slim[i].sender
                       /\ whole[i].kind = "ContractCall" /\ ~whole[i].omitted
<1>1. Len(slim) = 2 /\ DOMAIN slim = 1..2
  <2>1. slim \in [1..2 -> {Slim(block[i]) : i \in 1..2}]
    OBVIOUS
  <2> HIDE DEF slim
  <2> QED BY <2>1, LenIs
<1>2. whole = block => whole # Nil /\ Len(whole) = 2
  BY LenIs DEF AnswerAssumption
<1>3. ASSUME NEW i \in 1..2
      PROVE  \/ whole # block /\ got[i] = slim[i]
             \/ ~ taken(i) /\ got[i] = slim[i]
             \/ taken(i) /\ got[i] = [slim[i] EXCEPT !.omitted = FALSE, !.data = whole[i].data]
  <2>1. CASE whole = Nil \/ Len(whole) # 2
    <3>1. got = slim
      BY <1>1, <2>1 DEF RestoreBlockCalldata
    <3>2. whole # block
      BY <1>2, <2>1
    <3> QED BY <3>1, <3>2
  <2>2. CASE ~ (whole = Nil \/ Len(whole) # 2)
    <3> HIDE DEF slim
    <3>1. got = [j \in 1..2 |-> IF taken(j) THEN [slim[j] EXCEPT !.omitted = FALSE, !.data = whole[j].data] ELSE slim[j]]
      BY <1>1, <2>2 DEF RestoreBlockCalldata
    <3> QED BY <3>1
  <2> QED BY <2>1, <2>2
<1>4. \A i \in 1..2 : slim[i] = Slim(block[i]) /\ block[i] \in Whole
  OBVIOUS
<1>5. answer'.of = "restore" /\ answer'.block = block /\ answer'.whole = whole /\ answer'.got = got
  OBVIOUS
<1> HIDE DEF got, slim
<1>6. ASSUME NEW i \in 1..2
      PROVE  /\ got[i].kind = "ContractCall" /\ whole = block /\ block[i].size <= RestoreCap => got[i] = block[i]
             /\ got[i] \notin {block[i], Slim(block[i])} => whole # block /\ whole[i].sender = block[i].sender
             /\ Slim(got[i]) = Slim(block[i])
  <2> DEFINE tx == block[i]
  <2>1. tx \in Whole /\ slim[i] = Slim(tx)
    BY <1>4
  <2> HIDE DEF tx
  <2>2. /\ Slim(tx).sender = tx.sender /\ Slim(tx).kind = tx.kind /\ Slim(tx).size = tx.size
        /\ Slim(Slim(tx)) = Slim(tx) /\ (tx.kind # "ContractCall" => Slim(tx) = tx)
        /\ (tx.kind = "ContractCall" => Slim(tx).omitted)
    BY <2>1, SlimIs
  <2>3. CASE got[i] = slim[i] /\ whole # block
    BY <2>1, <2>2, <2>3 DEF tx
  <2>4. CASE got[i] = slim[i] /\ ~ taken(i) /\ whole = block
    <3>1. ASSUME tx.kind = "ContractCall", tx.size <= RestoreCap PROVE FALSE
      <4>1. Restorable(slim[i])
        BY <2>1, <2>2, <3>1 DEF Restorable
      <4>2. whole[i] = tx /\ ~ tx.omitted
        BY <2>1, <2>4 DEF Whole, tx
      <4> QED BY <2>1, <2>2, <2>4, <3>1, <4>1, <4>2
    <3> QED BY <2>1, <2>2, <2>4, <3>1 DEF tx
  <2>5. CASE taken(i) /\ got[i] = [slim[i] EXCEPT !.omitted = FALSE, !.data = whole[i].data]
    <3>1. tx.kind = "ContractCall" /\ whole[i].sender = tx.sender
      BY <2>1, <2>2, <2>5 DEF Restorable
    <3>2. Slim(got[i]) = Slim(tx)
      <4>1. \A d : Slim([Slim(tx) EXCEPT !.omitted = FALSE, !.data = d]) = Slim(tx)
        BY <2>1, <3>1, SlimIs
      <4>2. got[i] = [Slim(tx) EXCEPT !.omitted = FALSE, !.data = whole[i].data]
        BY <2>1, <2>5
      <4> QED BY <4>1, <4>2
    <3>3. whole = block => got[i] = tx
      <4>1. [Slim(tx) EXCEPT !.omitted = FALSE, !.data = tx.data] = tx
        BY <2>1, <3>1, SlimIs
      <4> QED BY <2>1, <2>5, <4>1 DEF tx
    <3> QED BY <3>1, <3>2, <3>3 DEF tx
  <2> QED BY <1>3, <2>3, <2>4, <2>5
<1> QED BY <1>5, <1>6 DEF CalldataRestored

-----------------------------------------------------------------------------
\* The least of a set of naturals is in it.
LEMMA MinIs ==
  ASSUME NEW T, T \subseteq Nat, T # {}
  PROVE  Min(T) \in T /\ \A y \in T : Min(T) <= y
<1>1. \E x \in T : \A y \in T : x =< y
  BY Least
<1> QED BY <1>1 DEF Min

\* A document with a flaw does not fit.
LEMMA UsableFits ==
  ASSUME RequestAssumption, NEW g \in Documents
  PROVE  FitsMetadata(g) <=> g = Proper \/ g = [Proper EXCEPT !.object = FALSE, !.type = "json"]
<1> DEFINE json == [Proper EXCEPT !.object = FALSE, !.type = "json"]
<1>1. TextCap \in Nat /\ TextCap > 0 /\ ~ (TextCap + 1 <= TextCap)
  BY DEF RequestAssumption
<1>2. json = [ok |-> TRUE, breaks |-> FALSE, declared |-> 0, size |-> TextCap, object |-> FALSE, type |-> "json",
              parses |-> TRUE]
  <2>1. Proper = [ok |-> TRUE, breaks |-> FALSE, declared |-> 0, size |-> TextCap, object |-> TRUE, type |-> "text",
                  parses |-> TRUE]
    BY DEF Proper
  <2>2. json = [Proper EXCEPT !.object = FALSE, !.type = "json"]
    OBVIOUS
  <2> HIDE DEF json
  <2> QED BY <2>1, <2>2
<1> HIDE DEF json
<1> DEFINE fine(f) == f.ok /\ ~ f.breaks /\ f.declared = 0 /\ f.size = TextCap /\ (f.object \/ f.type = "json") /\ f.parses
<1>3. fine(Proper) /\ fine(json)
  <2>1. fine(Proper)
    BY DEF Proper
  <2>2. fine(json)
    BY <1>2
  <2> QED BY <2>1, <2>2
<1> HIDE DEF fine
<1>4. ASSUME g \in {Proper, json} PROVE FitsMetadata(g)
  <2>0. fine(g)
    BY <1>3, <1>4
  <2>1. g.ok /\ ~ g.breaks /\ g.declared = 0 /\ g.size = TextCap /\ (g.object \/ g.type = "json") /\ g.parses
    BY <2>0 DEF fine
  <2>2. g.declared <= TextCap /\ g.size <= TextCap /\ g.size > 0
    BY <1>1, <2>1
  <2> QED BY <2>1, <2>2 DEF FitsMetadata, ReadTextCapped
<1>5. ASSUME \/ ~ g.ok \/ g.breaks \/ ~ g.parses \/ g.declared = TextCap + 1 \/ g.size = TextCap + 1 \/ g.size = 0
             \/ ~ g.object /\ g.type # "json"
      PROVE  ~ FitsMetadata(g) /\ g \notin {Proper, json}
  <2>1. ~ FitsMetadata(g)
    BY <1>1, <1>5 DEF FitsMetadata, ReadTextCapped
  <2> QED BY <1>4, <2>1
<1>6. CASE g \in {[Proper EXCEPT !.ok = FALSE], [Proper EXCEPT !.breaks = TRUE], [Proper EXCEPT !.parses = FALSE]}
  <2>1. ~g.ok \/ g.breaks \/ ~g.parses
    BY <1>6 DEF Proper
  <2> QED BY <1>5, <2>1 DEF json
<1>7. CASE g \in {[Proper EXCEPT !.declared = TextCap + 1], [Proper EXCEPT !.size = TextCap + 1],
                  [Proper EXCEPT !.size = 0]}
  <2>1. g.declared = TextCap + 1 \/ g.size = TextCap + 1 \/ g.size = 0
    BY <1>7 DEF Proper
  <2> QED BY <1>5, <2>1 DEF json
<1>8. CASE g = [Proper EXCEPT !.object = FALSE]
  <2>1. ~g.object /\ g.type = "text"
    BY <1>8 DEF Proper
  <2>2. ~g.object /\ g.type # "json"
    BY <2>1
  <2> QED BY <1>5, <2>2 DEF json
<1>9. CASE g \in {Proper, json}
  BY <1>4, <1>9 DEF json
<1> QED BY <1>6, <1>7, <1>8, <1>9 DEF Documents, json

\* The first document that fits is taken.
LEMMA MetadataDo == RequestAssumption /\ AskMetadata => DocumentsShown'
<1> SUFFICES ASSUME RequestAssumption, NEW n \in 0..3, NEW gateways \in [1..n -> Documents],
                    answer' = [of |-> "metadata", gateways |-> gateways,
                               from |-> ResolveOffchainTokenMetadata(gateways)]
             PROVE  DocumentsShown'
  BY DEF AskMetadata, Answered
<1> DEFINE usable(g) == g = Proper \/ g = [Proper EXCEPT !.object = FALSE, !.type = "json"]
           fit == {i \in 1..Len(gateways) : FitsMetadata(gateways[i])}
           from == IF fit # {} THEN Min(fit) ELSE 0
<1>1. Len(gateways) = n /\ DOMAIN gateways = 1..n
  BY LenIs
<1>2. \A i \in 1..n : i \in fit <=> usable(gateways[i])
  BY <1>1, UsableFits
<1>3. fit \subseteq 1..n
  BY <1>1
<1>4. ResolveOffchainTokenMetadata(gateways) = from
  BY DEF ResolveOffchainTokenMetadata, SelectInSeq
<1>5. answer'.of = "metadata" /\ answer'.gateways = gateways /\ answer'.from = from
  BY <1>4
<1> HIDE DEF fit, usable
<1>6. fit # {} => from \in fit /\ \A j \in fit : from <= j
  <2>1. fit \subseteq Nat
    BY <1>3
  <2> QED BY <2>1, MinIs
<1>7. from = 0 <=> \A j \in 1..n : ~usable(gateways[j])
  <2>1. from = 0 <=> fit = {}
    <3>1. 0 \notin fit
      BY <1>3
    <3> QED BY <1>6, <3>1
  <2>2. fit = {} <=> \A j \in 1..n : j \notin fit
    BY <1>3
  <2> HIDE DEF from
  <2> QED BY <1>2, <2>1, <2>2
<1>8. from # 0 => usable(gateways[from]) /\ \A j \in 1..(from - 1) : ~usable(gateways[j])
  <2> SUFFICES ASSUME fit # {} PROVE usable(gateways[from]) /\ \A j \in 1..(from - 1) : ~usable(gateways[j])
    OBVIOUS
  <2>1. from \in 1..n /\ from \in fit
    BY <1>3, <1>6
  <2> HIDE DEF from
  <2>2. ASSUME NEW j \in 1..(from - 1) PROVE j \in 1..n /\ j \notin fit
    BY <1>6, <2>1
  <2> QED BY <1>2, <2>1, <2>2
<1> HIDE DEF from
<1> QED BY <1>1, <1>5, <1>7, <1>8 DEF DocumentsShown, usable

\* What the two fields of an asset tell.
LEMMA FieldIs ==
  ASSUME AnswerAssumption, NEW f \in Fields
  PROVE  /\ f.of \in {1, 2}
         /\ Tells(f, "name") \in {Nil, "url", "Coin"} /\ Tells(f, "symbol") \in {Nil, "url", "CN"}
         /\ Tells(f, "name") # Nil => Tells(f, "name") = f.name
         /\ Tells(f, "symbol") # Nil => Tells(f, "symbol") = f.symbol
         /\ f.symbol = "CN" => Tells(f, "symbol") = "CN"
         /\ f.symbol = Nil => Tells(f, "symbol") = Nil
         /\ f.form = "text" => Tells(f, "name") = Nil
         /\ (Tells(f, "image") = "url") <=> (f.image = "url")
         /\ HumanizeMetadataField(f) \in {Nil, "Coin", "CN"}
         /\ f.form = "text" => HumanizeMetadataField(f) = f.text
<1>1. Nil \notin {"url", "Coin", "CN"}
  BY DEF AnswerAssumption
<1>2. CASE f \in [form: {"object"}, name: {Nil, "url", "Coin"}, symbol: {Nil, "url", "CN"}, image: {Nil, "url"},
                  text: {Nil}, of: {1, 2}]
  BY <1>1, <1>2 DEF Tells, HumanizeMetadataField, IsText
<1>3. CASE f \in [form: {"text"}, name: {Nil}, symbol: {Nil}, image: {Nil}, text: {"Coin", "CN"}, of: {1, 2}]
  BY <1>1, <1>3 DEF Tells, HumanizeMetadataField, IsText
<1>4. CASE f \in [form: {"media", "none"}, name: {Nil}, symbol: {Nil}, image: {Nil}, text: {Nil}, of: {1, 2}]
  BY <1>1, <1>4 DEF Tells, HumanizeMetadataField, IsText
<1> QED BY <1>2, <1>3, <1>4 DEF Fields

\* The first of two that passes a test.
LEMMA FirstIs ==
  ASSUME NEW T, T \subseteq {1, 2}
  PROVE  (IF T # {} THEN Min(T) ELSE 0) = IF 1 \in T THEN 1 ELSE IF 2 \in T THEN 2 ELSE 0
<1>1. T \subseteq Nat
  OBVIOUS
<1>2. CASE T = {}
  BY <1>2
<1>3. CASE T # {}
  <2> DEFINE m == Min(T)
  <2>1. m \in T /\ \A y \in T : m <= y
    BY <1>1, <1>3, MinIs
  <2>2. (IF T # {} THEN Min(T) ELSE 0) = m
    BY <1>3
  <2> HIDE DEF m
  <2>3. m = IF 1 \in T THEN 1 ELSE IF 2 \in T THEN 2 ELSE 0
    <3>1. m = 1 \/ m = 2
      BY <2>1
    <3>2. CASE 1 \in T
      <4>1. m <= 1
        BY <2>1, <3>2
      <4> QED BY <3>1, <3>2, <4>1
    <3>3. CASE 1 \notin T
      BY <2>1, <3>1, <3>3
    <3> QED BY <3>2, <3>3
  <2> QED BY <2>2, <2>3
<1> QED BY <1>2, <1>3

\* Of two sources the text of the first that has one is taken.
LEMMA TextIs ==
  ASSUME NEW a, NEW b, NEW key
  PROVE  FirstText(<<a, b>>, key) =
           IF IsText(Tells(a, key)) THEN a[key] ELSE IF IsText(Tells(b, key)) THEN b[key] ELSE Nil
<1> DEFINE T == {i \in 1..Len(<<a, b>>) : IsText(Tells(<<a, b>>[i], key))}
           i == IF T # {} THEN Min(T) ELSE 0
<1>1. FirstText(<<a, b>>, key) = IF i = 0 THEN Nil ELSE <<a, b>>[i][key]
  BY DEF FirstText, SelectInSeq
<1>2. T \subseteq {1, 2} /\ (1 \in T <=> IsText(Tells(a, key))) /\ (2 \in T <=> IsText(Tells(b, key)))
  OBVIOUS
<1> HIDE DEF T
<1>3. i = IF 1 \in T THEN 1 ELSE IF 2 \in T THEN 2 ELSE 0
  BY <1>2, FirstIs
<1> HIDE DEF i
<1> QED BY <1>1, <1>2, <1>3

\* So is the image, in whichever form it comes.
LEMMA ImageIs ==
  ASSUME NEW a, NEW b
  PROVE  ResolveImageUrlFromSources(<<a, b>>) =
           IF a.form = "media" \/ Tells(a, "image") = "url" THEN a.of
           ELSE IF b.form = "media" \/ Tells(b, "image") = "url" THEN b.of ELSE Nil
<1> DEFINE shows(f) == f.form = "media" \/ Tells(f, "image") = "url"
           T == {i \in 1..Len(<<a, b>>) : shows(<<a, b>>[i])}
           i == IF T # {} THEN Min(T) ELSE 0
<1>1. ResolveImageUrlFromSources(<<a, b>>) = IF i = 0 THEN Nil ELSE <<a, b>>[i].of
  BY DEF ResolveImageUrlFromSources, SelectInSeq
<1>2. T \subseteq {1, 2} /\ (1 \in T <=> shows(a)) /\ (2 \in T <=> shows(b))
  OBVIOUS
<1> HIDE DEF T
<1>3. i = IF 1 \in T THEN 1 ELSE IF 2 \in T THEN 2 ELSE 0
  BY <1>2, FirstIs
<1> HIDE DEF i
<1> QED BY <1>1, <1>2, <1>3

\* What is shown of an asset is its own.
LEMMA DisplayDo == RequestAssumption /\ AnswerAssumption /\ AskDisplay => DocumentsShown'
<1> SUFFICES ASSUME RequestAssumption, AnswerAssumption, NEW name \in Fields, NEW symbol \in Fields,
                    answer' = [of |-> "display", name |-> name, symbol |-> symbol,
                               got |-> ParseAssetDisplayMetadata(name, symbol)]
             PROVE  DocumentsShown'
  BY DEF AskDisplay, Answered
<1> DEFINE named == FirstText(<<name, symbol>>, "name")
           shown == IF named # Nil THEN named ELSE HumanizeMetadataField(name)
           ticker == FirstText(<<name, symbol>>, "symbol")
           other == HumanizeMetadataField(symbol)
           mark == IF ticker # Nil THEN ticker ELSE IF other = shown THEN Nil ELSE other
           image == ResolveImageUrlFromSources(<<name, symbol>>)
<1>1. Nil \notin {"url", "Coin", "CN"} /\ Nil \notin Int
  BY DEF AnswerAssumption, RequestAssumption
<1>2. ParseAssetDisplayMetadata(name, symbol) = [name |-> shown, symbol |-> mark, image |-> image]
  BY DEF ParseAssetDisplayMetadata
<1>3. /\ named \in {Nil, "Coin"}
      /\ name.form = "text" /\ symbol.form = "text" => named = Nil
  BY <1>1, FieldIs, TextIs DEF IsText
<1>4. /\ ticker \in {Nil, "CN"}
      /\ symbol.symbol = "CN" /\ name.symbol = Nil => ticker = "CN"
  BY <1>1, FieldIs, TextIs DEF IsText
<1>5. HumanizeMetadataField(name) \in {Nil, "Coin", "CN"} /\ other \in {Nil, "Coin", "CN"}
      /\ (name.form = "text" => HumanizeMetadataField(name) = name.text)
  BY FieldIs
<1>6. image # Nil <=> (name.form = "media" \/ name.image = "url") \/ (symbol.form = "media" \/ symbol.image = "url")
  BY <1>1, FieldIs, ImageIs
<1>7. answer'.of = "display" /\ answer'.name = name /\ answer'.symbol = symbol
  OBVIOUS
<1>8. answer'.got.name = shown /\ answer'.got.symbol = mark /\ answer'.got.image = image
  <2>1. answer'.got = ParseAssetDisplayMetadata(name, symbol)
    OBVIOUS
  <2> HIDE DEF shown, mark, image
  <2> QED BY <1>2, <2>1
<1> HIDE DEF image, named, ticker, other
<1>9. /\ shown # "url" /\ mark # "url"
      /\ name.form = "text" /\ symbol.form = "text" => shown = name.text
      /\ symbol.symbol = "CN" /\ name.symbol = Nil => mark = "CN"
  BY <1>1, <1>3, <1>4, <1>5
<1> HIDE DEF shown, mark
<1> QED BY <1>6, <1>7, <1>8, <1>9 DEF DocumentsShown

-----------------------------------------------------------------------------
\* What has been asked is told by the answer.
LEMMA AskedIs ==
  /\ AskCall => answer'.of = "call"
  /\ AskError => answer'.of = "error"
  /\ AskRoutes => answer'.of = "route"
  /\ AskSearch => answer'.of = "search"
  /\ AskProof => answer'.of = "proof"
  /\ AskStorage => answer'.of = "storage"
  /\ AskRestore => answer'.of = "restore"
  /\ AskMetadata => answer'.of = "metadata"
  /\ AskDisplay => answer'.of = "display"
<1>1. AskCall => answer'.of = "call"
  BY DEF AskCall, Answered
<1>2. AskError => answer'.of = "error"
  BY DEF AskError, Answered
<1>3. AskRoutes => answer'.of = "route"
  BY DEF AskRoutes, Answered
<1>4. AskSearch => answer'.of = "search"
  BY DEF AskSearch, Answered
<1>5. AskProof => answer'.of = "proof"
  BY DEF AskProof, Answered
<1>6. AskStorage => answer'.of = "storage"
  BY DEF AskStorage, Answered, StorageTold
<1>7. AskRestore => answer'.of = "restore"
  BY DEF AskRestore, Answered
<1>8. AskMetadata => answer'.of = "metadata"
  BY DEF AskMetadata, Answered
<1>9. AskDisplay => answer'.of = "display"
  BY DEF AskDisplay, Answered
<1> QED BY <1>1, <1>2, <1>3, <1>4, <1>5, <1>6, <1>7, <1>8, <1>9

\* Whatever the client asks passes the proxy and is told from every other call by its key; refusals
\* are told for what they are and blamed on whom it is due (lib/rpc-client.ts, lib/rpc-methods.ts,
\* app/api/rpc/route.ts, lib/rpc-error.ts).
THEOREM Through == AnswerSpec => []CallsComeThrough
<1>1. AnswerInit => CallsComeThrough
  BY DEF AnswerInit, Unanswered, CallsComeThrough, CallsPass, RejectionsTold, BlamesRightly
<1>2. CallsComeThrough /\ [AnswerNext]_answer => CallsComeThrough'
  <2> SUFFICES ASSUME CallsComeThrough, [AnswerNext]_answer PROVE CallsComeThrough'
    OBVIOUS
  <2>1. CASE UNCHANGED answer
    BY <2>1 DEF CallsComeThrough, CallsPass, RejectionsTold, BlamesRightly
  <2>2. ASSUME answer'.of # "call", answer'.of # "error", answer'.of # "route" PROVE CallsComeThrough'
    BY <2>2 DEF CallsComeThrough, CallsPass, RejectionsTold, BlamesRightly
  <2>3. CASE AskCall
    <3>1. answer'.of = "call"
      BY <2>3, AskedIs
    <3> QED BY <2>3, <3>1, CallsDo DEF CallsComeThrough, RejectionsTold, BlamesRightly
  <2>4. CASE AskError
    <3>1. answer'.of = "error"
      BY <2>4, AskedIs
    <3> QED BY <2>4, <3>1, ErrorsDo DEF CallsComeThrough, CallsPass, BlamesRightly
  <2>5. CASE AskRoutes
    <3>1. answer'.of = "route"
      BY <2>5, AskedIs
    <3> QED BY <2>5, <3>1, RoutesDo DEF CallsComeThrough, CallsPass, RejectionsTold
  <2>6. CASE AskSearch \/ AskProof \/ AskStorage \/ AskRestore \/ AskMetadata \/ AskDisplay
    <3>1. answer'.of \in {"search", "proof", "storage", "restore", "metadata", "display"}
      BY <2>6, AskedIs
    <3> QED BY <2>2, <3>1
  <2> QED BY <2>1, <2>3, <2>4, <2>5, <2>6 DEF AnswerNext
<1> QED BY <1>1, <1>2, PTL DEF AnswerSpec

\* What is shown is what was asked for: a search goes where the thing is, a proof to its block within the
\* lookback, a slim block gets its own calldata back, the storage tree changes when the node says, and an
\* asset is shown by the first document of its own that fits (components/search-bar.tsx, lib/account-proof.ts,
\* lib/storage-tree.ts, lib/rpc-methods.ts, lib/token-metadata-lookup.ts, lib/extract-media-url.ts).
THEOREM ShownRight == RequestAssumption /\ AnswerAssumption => (AnswerSpec => []ShownIsWhatIsThere)
<1> SUFFICES ASSUME RequestAssumption, AnswerAssumption PROVE AnswerSpec => []ShownIsWhatIsThere
  OBVIOUS
<1>1. AnswerInit => ShownIsWhatIsThere
  BY DEF AnswerInit, Unanswered, ShownIsWhatIsThere, SearchFinds, ProofsFound, ActivationAgrees, CalldataRestored,
         DocumentsShown
<1>2. ShownIsWhatIsThere /\ [AnswerNext]_answer => ShownIsWhatIsThere'
  <2> SUFFICES ASSUME ShownIsWhatIsThere, [AnswerNext]_answer PROVE ShownIsWhatIsThere'
    OBVIOUS
  <2>1. CASE UNCHANGED answer
    BY <2>1 DEF ShownIsWhatIsThere, SearchFinds, ProofsFound, ActivationAgrees, CalldataRestored, DocumentsShown
  <2>2. /\ answer'.of # "search" => SearchFinds'
        /\ answer'.of # "proof" => ProofsFound'
        /\ answer'.of # "storage" => ActivationAgrees'
        /\ answer'.of # "restore" => CalldataRestored'
        /\ answer'.of \notin {"metadata", "display"} => DocumentsShown'
    <3>1. answer'.of # "search" => SearchFinds'
      BY DEF SearchFinds
    <3>2. answer'.of # "proof" => ProofsFound'
      BY DEF ProofsFound
    <3>3. answer'.of # "storage" => ActivationAgrees'
      BY DEF ActivationAgrees
    <3>4. answer'.of # "restore" => CalldataRestored'
      BY DEF CalldataRestored
    <3>5. answer'.of \notin {"metadata", "display"} => DocumentsShown'
      BY DEF DocumentsShown
    <3> QED BY <3>1, <3>2, <3>3, <3>4, <3>5
  <2>3. ASSUME answer'.of = "search" => SearchFinds', answer'.of = "proof" => ProofsFound',
               answer'.of = "storage" => ActivationAgrees', answer'.of = "restore" => CalldataRestored',
               answer'.of \in {"metadata", "display"} => DocumentsShown'
        PROVE  ShownIsWhatIsThere'
    BY <2>2, <2>3 DEF ShownIsWhatIsThere
  <2>4. CASE AskSearch
    <3>1. answer'.of = "search"
      BY <2>4, AskedIs
    <3> QED BY <2>4, <2>3, <3>1, SearchesDo
  <2>5. CASE AskProof
    <3>1. answer'.of = "proof"
      BY <2>5, AskedIs
    <3> QED BY <2>5, <2>3, <3>1, ProofsDo
  <2>6. CASE AskStorage
    <3>1. answer'.of = "storage"
      BY <2>6, AskedIs
    <3> QED BY <2>6, <2>3, <3>1, ActivationsDo
  <2>7. CASE AskRestore
    <3>1. answer'.of = "restore"
      BY <2>7, AskedIs
    <3> QED BY <2>7, <2>3, <3>1, RestoresDo
  <2>8. CASE AskMetadata
    <3>1. answer'.of = "metadata"
      BY <2>8, AskedIs
    <3> QED BY <2>8, <2>3, <3>1, MetadataDo
  <2>9. CASE AskDisplay
    <3>1. answer'.of = "display"
      BY <2>9, AskedIs
    <3> QED BY <2>9, <2>3, <3>1, DisplayDo
  <2>10. CASE AskCall \/ AskError \/ AskRoutes
    <3>1. answer'.of \in {"call", "error", "route"}
      BY <2>10, AskedIs
    <3> QED BY <2>3, <3>1
  <2> QED BY <2>1, <2>4, <2>5, <2>6, <2>7, <2>8, <2>9, <2>10 DEF AnswerNext
<1> QED BY <1>1, <1>2, PTL DEF AnswerSpec

-----------------------------------------------------------------------------
(* Readings: calls are told as they were made, and what they moved.           *)
\* The names that parameters have, and lists of names that differ.
Names == {"to", "amount", "spender", "from", "token_a", "token_b", "fee_bps", "admin", "direction",
          "amount_in", "min_out", "deadline", "recipient", "amount_a", "amount_b", "min_liquidity",
          "liquidity", "min_a", "min_b", "recipient_a", "recipient_b", "pool", "min_shares", "shares"}
Apart(params) ==
  /\ params \in Seq(Names) /\ Len(params) \in 1..6
  /\ \A i, j \in 1..Len(params) : params[i] = params[j] => i = j

\* No function has two parameters of one name.
LEMMA ParamsApart ==
  /\ Apart(<<"fee_bps">>)
  /\ Apart(<<"admin">>)
  /\ Apart(<<"to", "amount">>)
  /\ Apart(<<"spender", "amount">>)
  /\ Apart(<<"token_a", "token_b">>)
  /\ Apart(<<"from", "to", "amount">>)
  /\ Apart(<<"direction", "amount_in", "min_out">>)
  /\ Apart(<<"amount_a", "amount_b", "min_liquidity">>)
  /\ Apart(<<"liquidity", "min_a", "min_b">>)
  /\ Apart(<<"pool", "token_a", "token_b">>)
  /\ Apart(<<"direction", "amount_in", "min_out", "deadline">>)
  /\ Apart(<<"direction", "amount_in", "min_out", "recipient">>)
  /\ Apart(<<"amount_a", "amount_b", "min_liquidity", "deadline">>)
  /\ Apart(<<"liquidity", "min_a", "min_b", "deadline">>)
  /\ Apart(<<"amount_a", "amount_b", "min_shares", "deadline">>)
  /\ Apart(<<"shares", "min_a", "min_b", "deadline">>)
  /\ Apart(<<"direction", "amount_in", "min_out", "recipient", "deadline">>)
  /\ Apart(<<"liquidity", "min_a", "min_b", "recipient_a", "recipient_b">>)
  /\ Apart(<<"liquidity", "min_a", "min_b", "recipient_a", "recipient_b", "deadline">>)
<1>1. Apart(<<"fee_bps">>)
  BY DEF Apart, Names
<1>2. Apart(<<"admin">>)
  BY DEF Apart, Names
<1>3. Apart(<<"to", "amount">>)
  BY DEF Apart, Names
<1>4. Apart(<<"spender", "amount">>)
  BY DEF Apart, Names
<1>5. Apart(<<"token_a", "token_b">>)
  BY DEF Apart, Names
<1>6. Apart(<<"from", "to", "amount">>)
  BY DEF Apart, Names
<1>7. Apart(<<"direction", "amount_in", "min_out">>)
  BY DEF Apart, Names
<1>8. Apart(<<"amount_a", "amount_b", "min_liquidity">>)
  BY DEF Apart, Names
<1>9. Apart(<<"liquidity", "min_a", "min_b">>)
  BY DEF Apart, Names
<1>10. Apart(<<"pool", "token_a", "token_b">>)
  BY DEF Apart, Names
<1>11. Apart(<<"direction", "amount_in", "min_out", "deadline">>)
  BY DEF Apart, Names
<1>12. Apart(<<"direction", "amount_in", "min_out", "recipient">>)
  BY DEF Apart, Names
<1>13. Apart(<<"amount_a", "amount_b", "min_liquidity", "deadline">>)
  BY DEF Apart, Names
<1>14. Apart(<<"liquidity", "min_a", "min_b", "deadline">>)
  BY DEF Apart, Names
<1>15. Apart(<<"amount_a", "amount_b", "min_shares", "deadline">>)
  BY DEF Apart, Names
<1>16. Apart(<<"shares", "min_a", "min_b", "deadline">>)
  BY DEF Apart, Names
<1>17. Apart(<<"direction", "amount_in", "min_out", "recipient", "deadline">>)
  BY DEF Apart, Names
<1>18. Apart(<<"liquidity", "min_a", "min_b", "recipient_a", "recipient_b">>)
  BY DEF Apart, Names
<1>19. Apart(<<"liquidity", "min_a", "min_b", "recipient_a", "recipient_b", "deadline">>)
  BY DEF Apart, Names
<1> QED BY <1>1, <1>2, <1>3, <1>4, <1>5, <1>6, <1>7, <1>8, <1>9, <1>10, <1>11, <1>12, <1>13, <1>14, <1>15, <1>16, <1>17, <1>18, <1>19

\* A function of an interface that is told: its selector is a byte of no router, and its parameters differ.
LEMMA FunctionsAre ==
  ASSUME NEW interface \in Known, NEW f \in Functions(interface)
  PROVE  /\ f = Fn(f.selector, f.name, f.params)
         /\ f.selector \in 1..223 /\ Apart(f.params)
<1>1. CASE interface = "fungible-v1"
  <2>1. f \in FungibleV1
    BY <1>1 DEF Functions
  <2> QED BY <2>1, ParamsApart DEF FungibleV1, Fn
<1>2. CASE interface = "fungible-v2"
  <2>1. f \in FungibleV2
    BY <1>2 DEF Functions
  <2> QED BY <2>1, ParamsApart DEF FungibleV2, FungibleV1, Fn
<1>3. CASE interface = "pool-custody"
  <2>1. f \in PoolCustody
    BY <1>3 DEF Functions
  <2> QED BY <2>1, ParamsApart DEF PoolCustody, PoolAdmin, Fn
<1>4. CASE interface = "pool-ledger"
  <2>1. f \in PoolLedger
    BY <1>4 DEF Functions
  <2> QED BY <2>1, ParamsApart DEF PoolLedger, PoolAdmin, Fn
<1>5. CASE interface = "lp-vault-v2"
  <2>1. f \in LpVaultV2
    BY <1>5 DEF Functions
  <2> QED BY <2>1, ParamsApart DEF LpVaultV2, Fn
<1> QED BY <1>1, <1>2, <1>3, <1>4, <1>5 DEF Known

\* A selector is that of one function of an interface.
LEMMA SelectorTells ==
  ASSUME NEW interface \in Known, NEW f \in Functions(interface), NEW g \in Functions(interface),
         f.selector = g.selector
  PROVE  f = g
<1>1. CASE interface = "fungible-v1"
  BY <1>1 DEF Functions, FungibleV1, Fn
<1>2. CASE interface = "fungible-v2"
  BY <1>2 DEF Functions, FungibleV2, FungibleV1, Fn
<1>3. CASE interface = "pool-custody"
  BY <1>3 DEF Functions, PoolCustody, PoolAdmin, Fn
<1>4. CASE interface = "pool-ledger"
  BY <1>4 DEF Functions, PoolLedger, PoolAdmin, Fn
<1>5. CASE interface = "lp-vault-v2"
  BY <1>5 DEF Functions, LpVaultV2, Fn
<1> QED BY <1>1, <1>2, <1>3, <1>4, <1>5 DEF Known

\* The words of a call: the selector, then the arguments in order.
LEMMA EncodeIs ==
  ASSUME NEW f, Apart(f.params), NEW args
  PROVE  LET words == Encode(f, args) IN
         /\ Len(words) = Len(f.params) + 1 /\ words[1] = f.selector /\ words # <<>>
         /\ Len(Tail(words)) = Len(f.params)
         /\ \A i \in 1..Len(f.params) : Tail(words)[i] = args[f.params[i]]
<1> DEFINE s == [i \in DOMAIN f.params |-> args[f.params[i]]]
           V == {args[f.params[i]] : i \in DOMAIN f.params} \cup {f.selector}
<1>1. DOMAIN f.params = 1..Len(f.params) /\ Len(f.params) \in Nat
  BY DEF Apart
<1>2. s \in Seq(V) /\ Len(s) = Len(f.params) /\ \A i \in 1..Len(f.params) : s[i] = args[f.params[i]]
  BY <1>1
<1>3. <<f.selector>> \in Seq(V)
  OBVIOUS
<1> HIDE DEF s, V
<1>4. Encode(f, args) = <<f.selector>> \o s
  BY DEF Encode, s
<1> DEFINE words == <<f.selector>> \o s
<1>5. words \in Seq(V) /\ Len(words) = Len(s) + 1 /\ words[1] = f.selector
      /\ \A i \in 1..Len(s) : words[i + 1] = s[i]
  BY <1>3, <1>2
<1> HIDE DEF words
<1>6. words # <<>> /\ Len(Tail(words)) = Len(s) /\ \A i \in 1..Len(s) : Tail(words)[i] = words[i + 1]
  BY <1>1, <1>2, <1>5
<1> QED BY <1>2, <1>4, <1>5, <1>6 DEF words

\* What reads back of such words, for parameters that differ.
Reading(params, words) == [p \in Range(params) |-> words[CHOOSE i \in DOMAIN params : params[i] = p]]

\* Arguments put down word by word are read back by their names.
LEMMA ArgsReadBack ==
  ASSUME NEW params, Apart(params), NEW V, NEW args \in [Range(params) -> V],
         NEW words, \A i \in 1..Len(params) : words[i] = args[params[i]]
  PROVE  Reading(params, words) = args
<1>1. DOMAIN params = 1..Len(params)
  BY DEF Apart
<1>2. ASSUME NEW p \in Range(params) PROVE words[CHOOSE i \in DOMAIN params : params[i] = p] = args[p]
  <2>1. PICK j \in 1..Len(params) : params[j] = p
    BY <1>1 DEF Range
  <2>2. (CHOOSE i \in DOMAIN params : params[i] = p) = j
    BY <1>1, <2>1 DEF Apart
  <2> QED BY <2>1, <2>2
<1> QED BY <1>2 DEF Reading

\* A call of a known interface reads back as itself.
LEMMA ReadsBack ==
  ASSUME NEW interface \in Known, NEW f \in Functions(interface), NEW args \in Arguments(f), NEW c
  PROVE  DecodeWithFunctions(interface, c, Encode(f, args)) =
           <<[interface |-> interface, contract |-> c, name |-> f.name, args |-> args,
              hops |-> <<>>, inner |-> Nothing]>>
<1> DEFINE words == Encode(f, args)
           fits == {g \in Functions(interface) : g.selector = SelectorOf(words) /\ Len(g.params) + 1 = Len(words)}
           f1 == CHOOSE g \in fits : TRUE
<1>1. f.selector \in 1..223 /\ Apart(f.params)
  BY FunctionsAre
<1>2. /\ Len(words) = Len(f.params) + 1 /\ words[1] = f.selector /\ words # <<>>
      /\ \A i \in 1..Len(f.params) : Tail(words)[i] = args[f.params[i]]
  BY <1>1, EncodeIs
<1>3. DecodeWithFunctions(interface, c, words) =
        IF fits = {} THEN Nothing
        ELSE <<Call(interface, c, f1.name, f1.params, Tail(words), <<>>, Nothing)>>
  BY DEF DecodeWithFunctions
<1> HIDE DEF words
<1>4. SelectorOf(words) = f.selector
  <2>1. words # <<>> /\ words[1] = f.selector
    BY <1>2
  <2>2. f.selector < 256
    BY <1>1
  <2> QED BY <2>1, <2>2 DEF SelectorOf
<1>5. fits = {f}
  BY <1>2, <1>4, SelectorTells
<1>6. f1 = f
  BY <1>5
<1> HIDE DEF fits, f1
<1>7. DecodeWithFunctions(interface, c, words) = <<Call(interface, c, f.name, f.params, Tail(words), <<>>, Nothing)>>
  BY <1>3, <1>5, <1>6
<1>8. args \in [Range(f.params) -> UNION {Argument(p) : p \in Range(f.params)}]
  BY DEF Arguments
<1>9. Reading(f.params, Tail(words)) = args
  BY <1>1, <1>2, <1>8, ArgsReadBack
<1>10. Call(interface, c, f.name, f.params, Tail(words), <<>>, Nothing)
         = [interface |-> interface, contract |-> c, name |-> f.name, args |-> args, hops |-> <<>>, inner |-> Nothing]
  BY <1>9 DEF Call, Reading
<1> QED BY <1>7, <1>10 DEF words

\* A call of the one family of pools has as many words as one of the other only if they have it in common.
LEMMA FamiliesTold ==
  ASSUME NEW f \in PoolLedger, NEW args, NEW c, f \notin PoolAdmin
  PROVE  DecodeWithFunctions("pool-custody", c, Encode(f, args)) = Nothing
<1> DEFINE words == Encode(f, args)
           fits == {g \in Functions("pool-custody") : g.selector = SelectorOf(words) /\ Len(g.params) + 1 = Len(words)}
<1>1. f \in Functions("pool-ledger") /\ Functions("pool-custody") = PoolCustody /\ "pool-ledger" \in Known
  BY DEF Functions, Known
<1>2. f.selector \in 1..223 /\ Apart(f.params)
  BY <1>1, FunctionsAre
<1>3. Len(words) = Len(f.params) + 1 /\ words[1] = f.selector /\ words # <<>>
  BY <1>2, EncodeIs
<1>4. \A g \in PoolCustody : g.selector = f.selector => Len(g.params) # Len(f.params)
  <2>1. \/ f.selector = 16 /\ Len(f.params) = 3
        \/ f.selector = 21 /\ Len(f.params) = 4
        \/ f.selector = 17 /\ Len(f.params) = 3
        \/ f.selector = 18 /\ Len(f.params) = 3
        \/ f.selector = 22 /\ Len(f.params) = 5
    BY DEF PoolLedger, Fn
  <2>2. ASSUME NEW g \in PoolCustody
        PROVE  /\ g.selector = 16 => Len(g.params) = 4
               /\ g.selector = 21 => Len(g.params) = 5
               /\ g.selector = 17 => Len(g.params) = 4
               /\ g.selector = 18 => Len(g.params) = 4
               /\ g.selector = 22 => Len(g.params) = 6
    BY <2>2 DEF PoolCustody, PoolAdmin, Fn
  <2> SUFFICES ASSUME NEW g \in PoolCustody, g.selector = f.selector PROVE Len(g.params) # Len(f.params)
    OBVIOUS
  <2> DEFINE a == Len(f.params)
             b == Len(g.params)
             n == f.selector
             m == g.selector
  <2>3. \/ n = 16 /\ a = 3
        \/ n = 21 /\ a = 4
        \/ n = 17 /\ a = 3
        \/ n = 18 /\ a = 3
        \/ n = 22 /\ a = 5
    BY <2>1
  <2>4. /\ m = 16 => b = 4
        /\ m = 21 => b = 5
        /\ m = 17 => b = 4
        /\ m = 18 => b = 4
        /\ m = 22 => b = 6
    BY <2>2
  <2>5. m = n
    OBVIOUS
  <2> HIDE DEF a, b, n, m
  <2>6. a # b
    BY <2>3, <2>4, <2>5
  <2> QED BY <2>6 DEF a, b
<1>5. \A g \in PoolCustody : Len(g.params) \in Nat
  BY DEF PoolCustody, PoolAdmin, Fn
<1>6. Len(f.params) \in Nat
  BY <1>2 DEF Apart
<1>7. DecodeWithFunctions("pool-custody", c, words) = Nothing \/ fits # {}
  BY DEF DecodeWithFunctions
<1> HIDE DEF words
<1>8. SelectorOf(words) = f.selector
  <2>1. f.selector < 256
    BY <1>2
  <2> QED BY <1>3, <2>1 DEF SelectorOf
<1>9. fits = {}
  BY <1>1, <1>3, <1>4, <1>5, <1>6, <1>8
<1> QED BY <1>7, <1>9 DEF words

\* A call of a pool reads back as itself, in its own family or, for administration, in the other.
LEMMA PoolReadsBack ==
  ASSUME NEW interface \in Pools, NEW f \in Functions(interface), NEW args \in Arguments(f), NEW c
  PROVE  \E family \in Pools :
           /\ family = interface \/ f \in PoolAdmin
           /\ DecodePoolCall(c, Encode(f, args)) =
                <<[interface |-> family, contract |-> c, name |-> f.name, args |-> args,
                   hops |-> <<>>, inner |-> Nothing]>>
<1> DEFINE Read(family) == <<[interface |-> family, contract |-> c, name |-> f.name, args |-> args,
                             hops |-> <<>>, inner |-> Nothing]>>
           words == Encode(f, args)
<1>1. \A family : Read(family) # Nothing
  BY DEF Nothing
<1>2. Functions("pool-custody") = PoolCustody /\ Functions("pool-ledger") = PoolLedger
      /\ {"pool-custody", "pool-ledger"} \subseteq Known /\ PoolAdmin \subseteq PoolCustody
      /\ Pools = {"pool-custody", "pool-ledger"}
  BY DEF Functions, Known, PoolCustody, Pools
<1>3. CASE f \in PoolCustody
  <2>1. DecodeWithFunctions("pool-custody", c, words) = Read("pool-custody")
    BY <1>2, <1>3, ReadsBack
  <2> HIDE DEF Read
  <2>2. DecodePoolCall(c, words) = Read("pool-custody")
    BY <1>1, <2>1 DEF DecodePoolCall
  <2>3. interface = "pool-custody" \/ f \in PoolAdmin
    <3> SUFFICES ASSUME f \in PoolLedger, f \in PoolCustody PROVE f \in PoolAdmin
      BY <1>2, <1>3
    <3> QED BY DEF PoolLedger, PoolCustody, PoolAdmin, Fn
  <2> QED BY <1>2, <2>2, <2>3 DEF Read
<1>4. CASE f \notin PoolCustody
  <2>1. interface = "pool-ledger" /\ f \in PoolLedger /\ f \notin PoolAdmin
    BY <1>2, <1>4
  <2>2. DecodeWithFunctions("pool-custody", c, words) = Nothing
    BY <2>1, FamiliesTold
  <2>3. DecodeWithFunctions("pool-ledger", c, words) = Read("pool-ledger")
    BY <1>2, <2>1, ReadsBack
  <2> HIDE DEF Read, words
  <2>4. DecodePoolCall(c, words) = Read("pool-ledger")
    BY <2>2, <2>3 DEF DecodePoolCall
  <2> QED BY <1>2, <2>1, <2>4 DEF Read, words
<1> QED BY <1>3, <1>4

\* Calls read back, of an interface that is told or only known to be a pool's.
LEMMA CallsRead == ReadCall => CallsReadBack'
<1> SUFFICES ASSUME NEW interface \in Known, NEW f \in Functions(interface), NEW args \in Arguments(f),
                    NEW told \in {interface, "none"}, told = "none" => interface \in Pools,
                    reading' = [of |-> "call", interface |-> interface, name |-> f.name, args |-> args,
                                decoded |-> DecodeContractCall(Contract, Encode(f, args), told, TRUE)]
             PROVE  CallsReadBack'
  BY DEF ReadCall
<1> DEFINE decoded == DecodeContractCall(Contract, Encode(f, args), told, TRUE)
           words == Encode(f, args)
<1>1. SelectorOf(words) # -1
  <2>1. f.selector \in 1..223 /\ Apart(f.params)
    BY FunctionsAre
  <2>2. words # <<>> /\ words[1] = f.selector
    BY <2>1, EncodeIs
  <2>3. f.selector < 256 /\ f.selector # -1
    BY <2>1
  <2> HIDE DEF words
  <2> QED BY <2>2, <2>3 DEF SelectorOf
<1>2. \E family :
        /\ family = interface \/ f \in PoolAdmin
        /\ decoded = <<[interface |-> family, contract |-> Contract, name |-> f.name, args |-> args,
                        hops |-> <<>>, inner |-> Nothing]>>
  <2>1. CASE told = "none"
    <3>1. decoded = DecodePoolCall(Contract, words)
      BY <1>1, <2>1 DEF DecodeContractCall
    <3>2. interface \in Pools
      BY <2>1
    <3> HIDE DEF decoded
    <3> QED BY <3>1, <3>2, PoolReadsBack
  <2>2. CASE told # "none"
    <3>1. told = interface /\ told \notin {"custody-router", "ledger-router", "none"}
      BY <2>2 DEF Known
    <3>2. decoded = DecodeWithFunctions(interface, Contract, words)
      BY <1>1, <3>1 DEF DecodeContractCall
    <3> QED BY <3>2, ReadsBack
  <2> QED BY <2>1, <2>2
<1>3. /\ reading'.of = "call" /\ reading'.interface = interface /\ reading'.name = f.name
      /\ reading'.args = args /\ reading'.decoded = decoded
  OBVIOUS
<1> HIDE DEF decoded
<1>4. /\ decoded # Nothing /\ decoded[1].name = f.name /\ decoded[1].args = args
      /\ decoded[1].interface = interface \/ f \in PoolAdmin
  BY <1>2 DEF Nothing
<1>5. decoded[1].interface = interface \/ f.name \in {g.name : g \in PoolAdmin}
  BY <1>4
<1> QED BY <1>3, <1>4, <1>5 DEF CallsReadBack

\* The contract and the width of a word are naturals.
LEMMA ContractIs == WideAssumption /\ ReadingAssumption => Contract \in Nat /\ Wide \in Nat
BY DEF WideAssumption, ReadingAssumption, Contract

\* What follows the first words.
Joined(words, s, t) ==
  /\ words \in Seq(Int) /\ Len(words) = Len(s) + Len(t)
  /\ \A i \in 1..Len(s) : words[i] = s[i]
  /\ \A i \in 1..Len(t) : words[Len(s) + i] = t[i]

\* A sequence put behind another.
LEMMA JoinedIs == ASSUME NEW s \in Seq(Int), NEW t \in Seq(Int) PROVE Joined(s \o t, s, t)
<1> DEFINE words == s \o t
<1>1. words \in Seq(Int) /\ Len(words) = Len(s) + Len(t)
  BY ConcatProperties
<1>2. \A i \in 1..(Len(s) + Len(t)) : words[i] = IF i <= Len(s) THEN s[i] ELSE t[i - Len(s)]
  BY ConcatProperties
<1>3. Len(s) \in Nat /\ Len(t) \in Nat
  BY LenProperties
<1> HIDE DEF words
<1>4. \A i \in 1..Len(s) : words[i] = s[i]
  BY <1>2, <1>3
<1>5. ASSUME NEW i \in 1..Len(t) PROVE words[Len(s) + i] = t[i]
  <2>1. Len(s) + i \in 1..(Len(s) + Len(t)) /\ ~(Len(s) + i <= Len(s)) /\ Len(s) + i - Len(s) = i
    BY <1>3
  <2> QED BY <1>2, <2>1
<1>6. Joined(words, s, t)
  BY <1>1, <1>4, <1>5 DEF Joined
<1> QED BY <1>6 DEF words

\* The words of a swap through several pools.
IsRoute(words, n, hops) ==
  /\ words \in Seq(Int) /\ Len(words) = 6 + 3 * n /\ words # <<>> /\ words[1] = 241 /\ words[2] = n
  /\ \A h \in 1..n : /\ words[4 + 3 * h] = hops[h].pool
                     /\ words[5 + 3 * h] = hops[h].direction
                     /\ words[6 + 3 * h] = hops[h].tokenIn

\* The words of a route are the route again, hop by hop.
LEMMA RouteIs ==
  ASSUME Contract \in Nat, Wide \in Nat, NEW n \in 0..5, NEW hops \in [1..n -> Hop]
  PROVE  IsRoute(RouteWords(hops), n, hops)
<1>1. Len(hops) = n
  BY LenIs
<1>2. Contract \in Nat /\ Wide \in Nat
  OBVIOUS
<1> DEFINE start == <<241, n, 1, 1, Contract, 2>>
           rest == HopWords(hops)
<1>3. start \in Seq(Int) /\ Len(start) = 6 /\ start[1] = 241 /\ start[2] = n
  BY <1>2
<1>4. \A h \in 1..n : hops[h].pool \in Int /\ hops[h].direction \in Int /\ hops[h].tokenIn \in Int
  BY <1>2 DEF Hop
<1>5. rest = [k \in 1..3 * n |->
                <<hops[(k + 2) \div 3].pool, hops[(k + 2) \div 3].direction,
                  hops[(k + 2) \div 3].tokenIn>>[((k + 2) % 3) + 1]]
  BY <1>1 DEF HopWords
<1>6. \A k \in 1..3 * n : (k + 2) \div 3 \in 1..n /\ (k + 2) % 3 \in 0..2
  OBVIOUS
<1>7. \A h \in 1..n : /\ rest[3 * h - 2] = hops[h].pool
                      /\ rest[3 * h - 1] = hops[h].direction
                      /\ rest[3 * h] = hops[h].tokenIn
  <2> SUFFICES ASSUME NEW h \in 1..n
               PROVE  /\ rest[3 * h - 2] = hops[h].pool
                      /\ rest[3 * h - 1] = hops[h].direction
                      /\ rest[3 * h] = hops[h].tokenIn
    OBVIOUS
  <2>1. /\ 3 * h - 2 \in 1..3 * n /\ (3 * h - 2 + 2) \div 3 = h /\ (3 * h - 2 + 2) % 3 = 0
        /\ 3 * h - 1 \in 1..3 * n /\ (3 * h - 1 + 2) \div 3 = h /\ (3 * h - 1 + 2) % 3 = 1
        /\ 3 * h \in 1..3 * n /\ (3 * h + 2) \div 3 = h /\ (3 * h + 2) % 3 = 2
    OBVIOUS
  <2>2. rest[3 * h - 2] = <<hops[h].pool, hops[h].direction, hops[h].tokenIn>>[1]
    BY <1>5, <2>1
  <2>3. rest[3 * h - 1] = <<hops[h].pool, hops[h].direction, hops[h].tokenIn>>[2]
    BY <1>5, <2>1
  <2>4. rest[3 * h] = <<hops[h].pool, hops[h].direction, hops[h].tokenIn>>[3]
    BY <1>5, <2>1
  <2> HIDE DEF rest
  <2> QED BY <2>2, <2>3, <2>4
<1>8. rest \in [1..3 * n -> Int]
  <2> SUFFICES ASSUME NEW k \in 1..3 * n
               PROVE  <<hops[(k + 2) \div 3].pool, hops[(k + 2) \div 3].direction,
                        hops[(k + 2) \div 3].tokenIn>>[((k + 2) % 3) + 1] \in Int
    BY <1>5
  <2> DEFINE h == (k + 2) \div 3
             j == (k + 2) % 3
  <2>1. h \in 1..n /\ j \in 0..2
    BY <1>6
  <2> HIDE DEF h, j
  <2>2. <<hops[h].pool, hops[h].direction, hops[h].tokenIn>>[j + 1] \in Int
    BY <1>4, <2>1
  <2> QED BY <2>2 DEF h, j
<1> HIDE DEF rest
<1>9. Len(rest) = 3 * n /\ rest \in Seq(Int)
  <2>1. 3 * n \in Nat
    OBVIOUS
  <2> QED BY <1>8, <2>1, LenIs, SeqDef
<1>10. RouteWords(hops) = start \o rest
  BY <1>1 DEF RouteWords, rest
<1> HIDE DEF start
<1> DEFINE words == RouteWords(hops)
<1>11. /\ words \in Seq(Int) /\ Len(words) = 6 + 3 * n /\ words[1] = start[1] /\ words[2] = start[2]
       /\ \A k \in 1..3 * n : words[6 + k] = rest[k]
  <2>1. start \in Seq(Int) /\ rest \in Seq(Int)
    BY <1>3, <1>9
  <2>2. Joined(words, start, rest)
    BY <1>10, <2>1, JoinedIs
  <2> HIDE DEF words
  <2> DEFINE r == Len(rest)
             s == Len(start)
  <2>3. /\ words \in Seq(Int) /\ Len(words) = s + r
        /\ \A i \in 1..s : words[i] = start[i]
        /\ \A i \in 1..r : words[s + i] = rest[i]
    BY <2>2 DEF Joined
  <2>4. r = 3 * n /\ s = 6
    BY <1>3, <1>9
  <2> HIDE DEF r, s
  <2> QED BY <2>3, <2>4
<1> HIDE DEF words
<1>12. words # <<>>
  BY <1>11
<1>13. \A h \in 1..n : /\ words[4 + 3 * h] = rest[3 * h - 2]
                       /\ words[5 + 3 * h] = rest[3 * h - 1]
                       /\ words[6 + 3 * h] = rest[3 * h]
  <2>1. ASSUME NEW p \in 1..3 * n, NEW q, q = 6 + p PROVE words[q] = rest[p]
    BY <1>11, <2>1
  <2>2. ASSUME NEW h \in 1..n
        PROVE  /\ 3 * h - 2 \in 1..3 * n /\ 4 + 3 * h = 6 + (3 * h - 2)
               /\ 3 * h - 1 \in 1..3 * n /\ 5 + 3 * h = 6 + (3 * h - 1)
               /\ 3 * h \in 1..3 * n
    OBVIOUS
  <2> QED BY <2>1, <2>2
<1>14. \A h \in 1..n : /\ words[4 + 3 * h] = hops[h].pool
                       /\ words[5 + 3 * h] = hops[h].direction
                       /\ words[6 + 3 * h] = hops[h].tokenIn
  BY <1>7, <1>13
<1> QED BY <1>3, <1>11, <1>12, <1>14 DEF IsRoute, words

\* A route has up to five hops.
LEMMA RoutesAre ==
  ASSUME NEW hops \in Routes
  PROVE  \E n \in 0..5 : hops \in [1..n -> Hop] /\ Len(hops) = n
<1>1. \E n \in 0..5 : hops \in [1..n -> Hop]
  <2>1. CASE hops \in UpTo(2, Hop)
    BY <2>1 DEF UpTo
  <2>2. CASE hops \in {[h \in 1..n |-> hop] : n \in 3..5, hop \in Hop}
    BY <2>2
  <2> QED BY <2>1, <2>2 DEF Routes
<1> QED BY <1>1, LenIs

\* A route of up to four pools reads back, whatever words follow the hops that it names is no route.
LEMMA RouteReads ==
  ASSUME Contract \in Nat, Wide \in Nat, NEW n \in 0..5, NEW hops \in [1..n -> Hop]
  PROVE  LET decoded == DecodeContractCall(Contract, RouteWords(hops), "custody-router", FALSE) IN
         /\ decoded = Nothing <=> n \notin 1..4
         /\ n \in 1..4 => decoded[1].hops = hops
         /\ DecodeContractCall(Contract, Append(RouteWords(hops), 1), "custody-router", FALSE) = Nothing
<1> DEFINE words == RouteWords(hops)
           longer == Append(words, 1)
           decoded == DecodeContractCall(Contract, words, "custody-router", FALSE)
           read(w) == [h \in 1..w[2] |-> [pool |-> w[4 + 3 * h], direction |-> w[5 + 3 * h], tokenIn |-> w[6 + 3 * h]]]
           told(w) == Call("custody-router", Contract, "swap", RouterParams, Tail(w), read(w), Nothing)
<1>0. IsRoute(words, n, hops)
  BY RouteIs
<1> HIDE DEF words
<1>1. /\ words \in Seq(Int) /\ Len(words) = 6 + 3 * n /\ words # <<>> /\ words[1] = 241 /\ words[2] = n
      /\ \A h \in 1..n : /\ words[4 + 3 * h] = hops[h].pool
                         /\ words[5 + 3 * h] = hops[h].direction
                         /\ words[6 + 3 * h] = hops[h].tokenIn
  BY <1>0 DEF IsRoute
<1>2. \A w : SelectorOf(w) = 241 =>
        DecodeContractCall(Contract, w, "custody-router", FALSE) = DecodeCustodyRouter(Contract, w)
  BY DEF DecodeContractCall
<1>3. longer # <<>> /\ longer[1] = 241 /\ longer[2] = n /\ Len(longer) = 7 + 3 * n
  <2>1. words \in Seq(Int) /\ 1 \in Int /\ 1 \in 1..Len(words) /\ 2 \in 1..Len(words)
    BY <1>1
  <2>2. /\ longer \in Seq(Int) /\ Len(longer) = Len(words) + 1
        /\ longer[1] = words[1] /\ longer[2] = words[2]
    BY <2>1, AppendProperties
  <2> HIDE DEF longer
  <2>3. longer # <<>> /\ Len(longer) = 7 + 3 * n
    BY <1>1, <2>2
  <2> QED BY <1>1, <2>2, <2>3
<1> HIDE DEF longer
<1>4. SelectorOf(words) = 241 /\ SelectorOf(longer) = 241
  BY <1>1, <1>3 DEF SelectorOf
<1>5. DecodeContractCall(Contract, longer, "custody-router", FALSE) = Nothing
  <2>1. Len(longer) # 6 + 3 * longer[2]
    BY <1>3
  <2>2. DecodeCustodyRouter(Contract, longer) = Nothing
    BY <2>1 DEF DecodeCustodyRouter
  <2> QED BY <1>2, <1>4, <2>2
<1>6. \A h \in 1..n : read(words)[h] = hops[h]
  <2> SUFFICES ASSUME NEW h \in 1..n PROVE read(words)[h] = hops[h]
    OBVIOUS
  <2>1. read(words)[h] = [pool |-> hops[h].pool, direction |-> hops[h].direction, tokenIn |-> hops[h].tokenIn]
    BY <1>1
  <2>2. hops[h] \in Hop
    OBVIOUS
  <2> HIDE DEF read
  <2> QED BY <2>1, <2>2 DEF Hop
<1>7. read(words) = hops
  <2>1. read(words) = [h \in 1..n |-> read(words)[h]]
    BY <1>1
  <2> HIDE DEF read
  <2> QED BY <1>6, <2>1
<1>8. \A h \in 1..n : read(words)[h].direction \in {0, 1}
  BY <1>7 DEF Hop
<1>9. DecodeCustodyRouter(Contract, words) =
        IF /\ SelectorOf(words) = 241 /\ Len(words) >= 9 /\ words[2] \in 1..4 /\ Len(words) = 6 + 3 * words[2]
           /\ \A h \in 1..words[2] : read(words)[h].direction \in {0, 1}
        THEN <<told(words)>> ELSE Nothing
  BY DEF DecodeCustodyRouter
<1>10. told(words).hops = hops
  BY <1>7 DEF Call
<1> HIDE DEF told, read
<1>11. DecodeCustodyRouter(Contract, words) = IF n \in 1..4 THEN <<told(words)>> ELSE Nothing
  <2>1. n \in 1..4 => 6 + 3 * n >= 9
    OBVIOUS
  <2> QED BY <1>1, <1>4, <1>8, <1>9, <2>1
<1>12. <<told(words)>> # Nothing
  BY DEF Nothing
<1>13. decoded = IF n \in 1..4 THEN <<told(words)>> ELSE Nothing
  <2>1. decoded = DecodeCustodyRouter(Contract, words)
    BY <1>2, <1>4
  <2> QED BY <1>11, <2>1
<1> HIDE DEF decoded
<1>14. /\ decoded = Nothing <=> n \notin 1..4
       /\ n \in 1..4 => decoded[1].hops = hops
  BY <1>10, <1>12, <1>13
<1> QED BY <1>5, <1>14 DEF decoded, words, longer

\* What a router of the ledger forwards reads as if it had come by itself.
LEMMA ForwardReads ==
  ASSUME Contract \in Nat
  PROVE  DecodeContractCall(Contract, <<224, Contract>> \o Forwarded, "ledger-router", FALSE)[1].inner
           = DecodePoolCall(Contract, Forwarded)
<1> DEFINE words == <<224, Contract>> \o Forwarded
           inner == DecodePoolCall(Contract, Forwarded)
<1>1. <<224, Contract>> \in Seq(Int) /\ Forwarded \in Seq(Int) /\ Len(<<224, Contract>>) = 2 /\ Len(Forwarded) = 4
  BY DEF Forwarded
<1>2. /\ words \in Seq(Int) /\ Len(words) = 6 /\ words[1] = 224 /\ words[2] = Contract
      /\ \A i \in 1..4 : words[i + 2] = Forwarded[i]
  <2> DEFINE start == <<224, Contract>>
  <2>1. start \in Seq(Int) /\ Len(start) = 2 /\ start[1] = 224 /\ start[2] = Contract
    BY <1>1
  <2> HIDE DEF start
  <2>2. Joined(start \o Forwarded, start, Forwarded)
    BY <1>1, <2>1, JoinedIs
  <2>3. words = start \o Forwarded
    BY DEF start
  <2> HIDE DEF words
  <2> DEFINE r == Len(Forwarded)
             s == Len(start)
  <2>4. /\ words \in Seq(Int) /\ Len(words) = s + r
        /\ \A i \in 1..s : words[i] = start[i]
        /\ \A i \in 1..r : words[s + i] = Forwarded[i]
    <3>1. Joined(words, start, Forwarded)
      BY <2>2, <2>3
    <3> QED BY <3>1 DEF Joined
  <2>5. r = 4 /\ s = 2
    BY <1>1, <2>1
  <2> HIDE DEF r, s
  <2>6. \A i \in 1..4 : words[i + 2] = Forwarded[i]
    BY <2>4, <2>5
  <2> QED BY <2>1, <2>4, <2>5, <2>6
<1> HIDE DEF words
<1>3. SubSeq(words, 3, Len(words)) = Forwarded
  BY <1>1, <1>2, SubSeqProperties
<1>4. SelectorOf(words) = 224
  <2>1. words # <<>>
    <3>1. Len(<<>>) = 0 /\ Len(words) = 6
      BY <1>2
    <3> QED BY <3>1
  <2> QED BY <1>2, <2>1 DEF SelectorOf
<1>5. inner # Nothing
  <2> DEFINE swap == Fn(16, "swap", <<"direction", "amount_in", "min_out">>)
             fits == {g \in Functions("pool-ledger") : g.selector = SelectorOf(Forwarded) /\ Len(g.params) + 1 = Len(Forwarded)}
  <2>1. swap \in Functions("pool-ledger") /\ swap.selector = 16 /\ Len(swap.params) = 3
    BY DEF Functions, PoolLedger, Fn
  <2>2. SelectorOf(Forwarded) = 16 /\ Len(Forwarded) = 4
    BY DEF SelectorOf, Forwarded
  <2> HIDE DEF swap
  <2>3. swap.selector = SelectorOf(Forwarded) /\ Len(swap.params) + 1 = Len(Forwarded)
    BY <2>1, <2>2
  <2>4. swap \in fits
    BY <2>1, <2>3
  <2>5. DecodeWithFunctions("pool-ledger", Contract, Forwarded) # Nothing
    BY <2>4 DEF DecodeWithFunctions, Nothing
  <2> QED BY <2>5 DEF DecodePoolCall
<1> DEFINE told == Call("ledger-router", Contract, LedgerRouterName(words[1]), <<"pool">>, Tail(words), <<>>, inner)
<1>6. told.inner = inner
  BY DEF Call
<1>7. DecodePoolCall(words[2], SubSeq(words, 3, Len(words))) = inner
  BY <1>2, <1>3
<1> HIDE DEF inner
<1>8. DecodeLedgerRouter(Contract, words) = <<told>>
  <2>1. Len(words) >= 3 /\ SelectorOf(words) \in {224, 225, 226}
    BY <1>2, <1>4
  <2> QED BY <1>5, <1>7, <2>1 DEF DecodeLedgerRouter
<1>9. DecodeContractCall(Contract, words, "ledger-router", FALSE) = DecodeLedgerRouter(Contract, words)
  BY <1>4 DEF DecodeContractCall
<1> HIDE DEF told
<1>10. DecodeContractCall(Contract, words, "ledger-router", FALSE) = <<told>>
  BY <1>8, <1>9
<1>11. <<told>>[1].inner = inner
  BY <1>6
<1> DEFINE decoded == DecodeContractCall(Contract, words, "ledger-router", FALSE)
<1>12. decoded = <<told>>
  BY <1>10
<1> HIDE DEF decoded
<1>13. decoded[1].inner = inner
  BY <1>11, <1>12
<1> QED BY <1>13 DEF inner, words, decoded

\* What the reading of a route answers reads back as the route.
LEMMA RoutesRead == WideAssumption /\ ReadingAssumption /\ ReadRoute => CallsReadBack'
<1> SUFFICES ASSUME WideAssumption, ReadingAssumption, ReadRoute PROVE CallsReadBack'
  OBVIOUS
<1>0. Contract \in Nat /\ Wide \in Nat
  BY ContractIs
<1> DEFINE first(hops) == DecodeContractCall(Contract, RouteWords(hops), "custody-router", FALSE)
           second(hops) == DecodeContractCall(Contract, Append(RouteWords(hops), 1), "custody-router", FALSE)
           third == DecodeContractCall(Contract, <<224, Contract>> \o Forwarded, "ledger-router", FALSE)[1].inner
<1>1. PICK hops \in Routes : reading' = [of |-> "route", hops |-> hops, decoded |-> first(hops),
                                         longer |-> second(hops), inner |-> third]
  BY DEF ReadRoute
<1>2. PICK n \in 0..5 : hops \in [1..n -> Hop] /\ Len(hops) = n
  BY RoutesAre
<1>3. /\ first(hops) = Nothing <=> n \notin 1..4
      /\ n \in 1..4 => first(hops)[1].hops = hops
      /\ second(hops) = Nothing
  BY <1>0, <1>2, RouteReads
<1>4. third = DecodePoolCall(Contract, Forwarded)
  BY <1>0, ForwardReads
<1> HIDE DEF first, second, third
<1>5. /\ reading'.of = "route" /\ reading'.hops = hops /\ reading'.decoded = first(hops)
      /\ reading'.longer = second(hops) /\ reading'.inner = third
  BY <1>1
<1> QED BY <1>2, <1>3, <1>4, <1>5 DEF CallsReadBack

\* What a description may not say of a call that did not succeed.
Moved == {"Received", "Received_A", "Received_B", "LP_minted", "Shares_minted"}
Unmoved(facts) == \A fact \in facts : fact.says \notin Moved

\* A swap that did not succeed claims no movement.
LEMMA SwapUnmoved ==
  ASSUME NEW call, NEW sender, NEW receipt, receipt.status # "ok", NEW ctx
  PROVE  Unmoved(DescribeSwap(call, sender, receipt, ctx).facts)
<1>1. AmountOut(receipt) = -1
  BY DEF AmountOut
<1> QED BY <1>1 DEF DescribeSwap, Described, Fact, Unmoved, Moved

\* Nor does a change of liquidity.
LEMMA LiquidityUnmoved ==
  ASSUME NEW call, NEW sender, NEW receipt, receipt.status # "ok", NEW ctx
  PROVE  Unmoved(DescribeLiquidity(call, sender, receipt, ctx).facts)
<1>1. CASE call.name = "add_liquidity"
  BY <1>1 DEF DescribeLiquidity, Described, Fact, Unmoved, Moved
<1>2. CASE call.name # "add_liquidity"
  BY <1>2 DEF DescribeLiquidity, Described, Fact, Unmoved, Moved
<1> QED BY <1>1, <1>2

\* Nor does a call of a vault.
LEMMA VaultUnmoved ==
  ASSUME NEW call, NEW sender, NEW receipt, receipt.status # "ok", NEW ctx
  PROVE  Unmoved(DescribeVault(call, sender, receipt, ctx).facts)
<1>1. CASE call.name = "deposit"
  BY <1>1 DEF DescribeVault, Described, Fact, Unmoved, Moved
<1>2. CASE call.name = "withdraw"
  BY <1>2 DEF DescribeVault, Described, Fact, Unmoved, Moved
<1>3. CASE call.name \notin {"deposit", "withdraw"}
  BY <1>3 DEF DescribeVault, Described, Fact, Unmoved, Moved
<1> QED BY <1>1, <1>2, <1>3

\* Of a call whose parameters are those of a function or of a router.
LEMMA CallUnmoved ==
  ASSUME NEW call, call.inner = Nothing, DOMAIN call.args \subseteq Names \cup {"hops"},
         NEW sender, NEW receipt, receipt.status # "ok", NEW ctx
  PROVE  Unmoved(Describe(call, sender, receipt, ctx).facts)
<1> DEFINE said == Describe(call, sender, receipt, ctx)
<1>1. \/ said = DescribeSwap(call, sender, receipt, ctx)
      \/ said = DescribeLiquidity(call, sender, receipt, ctx)
      \/ said = DescribeVault(call, sender, receipt, ctx)
      \/ said = DescribeToken(call, sender, receipt)
      \/ said = DescribeGeneric(call, sender, receipt)
  BY DEF Describe
<1>2. Unmoved(DescribeToken(call, sender, receipt).facts)
  BY DEF DescribeToken, Described, Fact, Unmoved, Moved
<1>3. Unmoved(DescribeGeneric(call, sender, receipt).facts)
  BY DEF DescribeGeneric, Described, Fact, Unmoved, Moved, Names
<1> HIDE DEF said
<1>4. Unmoved(said.facts)
  BY <1>1, <1>2, <1>3, SwapUnmoved, LiquidityUnmoved, VaultUnmoved
<1> QED BY <1>4 DEF said

\* A function has arguments that a wallet can give it.
LEMMA ArgumentsExist ==
  ASSUME ReadingAssumption, NEW f
  PROVE  Arguments(f) # {}
<1>1. Ids # {} /\ Amounts # {}
  BY DEF ReadingAssumption
<1>2. \A p : Argument(p) # {}
  BY <1>1 DEF Argument
<1> DEFINE V == UNION {Argument(p) : p \in Range(f.params)}
           some == [p \in Range(f.params) |-> CHOOSE a \in Argument(p) : TRUE]
<1>3. \A p \in Range(f.params) : some[p] \in Argument(p)
  BY <1>2
<1>4. \A p \in Range(f.params) : some[p] \in V
  BY <1>3
<1>5. some \in [Range(f.params) -> V]
  BY <1>4
<1> HIDE DEF some
<1> QED BY <1>3, <1>5 DEF Arguments

\* The call of a description, whichever of the two it is.
LEMMA CallsAre ==
  ASSUME WideAssumption, ReadingAssumption, NEW interface \in Known, NEW f \in Functions(interface),
         NEW args \in Arguments(f)
  PROVE  LET direct == DecodeContractCall(Contract, Encode(f, args), interface, FALSE)[1]
             routed == DecodeContractCall(Contract, RouteWords(<<[pool |-> Contract, direction |-> 0,
                                        tokenIn |-> Wide + 1]>>), "custody-router", FALSE)[1]
         IN  \A call \in {direct, routed} : call.inner = Nothing /\ DOMAIN call.args \subseteq Names \cup {"hops"}
<1>0. Contract \in Nat /\ Wide \in Nat
  BY ContractIs
<1> DEFINE words == Encode(f, args)
           direct == DecodeContractCall(Contract, words, interface, FALSE)
           hop == [pool |-> Contract, direction |-> 0, tokenIn |-> Wide + 1]
           route == RouteWords(<<hop>>)
           routed == DecodeContractCall(Contract, route, "custody-router", FALSE)
<1>1. f.selector \in 1..223 /\ Apart(f.params)
  BY FunctionsAre
<1>2. direct[1].inner = Nothing /\ DOMAIN direct[1].args \subseteq Names
  <2>1. words # <<>> /\ words[1] = f.selector
    BY <1>1, EncodeIs
  <2>2. f.selector < 256 /\ f.selector # -1
    BY <1>1
  <2>3. DecodeWithFunctions(interface, Contract, words) =
          <<[interface |-> interface, contract |-> Contract, name |-> f.name, args |-> args,
             hops |-> <<>>, inner |-> Nothing]>>
    BY ReadsBack
  <2> HIDE DEF words
  <2>4. SelectorOf(words) # -1
    BY <2>1, <2>2 DEF SelectorOf
  <2>5. interface \notin {"custody-router", "ledger-router", "none"}
    BY DEF Known
  <2>6. direct = DecodeWithFunctions(interface, Contract, words)
    BY <2>4, <2>5 DEF DecodeContractCall
  <2>7. DOMAIN args = Range(f.params)
    BY DEF Arguments
  <2>8. Range(f.params) \subseteq Names
    BY <1>1 DEF Apart, Range
  <2> HIDE DEF direct
  <2>9. direct[1].inner = Nothing /\ direct[1].args = args
    BY <2>3, <2>6
  <2> QED BY <2>7, <2>8, <2>9
<1>3. routed # Nothing
  <2>1. hop \in Hop
    BY DEF Hop
  <2> HIDE DEF hop
  <2>2. <<hop>> \in [1..1 -> Hop] /\ 1 \in 0..5 /\ 1 \in 1..4
    BY <2>1
  <2> QED BY <1>0, <2>2, RouteReads
<1>4. routed[1].inner = Nothing /\ DOMAIN routed[1].args \subseteq Names \cup {"hops"}
  <2> HIDE DEF route
  <2>1. routed = DecodeCustodyRouter(Contract, route)
    BY <1>3 DEF DecodeContractCall
  <2> HIDE DEF routed
  <2>2. \E hops : routed = <<Call("custody-router", Contract, "swap", RouterParams, Tail(route), hops, Nothing)>>
    BY <1>3, <2>1 DEF DecodeCustodyRouter
  <2>3. PICK hops : routed = <<Call("custody-router", Contract, "swap", RouterParams, Tail(route), hops, Nothing)>>
    BY <2>2
  <2> DEFINE call == Call("custody-router", Contract, "swap", RouterParams, Tail(route), hops, Nothing)
  <2>4. call.inner = Nothing /\ DOMAIN call.args = Range(RouterParams)
    BY DEF Call
  <2>5. Range(RouterParams) \subseteq Names \cup {"hops"}
    BY DEF RouterParams, Range, Names
  <2> HIDE DEF call
  <2>6. routed[1] = call
    BY <2>3 DEF call
  <2> QED BY <2>4, <2>5, <2>6
<1> QED BY <1>2, <1>4 DEF direct, routed, route, words, hop

\* Nothing is said to have moved of a call that did not succeed.
LEMMA DescriptionsUnmoved ==
  WideAssumption /\ ReadingAssumption /\ ReadDescription => NothingMovedWithoutSuccess'
<1> SUFFICES ASSUME WideAssumption, ReadingAssumption, ReadDescription PROVE NothingMovedWithoutSuccess'
  OBVIOUS
<1> DEFINE direct(f, interface) ==
             DecodeContractCall(Contract, Encode(f, CHOOSE a \in Arguments(f) : TRUE), interface, FALSE)
           routed == DecodeContractCall(Contract, RouteWords(<<[pool |-> Contract, direction |-> 0,
                                        tokenIn |-> Wide + 1]>>), "custody-router", FALSE)
           ids(f) == ReferencedIds(Encode(f, CHOOSE a \in Arguments(f) : TRUE), {})
<1>0. PICK interface \in Known : \E f \in Functions(interface), receipt \in Receipts, ctx \in Contexts :
        \E call \in {direct(f, interface), routed} :
         reading' = [of |-> "description", call |-> call, receipt |-> receipt, ids |-> ids(f),
                     said |-> Describe(call[1], Contract, receipt, ctx)]
  BY DEF ReadDescription
<1>a. PICK f \in Functions(interface), receipt \in Receipts, ctx \in Contexts :
        \E call \in {direct(f, interface), routed} :
         reading' = [of |-> "description", call |-> call, receipt |-> receipt, ids |-> ids(f),
                     said |-> Describe(call[1], Contract, receipt, ctx)]
  BY <1>0
<1>1. PICK call \in {direct(f, interface), routed} :
         reading' = [of |-> "description", call |-> call, receipt |-> receipt, ids |-> ids(f),
                     said |-> Describe(call[1], Contract, receipt, ctx)]
  BY <1>a
<1>2. (CHOOSE a \in Arguments(f) : TRUE) \in Arguments(f)
  BY ArgumentsExist
<1>3. call[1].inner = Nothing /\ DOMAIN call[1].args \subseteq Names \cup {"hops"}
  BY <1>2, CallsAre
<1> DEFINE said == Describe(call[1], Contract, receipt, ctx)
<1>4. receipt.status # "ok" => Unmoved(said.facts)
  BY <1>3, CallUnmoved
<1> HIDE DEF said, ids, direct, routed
<1>5. reading'.receipt = receipt /\ reading'.said = said
  BY <1>1 DEF said
<1> QED BY <1>4, <1>5 DEF NothingMovedWithoutSuccess, Unmoved, Moved

\* Every reading tells calls as they were made and never says of one that did not succeed that
\* it moved anything.
THEOREM ToldAsMade == WideAssumption /\ ReadingAssumption => (ReadSpec => []CallsToldAsMade)
<1> SUFFICES ASSUME WideAssumption, ReadingAssumption PROVE ReadSpec => []CallsToldAsMade
  OBVIOUS
<1>1. ReadInit => CallsToldAsMade
  BY DEF ReadInit, Unread, CallsToldAsMade, CallsReadBack, NothingMovedWithoutSuccess
<1>2. CallsToldAsMade /\ [ReadNext]_reading => CallsToldAsMade'
  <2> SUFFICES ASSUME CallsToldAsMade, [ReadNext]_reading PROVE CallsToldAsMade'
    OBVIOUS
  <2>1. \A r : reading' = r /\ r.of \notin {"route", "call", "description"} => CallsToldAsMade'
    BY DEF CallsToldAsMade, CallsReadBack, NothingMovedWithoutSuccess
  <2>2. CASE ReadSections
    BY <2>1, <2>2 DEF ReadSections
  <2>3. CASE ReadPayload
    <3>1. PICK v \in Variants :
            reading' = [of |-> "payload", variant |-> v,
                   tagged |-> KindOf(Tagged(v, Shape(v))), flat |-> KindOf(Flat(Shape(v), None)),
                   named |-> KindOf(Flat(Shape(v), v)), text |-> KindOf(Text(v)),
                   step |-> StepKind(Tagged(v, Shape(v))),
                   signed |-> SignedHeadline(KindOf(Tagged(v, Shape(v))), TRUE, FALSE)]
      BY <2>3 DEF ReadPayload
    <3>2. reading'.of = "payload"
      BY <3>1
    <3> QED BY <2>1, <3>2
  <2>4. CASE ReadEconomy
    BY <2>1, <2>4 DEF ReadEconomy
  <2>5. CASE ReadCharts
    <3>1. reading'.of = "charts"
      BY <2>5 DEF ReadCharts
    <3> QED BY <2>1, <3>1
  <2>6. CASE ReadFees
    BY <2>1, <2>6 DEF ReadFees
  <2>7. CASE ReadCall
    <3>1. reading'.of = "call"
      BY <2>7 DEF ReadCall
    <3> QED BY <2>7, <3>1, CallsRead DEF CallsToldAsMade, NothingMovedWithoutSuccess
  <2>8. CASE ReadRoute
    <3>1. reading'.of = "route"
      BY <2>8 DEF ReadRoute
    <3> QED BY <2>8, <3>1, RoutesRead DEF CallsToldAsMade, NothingMovedWithoutSuccess
  <2>9. CASE ReadDescription
    <3>1. reading'.of = "description"
      BY <2>9 DEF ReadDescription
    <3> QED BY <2>9, <3>1, DescriptionsUnmoved DEF CallsToldAsMade, CallsReadBack
  <2>10. CASE UNCHANGED reading
    BY <2>10 DEF CallsToldAsMade, CallsReadBack, NothingMovedWithoutSuccess
  <2> QED BY <2>2, <2>3, <2>4, <2>5, <2>6, <2>7, <2>8, <2>9, <2>10 DEF ReadNext
<1> QED BY <1>1, <1>2, PTL DEF ReadSpec

-----------------------------------------------------------------------------
(* Readings: what is added up of a sample of blocks, and drawn of it.         *)

\* A set of naturals that has 0 and what follows each of its members has them all.
LEMMA Successors ==
  ASSUME NEW T, T \subseteq Nat, 0 \in T, \A n \in T : n + 1 \in T
  PROVE  T = Nat
<1> SUFFICES ASSUME Nat \ T # {} PROVE FALSE
  OBVIOUS
<1>1. PICK x \in Nat \ T : \A y \in Nat \ T : x <= y
  BY Least
<1>2. x - 1 \in Nat /\ ~ (x <= x - 1)
  BY <1>1
<1>3. x - 1 \in T
  BY <1>1, <1>2
<1>4. x - 1 + 1 = x
  BY <1>1
<1> QED BY <1>1, <1>3, <1>4

\* The sum of a function as an iteration over the subsets of its domain.
Chosen(s) == CHOOSE x \in s : TRUE
Without(s) == s \ {Chosen(s)}
Adds(F, g) ==
  F = [s \in SUBSET DOMAIN g |-> IF s = {} THEN 0 ELSE g[Chosen(s)] + F[Without(s)]]

\* What is chosen of a set is in it.
LEMMA ChosenIs == ASSUME NEW s, s # {} PROVE Chosen(s) \in s
BY DEF Chosen

\* Without what is chosen a set is smaller by one.
LEMMA WithoutIs ==
  ASSUME NEW n \in Nat, NEW s, IsFiniteSet(s), s # {}, Cardinality(s) <= n + 1
  PROVE  IsFiniteSet(Without(s)) /\ Cardinality(Without(s)) \in Nat /\ Cardinality(Without(s)) <= n
<1>1. Chosen(s) \in s
  BY ChosenIs
<1>2. Cardinality(Without(s)) = Cardinality(s) - 1 /\ IsFiniteSet(Without(s))
  BY <1>1, FS_RemoveElement DEF Without
<1>3. Cardinality(s) \in Nat /\ Cardinality(Without(s)) \in Nat
  BY <1>2, FS_CardinalityType
<1> QED BY <1>2, <1>3

\* There is such an iteration, whatever the finite domain.
LEMMA AddsExists ==
  ASSUME NEW S, IsFiniteSet(S), NEW g \in [S -> Int]
  PROVE  \E F \in [SUBSET S -> Int] : Adds(F, g)
<1> DEFINE Small(n) == {s \in SUBSET S : Cardinality(s) <= n}
           onward(F, s) == IF s = {} THEN 0 ELSE g[Chosen(s)] + F[Without(s)]
           T == {n \in Nat : \E F \in [Small(n) -> Int] : \A s \in Small(n) : F[s] = onward(F, s)}
<1>1. \A s \in SUBSET S : IsFiniteSet(s) /\ Cardinality(s) \in Nat
  BY FS_Subset, FS_CardinalityType
<1>2. 0 \in T
  <2>1. \A s \in Small(0) : s = {}
    BY <1>1, FS_EmptySet
  <2> DEFINE F == [s \in Small(0) |-> 0]
  <2>2. F \in [Small(0) -> Int] /\ \A s \in Small(0) : F[s] = onward(F, s)
    BY <2>1
  <2> HIDE DEF F, onward, Small
  <2> QED BY <2>2
<1>3. ASSUME NEW n \in T PROVE n + 1 \in T
  <2>1. PICK F \in [Small(n) -> Int] : \A s \in Small(n) : F[s] = onward(F, s)
    BY <1>3
  <2> DEFINE G == [s \in Small(n + 1) |-> onward(F, s)]
  <2>0. n \in Nat
    OBVIOUS
  <2>2. ASSUME NEW s \in Small(n + 1), s # {} PROVE Without(s) \in Small(n)
    <3>1. Without(s) \in SUBSET S
      BY DEF Without
    <3>2. Cardinality(Without(s)) <= n
      BY <1>1, <2>0, <2>2, WithoutIs
    <3> QED BY <3>1, <3>2
  <2>3. \A s \in Small(n) : s \in Small(n + 1)
    BY <1>1, <2>0
  <2>4. \A s \in Small(n) : G[s] = F[s]
    BY <2>1, <2>3
  <2>5. ASSUME NEW s \in Small(n + 1) PROVE G[s] \in Int /\ G[s] = onward(G, s)
    <3>1. CASE s = {}
      BY <3>1
    <3>2. CASE s # {}
      <4>1. Without(s) \in Small(n) /\ Chosen(s) \in S
        BY <2>2, <3>2, ChosenIs
      <4>2. G[Without(s)] = F[Without(s)] /\ F[Without(s)] \in Int /\ g[Chosen(s)] \in Int
        BY <2>4, <4>1
      <4> HIDE DEF Small
      <4>3. G[s] = g[Chosen(s)] + F[Without(s)]
        BY <3>2
      <4> HIDE DEF G
      <4> QED BY <3>2, <4>2, <4>3
    <3> QED BY <3>1, <3>2
  <2> HIDE DEF onward, Small
  <2>6. G \in [Small(n + 1) -> Int]
    BY <2>5
  <2> HIDE DEF G
  <2>7. \E H \in [Small(n + 1) -> Int] : \A s \in Small(n + 1) : H[s] = onward(H, s)
    BY <2>5, <2>6
  <2>8. n + 1 \in Nat
    BY <2>0
  <2> QED BY <2>7, <2>8
<1>4. T = Nat
  <2> HIDE DEF T
  <2>1. T \subseteq Nat
    BY DEF T
  <2> QED BY <1>2, <1>3, <2>1, Successors
<1>5. Cardinality(S) \in Nat /\ \A s \in SUBSET S : Cardinality(s) <= Cardinality(S)
  BY FS_Subset, FS_CardinalityType
<1>6. Small(Cardinality(S)) = SUBSET S
  BY <1>5
<1> HIDE DEF onward, Small
<1>7. PICK F \in [SUBSET S -> Int] : \A s \in SUBSET S : F[s] = onward(F, s)
  <2>1. Cardinality(S) \in T
    BY <1>4, <1>5
  <2> QED BY <1>6, <2>1
<1>8. F = [s \in SUBSET S |-> onward(F, s)]
  BY <1>7
<1>9. DOMAIN g = S
  OBVIOUS
<1>10. Adds(F, g)
  BY <1>8, <1>9 DEF Adds, onward
<1> QED BY <1>10

\* What holds of a subset if it holds of the smaller ones holds of all.
LEMMA Smaller ==
  ASSUME NEW S, IsFiniteSet(S), NEW U,
         \A s \in SUBSET S : (\A u \in SUBSET S : Cardinality(u) < Cardinality(s) => u \in U) => s \in U
  PROVE  SUBSET S \subseteq U
<1> DEFINE Bad == {s \in SUBSET S : s \notin U}
           T == {Cardinality(s) : s \in Bad}
<1> SUFFICES ASSUME Bad # {} PROVE FALSE
  OBVIOUS
<1>1. \A s \in SUBSET S : Cardinality(s) \in Nat
  BY FS_Subset, FS_CardinalityType
<1>2. T \subseteq Nat /\ T # {}
  BY <1>1
<1>3. PICK n \in T : \A m \in T : n <= m
  BY <1>2, Least
<1>4. PICK s \in Bad : Cardinality(s) = n
  OBVIOUS
<1>5. ASSUME NEW u \in SUBSET S, Cardinality(u) < Cardinality(s) PROVE u \in U
  <2>1. Cardinality(u) \in T => n <= Cardinality(u)
    BY <1>3
  <2>2. Cardinality(u) \notin T
    BY <1>1, <1>4, <1>5, <2>1
  <2> QED BY <2>2
<1> QED BY <1>4, <1>5

\* Taking something away makes a finite set smaller.
LEMMA LessOne ==
  ASSUME NEW S, IsFiniteSet(S), NEW s \in SUBSET S, NEW x \in s
  PROVE  s \ {x} \in SUBSET S /\ Cardinality(s \ {x}) < Cardinality(s)
<1>1. IsFiniteSet(s)
  BY FS_Subset
<1>2. Cardinality(s \ {x}) = Cardinality(s) - 1 /\ Cardinality(s) \in Nat
  BY <1>1, FS_RemoveElement, FS_CardinalityType
<1> QED BY <1>2

\* There is but one.
LEMMA AddsOnce ==
  ASSUME NEW S, IsFiniteSet(S), NEW g, DOMAIN g = S, NEW F, Adds(F, g), NEW G, Adds(G, g)
  PROVE  F = G
<1> DEFINE U == {s \in SUBSET S : F[s] = G[s]}
<1>0. /\ \A s \in SUBSET S : F[s] = IF s = {} THEN 0 ELSE g[Chosen(s)] + F[Without(s)]
      /\ \A s \in SUBSET S : G[s] = IF s = {} THEN 0 ELSE g[Chosen(s)] + G[Without(s)]
      /\ F = [s \in SUBSET S |-> F[s]] /\ G = [s \in SUBSET S |-> G[s]]
  BY DEF Adds
<1>1. ASSUME NEW s \in SUBSET S, \A u \in SUBSET S : Cardinality(u) < Cardinality(s) => u \in U
      PROVE  s \in U
  <2>1. CASE s = {}
    BY <1>0, <2>1
  <2>2. CASE s # {}
    <3>1. Chosen(s) \in s
      BY <2>2, ChosenIs
    <3>2. Without(s) \in U
      BY <1>1, <3>1, LessOne DEF Without
    <3> QED BY <1>0, <2>2, <3>2
  <2> QED BY <2>1, <2>2
<1>2. SUBSET S \subseteq U
  <2> HIDE DEF U
  <2> QED BY <1>1, Smaller
<1> QED BY <1>0, <1>2

\* The sum over a finite set is what adding one after the other comes to.
LEMMA SumIs ==
  ASSUME NEW S, IsFiniteSet(S), NEW g \in [S -> Int]
  PROVE  \E F \in [SUBSET S -> Int] : Adds(F, g) /\ SumOf(g) = F[S]
<1>1. PICK F \in [SUBSET S -> Int] : Adds(F, g)
  BY AddsExists
<1>2. DOMAIN g = S
  OBVIOUS
<1> DEFINE G == CHOOSE iter : iter = [s \in SUBSET (DOMAIN g) |->
                   IF s = {} THEN 0 ELSE g[CHOOSE x \in s : TRUE] + iter[s \ {CHOOSE x \in s : TRUE}]]
<1>3. F = [s \in SUBSET (DOMAIN g) |->
              IF s = {} THEN 0 ELSE g[CHOOSE x \in s : TRUE] + F[s \ {CHOOSE x \in s : TRUE}]]
  BY <1>1 DEF Adds, Chosen, Without
<1>4. G = [s \in SUBSET (DOMAIN g) |->
              IF s = {} THEN 0 ELSE g[CHOOSE x \in s : TRUE] + G[s \ {CHOOSE x \in s : TRUE}]]
  BY <1>3
<1>5. SumOf(g) = G[DOMAIN g]
  BY DEF SumOf, MapThenSumSet, MapThenFoldSet
<1> HIDE DEF G
<1>6. Adds(G, g)
  BY <1>4 DEF Adds, Chosen, Without
<1>7. F = G
  BY <1>1, <1>2, <1>6, AddsOnce
<1> QED BY <1>1, <1>2, <1>5, <1>7

\* An iteration does not depend on the order.
Runs(S, g, F) ==
  /\ F \in [SUBSET S -> Int] /\ F[{}] = 0
  /\ \A s \in SUBSET S : \A x \in s : F[s] = g[x] + F[s \ {x}]

\* Nothing adds up to zero.
LEMMA AddsNone ==
  ASSUME NEW S, NEW g \in [S -> Int], NEW F \in [SUBSET S -> Int], Adds(F, g)
  PROVE  F[{}] = 0
BY DEF Adds

\* One more in the set adds its value to the sum.
LEMMA AddsStep ==
  ASSUME NEW S, IsFiniteSet(S), NEW g \in [S -> Int], NEW F \in [SUBSET S -> Int], Adds(F, g)
  PROVE  Runs(S, g, F)
<1>0. \A s \in SUBSET S : F[s] = IF s = {} THEN 0 ELSE g[Chosen(s)] + F[Without(s)]
  BY DEF Adds
<1> DEFINE U == {s \in SUBSET S : \A x \in s : F[s] = g[x] + F[s \ {x}]}
<1>1. ASSUME NEW s \in SUBSET S, \A u \in SUBSET S : Cardinality(u) < Cardinality(s) => u \in U
      PROVE  s \in U
  <2> SUFFICES ASSUME NEW x \in s PROVE F[s] = g[x] + F[s \ {x}]
    OBVIOUS
  <2> DEFINE c == Chosen(s)
  <2>1. c \in s /\ F[s] = g[c] + F[s \ {c}]
    BY <1>0, ChosenIs DEF Without
  <2> HIDE DEF c
  <2>2. CASE x = c
    BY <2>1, <2>2
  <2>3. CASE x # c
    <3>0. ASSUME NEW y \in s PROVE s \ {y} \in U
      <4>1. s \ {y} \in SUBSET S /\ Cardinality(s \ {y}) < Cardinality(s)
        BY LessOne
      <4> HIDE DEF U
      <4> QED BY <1>1, <4>1
    <3>1. s \ {c} \in U /\ s \ {x} \in U
      BY <2>1, <3>0
    <3> DEFINE rest == s \ {c, x}
    <3>2. (s \ {c}) \ {x} = rest /\ (s \ {x}) \ {c} = rest /\ rest \in SUBSET S
      OBVIOUS
    <3>3. F[s \ {c}] = g[x] + F[rest] /\ F[s \ {x}] = g[c] + F[rest]
      <4>1. x \in s \ {c} /\ c \in s \ {x}
        BY <2>1, <2>3
      <4> QED BY <3>1, <3>2, <4>1
    <3>4. F[rest] \in Int /\ g[c] \in Int /\ g[x] \in Int /\ F[s \ {c}] \in Int /\ F[s \ {x}] \in Int
      BY <2>1, <3>2
    <3> HIDE DEF rest
    <3> QED BY <2>1, <3>3, <3>4
  <2> QED BY <2>2, <2>3
<1>2. SUBSET S \subseteq U
  <2> HIDE DEF U
  <2> QED BY <1>1, Smaller
<1> QED BY <1>0, <1>2 DEF Runs

\* The sum runs through the subsets of the set.
LEMMA SumRuns ==
  ASSUME NEW S, IsFiniteSet(S), NEW g \in [S -> Int]
  PROVE  \E F : Runs(S, g, F) /\ SumOf(g) = F[S] /\ Adds(F, g)
<1>1. PICK F \in [SUBSET S -> Int] : Adds(F, g) /\ SumOf(g) = F[S]
  BY SumIs
<1>2. Runs(S, g, F)
  BY <1>1, AddsStep
<1> QED BY <1>1, <1>2

\* On a part of its domain a function adds up to what the iteration says of the part.
LEMMA SumOfPart ==
  ASSUME NEW S, IsFiniteSet(S), NEW g \in [S -> Int], NEW F \in [SUBSET S -> Int], Adds(F, g),
         NEW s \in SUBSET S, NEW h \in [s -> Int], \A x \in s : h[x] = g[x]
  PROVE  SumOf(h) = F[s]
<1>1. IsFiniteSet(s)
  BY FS_Subset
<1>2. PICK H \in [SUBSET s -> Int] : Adds(H, h) /\ SumOf(h) = H[s]
  BY <1>1, SumIs
<1> DEFINE G == [u \in SUBSET s |-> F[u]]
<1>3. Adds(G, h)
  <2>1. \A u \in SUBSET S : F[u] = IF u = {} THEN 0 ELSE g[Chosen(u)] + F[Without(u)]
    BY DEF Adds
  <2>2. ASSUME NEW u \in SUBSET s PROVE G[u] = IF u = {} THEN 0 ELSE h[Chosen(u)] + G[Without(u)]
    <3>1. CASE u = {}
      BY <2>1, <3>1
    <3>2. CASE u # {}
      <4>1. Chosen(u) \in s /\ Without(u) \in SUBSET s
        BY <3>2, ChosenIs DEF Without
      <4>2. F[u] = g[Chosen(u)] + F[Without(u)]
        BY <2>1, <3>2
      <4> QED BY <3>2, <4>1, <4>2
    <3> QED BY <3>1, <3>2
  <2>3. G = [u \in SUBSET s |-> G[u]]
    OBVIOUS
  <2>4. DOMAIN h = s
    OBVIOUS
  <2> HIDE DEF G
  <2> QED BY <2>2, <2>3, <2>4 DEF Adds
<1>4. DOMAIN h = s
  OBVIOUS
<1>5. G = H
  <2> HIDE DEF G
  <2> QED BY <1>1, <1>2, <1>3, <1>4, AddsOnce
<1> QED BY <1>2, <1>5

\* The sum of nothing, and of something and the rest.
LEMMA SumOfNothing == ASSUME NEW g, DOMAIN g = {}, g = [x \in {} |-> g[x]] PROVE SumOf(g) = 0
<1>1. IsFiniteSet({}) /\ g \in [{} -> Int]
  BY FS_EmptySet
<1>2. PICK F \in [SUBSET {} -> Int] : Adds(F, g) /\ SumOf(g) = F[{}]
  BY <1>1, SumIs
<1> QED BY <1>1, <1>2, AddsNone

\* A sum is one of its terms and the sum of the others.
LEMMA SumOfMore ==
  ASSUME NEW S, IsFiniteSet(S), NEW g \in [S -> Int], NEW x \in S,
         NEW h \in [S \ {x} -> Int], \A y \in S \ {x} : h[y] = g[y]
  PROVE  SumOf(g) = g[x] + SumOf(h)
<1>1. PICK F : Runs(S, g, F) /\ SumOf(g) = F[S] /\ Adds(F, g)
  BY SumRuns
<1>2. F[S] = g[x] + F[S \ {x}]
  <2>1. \A s \in SUBSET S : \A y \in s : F[s] = g[y] + F[s \ {y}]
    BY <1>1 DEF Runs
  <2>2. S \in SUBSET S
    OBVIOUS
  <2> QED BY <2>1, <2>2
<1>3. SumOf(h) = F[S \ {x}]
  <2>1. S \ {x} \in SUBSET S /\ F \in [SUBSET S -> Int]
    BY <1>1 DEF Runs
  <2> QED BY <1>1, <2>1, SumOfPart
<1> QED BY <1>1, <1>2, <1>3

\* A sum of integers is an integer.
LEMMA SumInt == ASSUME NEW S, IsFiniteSet(S), NEW g \in [S -> Int] PROVE SumOf(g) \in Int
<1>1. PICK F : Runs(S, g, F) /\ SumOf(g) = F[S] /\ Adds(F, g)
  BY SumRuns
<1>2. S \in SUBSET S /\ F \in [SUBSET S -> Int]
  BY <1>1 DEF Runs
<1> QED BY <1>1, <1>2

\* Sums add up, and are no less than those of what is less.
Plus(a, b, c) == c = a + b
AddsPointwise(S, f, g, h) == \A x \in S : h[x] = f[x] + g[x]

\* The sum of two is the sum of both sums.
LEMMA SumOfSums ==
  ASSUME NEW S, IsFiniteSet(S), NEW f \in [S -> Int], NEW g \in [S -> Int], NEW h \in [S -> Int],
         AddsPointwise(S, f, g, h)
  PROVE  Plus(SumOf(f), SumOf(g), SumOf(h))
<1>1. PICK F : Runs(S, f, F) /\ SumOf(f) = F[S] /\ Adds(F, f)
  BY SumRuns
<1>2. PICK G : Runs(S, g, G) /\ SumOf(g) = G[S] /\ Adds(G, g)
  BY SumRuns
<1>3. PICK H : Runs(S, h, H) /\ SumOf(h) = H[S] /\ Adds(H, h)
  BY SumRuns
<1> DEFINE U == {s \in SUBSET S : H[s] = F[s] + G[s]}
<1>4. ASSUME NEW s \in SUBSET S, \A u \in SUBSET S : Cardinality(u) < Cardinality(s) => u \in U
      PROVE  s \in U
  <2>1. CASE s = {}
    <3>1. F[{}] = 0 /\ G[{}] = 0 /\ H[{}] = 0
      BY <1>1, <1>2, <1>3 DEF Runs
    <3> QED BY <2>1, <3>1
  <2>2. CASE s # {}
    <3>1. PICK x \in s : TRUE
      BY <2>2
    <3> DEFINE r == s \ {x}
    <3>2. r \in SUBSET S /\ H[r] = F[r] + G[r]
      BY <1>4, LessOne
    <3>a. F[s] = f[x] + F[s \ {x}]
      BY <1>1 DEF Runs
    <3>b. G[s] = g[x] + G[s \ {x}]
      BY <1>2 DEF Runs
    <3>c. H[s] = h[x] + H[s \ {x}]
      BY <1>3 DEF Runs
    <3>3. F[s] = f[x] + F[r] /\ G[s] = g[x] + G[r] /\ H[s] = h[x] + H[r]
      BY <3>a, <3>b, <3>c
    <3>4. F[r] \in Int /\ G[r] \in Int /\ H[r] \in Int /\ f[x] \in Int /\ g[x] \in Int /\ h[x] = f[x] + g[x]
      BY <1>1, <1>2, <1>3, <3>2 DEF Runs, AddsPointwise
    <3> HIDE DEF r
    <3>5. H[s] = F[s] + G[s]
      BY <3>2, <3>3, <3>4
    <3> QED BY <3>5
  <2> QED BY <2>1, <2>2
<1>5. SUBSET S \subseteq U
  <2> HIDE DEF U
  <2> QED BY <1>4, Smaller
<1> QED BY <1>1, <1>2, <1>3, <1>5 DEF Runs, Plus

\* Smaller terms have the smaller sum.
LEMMA SumOfLess ==
  ASSUME NEW S, IsFiniteSet(S), NEW f \in [S -> Int], NEW g \in [S -> Int], \A x \in S : f[x] <= g[x]
  PROVE  SumOf(f) <= SumOf(g)
<1>1. PICK F : Runs(S, f, F) /\ SumOf(f) = F[S] /\ Adds(F, f)
  BY SumRuns
<1>2. PICK G : Runs(S, g, G) /\ SumOf(g) = G[S] /\ Adds(G, g)
  BY SumRuns
<1> DEFINE U == {s \in SUBSET S : F[s] <= G[s]}
<1>4. ASSUME NEW s \in SUBSET S, \A u \in SUBSET S : Cardinality(u) < Cardinality(s) => u \in U
      PROVE  s \in U
  <2>1. CASE s = {}
    <3>1. F[{}] = 0 /\ G[{}] = 0
      BY <1>1, <1>2 DEF Runs
    <3> QED BY <2>1, <3>1
  <2>2. CASE s # {}
    <3>1. PICK x \in s : TRUE
      BY <2>2
    <3> DEFINE r == s \ {x}
    <3>2. r \in SUBSET S /\ F[r] <= G[r]
      BY <1>4, LessOne
    <3>a. F[s] = f[x] + F[s \ {x}]
      BY <1>1 DEF Runs
    <3>b. G[s] = g[x] + G[s \ {x}]
      BY <1>2 DEF Runs
    <3>3. F[s] = f[x] + F[r] /\ G[s] = g[x] + G[r]
      BY <3>a, <3>b
    <3>4. F[r] \in Int /\ G[r] \in Int /\ f[x] \in Int /\ g[x] \in Int /\ f[x] <= g[x]
      BY <1>1, <1>2, <3>2 DEF Runs
    <3> HIDE DEF r
    <3>5. F[s] <= G[s]
      BY <3>2, <3>3, <3>4
    <3> QED BY <3>5
  <2> QED BY <2>1, <2>2
<1>5. SUBSET S \subseteq U
  <2> HIDE DEF U
  <2> QED BY <1>4, Smaller
<1> QED BY <1>1, <1>2, <1>5

\* A block of a sample: its transactions, of three kinds, and what can be said of them by counting.
LEMMA BlockCounts ==
  ASSUME UnitAssumption, NEW k \in Nat, NEW block,
         block.txs \in [1..k -> [kind: {"Transfer", "Bond", "Batch"}, amount: Amounts]]
  PROVE  /\ Len(block.txs) \in Int /\ CountFailed(block) \in Int /\ Cardinality(Succeeding(block)) \in Int
         /\ CountIn(block, {"Bond", "Unbond", "Transfer"}) \in Int
         /\ Len(block.txs) = CountFailed(block) + Cardinality(Succeeding(block))
         /\ CountIn(block, {"Bond", "Unbond", "Transfer"}) <= Cardinality(Succeeding(block))
         /\ CountIn(block, {"Bond", "Unbond", "Transfer"})
              = Stakes(block)
<1> DEFINE txs == block.txs
           moved == CountIn(block, {"Bond", "Unbond", "Transfer"})
           D == 1..k
           good == {i \in D : Succeeded(block, i)}
           bad == {i \in D : ~Succeeded(block, i)}
           stakes == {i \in D : Succeeded(block, i) /\ txs[i].kind \in {"Bond", "Unbond", "Transfer"}}
<1>1. Len(block.txs) = k /\ DOMAIN block.txs = D
  BY LenIs
<1>2. IsFiniteSet(D) /\ Cardinality(D) = k
  BY FS_Interval
<1>3. Succeeding(block) = good
  BY <1>1 DEF Succeeding, Succeeded
<1>4. CountFailed(block) = Cardinality(bad)
  BY <1>1 DEF CountFailed
<1>5. CountIn(block, {"Bond", "Unbond", "Transfer"}) = Cardinality(stakes)
  BY <1>1 DEF CountIn
<1>6. {i \in Succeeding(block) : block.txs[i].kind # "Batch"} = stakes
  <2>1. {i \in good : txs[i].kind # "Batch"} = stakes
    OBVIOUS
  <2> QED BY <1>3, <2>1
<1>7. good \subseteq D /\ bad \subseteq D /\ good \cap bad = {} /\ good \cup bad = D /\ stakes \subseteq good
  OBVIOUS
<1>a. Stakes(block) = Cardinality(stakes)
  BY <1>6 DEF Stakes
<1> HIDE DEF good, bad, stakes, D, moved
<1>8. /\ IsFiniteSet(good) /\ IsFiniteSet(bad) /\ IsFiniteSet(stakes)
      /\ Cardinality(good) \in Nat /\ Cardinality(bad) \in Nat /\ Cardinality(stakes) \in Nat
  BY <1>2, <1>7, FS_Subset, FS_CardinalityType
<1>9. Cardinality(D) = Cardinality(good) + Cardinality(bad) - Cardinality(good \cap bad)
  BY <1>7, <1>8, FS_Union
<1>10. Cardinality(good \cap bad) = 0
  BY <1>7, FS_EmptySet
<1>11. Cardinality(stakes) <= Cardinality(good)
  BY <1>7, <1>8, FS_Subset
<1> DEFINE g == Cardinality(good)
           h == Cardinality(bad)
           s == Cardinality(stakes)
<1>12. /\ g \in Nat /\ h \in Nat /\ s \in Nat /\ s <= g /\ k = g + h - 0
  BY <1>2, <1>8, <1>9, <1>10, <1>11
<1>13. /\ Len(block.txs) = k /\ CountFailed(block) = h /\ Cardinality(Succeeding(block)) = g
       /\ moved = s /\ Stakes(block) = s
  BY <1>1, <1>3, <1>4, <1>5, <1>a DEF moved
<1> HIDE DEF g, h, s
<1>14. /\ k \in Int /\ g \in Int /\ h \in Int /\ s \in Int /\ k = h + g /\ s <= g
  BY <1>12
<1> QED BY <1>13, <1>14 DEF moved

\* What moved in a block, in base units.
LEMMA MovedIs ==
  ASSUME UnitAssumption, NEW k \in Nat, Amounts \subseteq Nat,
         NEW block, block.txs \in [1..k -> [kind: {"Transfer", "Bond", "Batch"}, amount: Amounts]],
         NEW registry, NEW kind
  PROVE  MovedIn(block, kind, registry) = BaseIn(block, registry["testnet"].from, kind)
<1> DEFINE unit == IF block.height >= registry["testnet"].from THEN 1 ELSE Base
           all == {j \in DOMAIN block.txs : Succeeded(block, j) /\ block.txs[j].kind = kind}
           units(i) == ToBaseUnits(block.txs[i].amount, block.height, None, registry)
<1>1. all = {j \in Succeeding(block) : block.txs[j].kind = kind}
  BY DEF Succeeding, Succeeded
<1>2. ASSUME NEW i \in all PROVE units(i) = unit * block.txs[i].amount
  <2>1. block.txs[i].amount \in Nat
    OBVIOUS
  <2>2. RegistryKey(None) = "testnet"
    BY DEF RegistryKey, None
  <2>3. units(i) = IF block.height >= registry["testnet"].from THEN block.txs[i].amount ELSE block.txs[i].amount * Base
    BY <2>2 DEF ToBaseUnits
  <2>4. Base \in Nat
    BY DEF UnitAssumption
  <2> DEFINE a == block.txs[i].amount
  <2> HIDE DEF units, a
  <2>5. a \in Nat /\ units(i) = IF block.height >= registry["testnet"].from THEN a ELSE a * Base
    BY <2>1, <2>3 DEF a
  <2>6. units(i) = unit * a
    BY <2>4, <2>5
  <2> QED BY <2>6 DEF a
<1>3. [i \in all |-> units(i)] = [i \in all |-> unit * block.txs[i].amount]
  <2> HIDE DEF units, unit, all
  <2> QED BY <1>2
<1>4. MovedIn(block, kind, registry) = SumOf([i \in all |-> units(i)])
  BY DEF MovedIn
<1> HIDE DEF units, all
<1>5. MovedIn(block, kind, registry) = SumOf([i \in all |-> unit * block.txs[i].amount])
  BY <1>3, <1>4
<1> QED BY <1>1, <1>5 DEF BaseIn

\* A sample is a sequence of bounded length.
LEMMA SamplesAre ==
  ASSUME NEW n, NEW S, NEW s \in UpTo(n, S), n \in Nat
  PROVE  \E k \in Nat : s \in [1..k -> S]
BY DEF UpTo

\* The blocks of a sample, the first of what is needed of them.
LEMMA SampleBlocksAre ==
  ASSUME ReadingAssumption, WideAssumption, NEW block \in SampleBlocks
  PROVE  \E k \in Nat : block.txs \in [1..k -> [kind: {"Transfer", "Bond", "Batch"}, amount: Amounts]]
<1>1. block.txs \in UpTo(Held, [kind: {"Transfer", "Bond", "Batch"}, amount: Amounts])
  BY DEF SampleBlocks
<1>2. Held \in Nat
  BY DEF ReadingAssumption
<1> QED BY <1>1, <1>2, SamplesAre

\* Of any sample of blocks the transactions are counted once and the amounts are in base units.
LEMMA SampleCounts ==
  ASSUME UnitAssumption, WideAssumption, ReadingAssumption,
         NEW n \in Nat, NEW blocks \in [1..n -> SampleBlocks], NEW registry
  PROVE  LET t == Economics(blocks, registry) IN
         t.total = t.failed + t.other
           + SumOf([b \in DOMAIN blocks |-> Stakes(blocks[b])])
<1> DEFINE t == Economics(blocks, registry)
           D == 1..n
           L == [b \in D |-> Len(blocks[b].txs)]
           lost == [b \in D |-> CountFailed(blocks[b])]
           done == [b \in D |-> Cardinality(Succeeding(blocks[b]))]
           stakes == [b \in D |-> CountIn(blocks[b], {"Bond", "Unbond", "Transfer"})]
           counted == [b \in D |-> Stakes(blocks[b])]
<1>1. IsFiniteSet(D) /\ DOMAIN blocks = D
  <2>1. IsFiniteSet(1..n)
    BY FS_Interval
  <2>2. DOMAIN blocks = 1..n
    OBVIOUS
  <2> QED BY <2>1, <2>2
<1>2. ASSUME NEW b \in D
      PROVE  /\ L[b] \in Int /\ lost[b] \in Int /\ done[b] \in Int /\ stakes[b] \in Int
             /\ L[b] = lost[b] + done[b] /\ stakes[b] <= done[b] /\ stakes[b] = counted[b]
  <2>1. blocks[b] \in SampleBlocks
    OBVIOUS
  <2>2. PICK k \in Nat : blocks[b].txs \in [1..k -> [kind: {"Transfer", "Bond", "Batch"}, amount: Amounts]]
    BY <2>1, SampleBlocksAre
  <2> QED BY <2>2, BlockCounts
<1>3. t.total = SumOf(L) /\ t.failed = SumOf(lost)
      /\ t.other = IF SumOf(L) - SumOf(lost) - SumOf(stakes) > 0 THEN SumOf(L) - SumOf(lost) - SumOf(stakes) ELSE 0
  BY <1>1 DEF Economics
<1>4. stakes = counted
  <2>1. \A b \in D : stakes[b] = counted[b]
    BY <1>2
  <2>2. stakes = [b \in D |-> stakes[b]] /\ counted = [b \in D |-> counted[b]]
    OBVIOUS
  <2> HIDE DEF stakes, counted
  <2> QED BY <2>1, <2>2
<1>5. L \in [D -> Int] /\ lost \in [D -> Int] /\ done \in [D -> Int] /\ stakes \in [D -> Int]
  <2> HIDE DEF D
  <2> QED BY <1>2
<1>6. counted = [b \in DOMAIN blocks |-> Stakes(blocks[b])]
  BY <1>1
<1> HIDE DEF L, lost, done, stakes, counted, D, t
<1>7. SumOf(L) = SumOf(lost) + SumOf(done)
  <2>1. \A b \in D : L[b] = lost[b] + done[b]
    BY <1>2
  <2>2. AddsPointwise(D, lost, done, L)
    BY <2>1 DEF AddsPointwise
  <2>3. SumOf(L) \in Int /\ SumOf(lost) \in Int /\ SumOf(done) \in Int
    BY <1>1, <1>5, SumInt
  <2>4. Plus(SumOf(lost), SumOf(done), SumOf(L))
    BY <1>1, <1>5, <2>2, SumOfSums
  <2> QED BY <2>3, <2>4 DEF Plus
<1>8. SumOf(stakes) <= SumOf(done)
  <2>1. \A b \in D : stakes[b] <= done[b]
    BY <1>2
  <2> QED BY <1>1, <1>5, <2>1, SumOfLess
<1>9. SumOf(L) \in Int /\ SumOf(lost) \in Int /\ SumOf(done) \in Int /\ SumOf(stakes) \in Int
  BY <1>1, <1>5, SumInt
<1> DEFINE l == SumOf(L)
           f == SumOf(lost)
           d == SumOf(done)
           s == SumOf(stakes)
<1> HIDE DEF l, f, d, s
<1>10. /\ l \in Int /\ f \in Int /\ d \in Int /\ s \in Int /\ l = f + d /\ s <= d
       /\ t.total = l /\ t.failed = f /\ t.other = IF l - f - s > 0 THEN l - f - s ELSE 0
  BY <1>3, <1>7, <1>8, <1>9 DEF l, f, d, s
<1>11. t.total = t.failed + t.other + s
  BY <1>10
<1> QED BY <1>4, <1>6, <1>11 DEF s, t

\* And what moved in all blocks is the sum of what moved in each, in base units.
LEMMA SampleMoves ==
  ASSUME UnitAssumption, WideAssumption, ReadingAssumption,
         NEW n \in Nat, NEW blocks \in [1..n -> SampleBlocks], NEW registry, NEW kind
  PROVE  SumOf([b \in DOMAIN blocks |-> MovedIn(blocks[b], kind, registry)])
           = InBase(blocks, registry["testnet"].from, kind)
<1> DEFINE from == registry["testnet"].from
<1>1. Amounts \subseteq Nat
  BY DEF ReadingAssumption, WideAssumption
<1>2. ASSUME NEW b \in DOMAIN blocks PROVE MovedIn(blocks[b], kind, registry) = BaseIn(blocks[b], from, kind)
  <2>1. blocks[b] \in SampleBlocks
    OBVIOUS
  <2>2. PICK k \in Nat : blocks[b].txs \in [1..k -> [kind: {"Transfer", "Bond", "Batch"}, amount: Amounts]]
    BY <2>1, SampleBlocksAre
  <2> QED BY <1>1, <2>2, MovedIs
<1> HIDE DEF from
<1>3. [b \in DOMAIN blocks |-> MovedIn(blocks[b], kind, registry)] = [b \in DOMAIN blocks |-> BaseIn(blocks[b], from, kind)]
  BY <1>2
<1>4. SumOf([b \in DOMAIN blocks |-> MovedIn(blocks[b], kind, registry)]) = InBase(blocks, from, kind)
  BY <1>3 DEF InBase
<1> QED BY <1>4 DEF from

\* What the reading of an economy answers adds up.
LEMMA SamplesRead == UnitAssumption /\ WideAssumption /\ ReadingAssumption /\ ReadEconomy => SampleAddsUp'
<1> SUFFICES ASSUME UnitAssumption, WideAssumption, ReadingAssumption, ReadEconomy PROVE SampleAddsUp'
  OBVIOUS
<1>1. PICK network \in UnitNetworks, blocks \in UpTo(Sampled, SampleBlocks), registry \in Configs :
        reading' = [of |-> "economy", network |-> network, blocks |-> blocks,
                    registry |-> registry, totals |-> Economics(blocks, registry)]
  BY DEF ReadEconomy
<1> DEFINE t == Economics(blocks, registry)
           stakes == SumOf([b \in DOMAIN blocks |-> Stakes(blocks[b])])
           from == registry["testnet"].from
<1>2. PICK n \in Nat : blocks \in [1..n -> SampleBlocks]
  <2>1. Sampled \in Nat
    BY DEF ReadingAssumption
  <2> QED BY <2>1, SamplesAre
<1>3. t.total = t.failed + t.other + stakes
  BY <1>2, SampleCounts
<1>4. t.bond = InBase(blocks, from, "Bond") /\ t.transfer = InBase(blocks, from, "Transfer")
  <2>1. /\ t.bond = SumOf([b \in DOMAIN blocks |-> MovedIn(blocks[b], "Bond", registry)])
        /\ t.transfer = SumOf([b \in DOMAIN blocks |-> MovedIn(blocks[b], "Transfer", registry)])
    BY DEF Economics
  <2> HIDE DEF t
  <2>2. SumOf([b \in DOMAIN blocks |-> MovedIn(blocks[b], "Bond", registry)]) = InBase(blocks, from, "Bond")
    BY <1>2, SampleMoves
  <2>3. SumOf([b \in DOMAIN blocks |-> MovedIn(blocks[b], "Transfer", registry)]) = InBase(blocks, from, "Transfer")
    BY <1>2, SampleMoves
  <2> QED BY <2>1, <2>2, <2>3
<1> HIDE DEF t
<1>5. /\ reading'.of = "economy" /\ reading'.blocks = blocks /\ reading'.registry = registry
      /\ reading'.totals = t
  BY <1>1 DEF t
<1>6. SumOf([b \in DOMAIN reading'.blocks |-> Stakes(reading'.blocks[b])]) = stakes
  BY <1>5
<1> HIDE DEF stakes
<1> QED BY <1>3, <1>4, <1>5, <1>6 DEF SampleAddsUp

-----------------------------------------------------------------------------
\* Clocks that do not run back: they are all known, and the intervals come to the time between the ends.
LEMMA RisingSums ==
  ASSUME NEW n \in Nat \ {0}, NEW t \in [1..n -> Nat], 0 < t[1], \A i \in 2..n : t[i - 1] <= t[i],
         NEW d \in [2..n -> Int], \A i \in 2..n : d[i] = t[i] - t[i - 1]
  PROVE  SumOf(d) = t[n] - t[1] /\ \A i \in 1..n : 0 < t[i]
<1>0. IsFiniteSet(2..n)
  BY FS_Interval
<1>1. PICK F : Runs(2..n, d, F) /\ SumOf(d) = F[2..n]
  BY <1>0, SumRuns
<1> DEFINE T == {m \in Nat : m + 1 <= n => F[2..(m + 1)] = t[m + 1] - t[1] /\ 0 < t[m + 1]}
<1>2. 0 \in T
  <2>1. F[{}] = 0
    BY <1>1 DEF Runs
  <2>2. 2..(0 + 1) = {} /\ 0 + 1 = 1 /\ t[1] \in Nat
    OBVIOUS
  <2>3. F[2..(0 + 1)] = 0 /\ t[0 + 1] = t[1] /\ t[1] - t[1] = 0
    BY <2>1, <2>2
  <2> QED BY <2>3
<1>3. ASSUME NEW m \in T PROVE m + 1 \in T
  <2>1. SUFFICES ASSUME m + 2 <= n PROVE F[2..(m + 2)] = t[m + 2] - t[1] /\ 0 < t[m + 2]
    <3>1. m + 1 \in Nat /\ m + 1 + 1 = m + 2
      OBVIOUS
    <3> QED BY <3>1
  <2>2. m \in Nat /\ F[2..(m + 1)] = t[m + 1] - t[1] /\ 0 < t[m + 1]
    BY <2>1
  <2>3. m + 2 \in 2..n /\ m + 1 \in 1..n /\ m + 2 \in 1..n /\ m + 2 - 1 = m + 1
    BY <2>1, <2>2
  <2>4. d[m + 2] = t[m + 2] - t[m + 1] /\ t[m + 1] <= t[m + 2]
    BY <2>3
  <2>5. /\ 2..(m + 2) \in SUBSET (2..n) /\ m + 2 \in 2..(m + 2)
        /\ (2..(m + 2)) \ {m + 2} = 2..(m + 1)
    <3> HIDE DEF T
    <3>1. m \in Nat /\ n \in Nat
      BY <2>2
    <3>2. 2..(m + 2) \in SUBSET (2..n)
      BY <3>1, <2>1
    <3>3. m + 2 \in 2..(m + 2)
      BY <3>1
    <3>4. (2..(m + 2)) \ {m + 2} = 2..(m + 1)
      BY <3>1
    <3> QED BY <3>2, <3>3, <3>4
  <2>6. F[2..(m + 2)] = d[m + 2] + F[2..(m + 1)]
    <3> DEFINE s == 2..(m + 2)
               x == m + 2
    <3>1. F[s] = d[x] + F[s \ {x}]
      <4>1. s \in SUBSET (2..n) /\ x \in s
        BY <2>5
      <4> HIDE DEF s, x
      <4> QED BY <4>1, <1>1 DEF Runs
    <3> QED BY <2>5, <3>1
  <2> DEFINE a == t[m + 1]
             b == t[m + 2]
             c == t[1]
             e == F[2..(m + 1)]
             g == F[2..(m + 2)]
  <2>7. a \in Nat /\ b \in Nat /\ c \in Nat
    BY <2>3
  <2>8. e = a - c /\ g = (b - a) + e /\ a <= b /\ 0 < a
    BY <2>2, <2>4, <2>6
  <2> HIDE DEF a, b, c, e, g
  <2>9. g = b - c /\ 0 < b
    BY <2>7, <2>8
  <2> QED BY <2>9 DEF b, c, g
<1>4. T = Nat
  <2> HIDE DEF T
  <2>1. T \subseteq Nat
    BY DEF T
  <2> QED BY <1>2, <1>3, <2>1, Successors
<1>5. ASSUME NEW i \in 1..n PROVE F[2..i] = t[i] - t[1] /\ 0 < t[i]
  <2>1. PICK m \in Nat : m + 1 = i
    <3>1. i - 1 \in Nat /\ i - 1 + 1 = i
      OBVIOUS
    <3> QED BY <3>1
  <2>2. m \in T /\ m + 1 <= n
    <3> HIDE DEF T
    <3> QED BY <1>4, <2>1
  <2>3. F[2..(m + 1)] = t[m + 1] - t[1] /\ 0 < t[m + 1]
    BY <2>2
  <2> QED BY <2>1, <2>3
<1> QED BY <1>1, <1>5

\* Every block has one proposer, so that what the proposers have comes to all of them.
LEMMA SharesSum ==
  ASSUME NEW n \in Nat, NEW V, NEW s \in [1..n -> V]
  PROVE  SumOf(ProposerShare(s)) = n
<1> DEFINE D == 1..n
           of(P) == {i \in D : s[i] \in P}
           R == {s[i] : i \in D}
           shares == [p \in R |-> Cardinality(of({p}))]
<1>1. IsFiniteSet(D) /\ Cardinality(D) = n /\ DOMAIN s = D
  BY FS_Interval
<1>2. ProposerShare(s) = shares
  <2>1. Range(s) = R
    BY DEF Range
  <2>2. \A p : {i \in DOMAIN s : s[i] = p} = of({p})
    OBVIOUS
  <2> QED BY <2>1, <2>2 DEF ProposerShare
<1>3. \A P : IsFiniteSet(of(P)) /\ Cardinality(of(P)) \in Nat
  <2>1. \A P : of(P) \subseteq D
    OBVIOUS
  <2> QED BY <1>1, <2>1, FS_Subset, FS_CardinalityType
<1>4. IsFiniteSet(R)
  <2>1. s \in Surjection(D, R)
    BY DEF Surjection
  <2> HIDE DEF D, R
  <2> QED BY <1>1, <2>1, FS_Surjection
<1>5. shares \in [R -> Int]
  <2> HIDE DEF of, R
  <2> QED BY <1>3
<1>6. PICK F : Runs(R, shares, F) /\ SumOf(shares) = F[R]
  BY <1>4, <1>5, SumRuns
<1> DEFINE U == {P \in SUBSET R : F[P] = Cardinality(of(P))}
<1>7. ASSUME NEW P \in SUBSET R, \A Q \in SUBSET R : Cardinality(Q) < Cardinality(P) => Q \in U
      PROVE  P \in U
  <2>1. CASE P = {}
    <3>1. of({}) = {}
      OBVIOUS
    <3>2. F[{}] = 0
      BY <1>6 DEF Runs
    <3> QED BY <2>1, <3>1, <3>2, FS_EmptySet
  <2>2. CASE P # {}
    <3>1. PICK p \in P : TRUE
      BY <2>2
    <3> DEFINE Q == P \ {p}
    <3>2. Q \in SUBSET R /\ Cardinality(Q) < Cardinality(P)
      BY <1>4, LessOne
    <3>3. F[Q] = Cardinality(of(Q))
      BY <1>7, <3>2
    <3>4. F[P] = shares[p] + F[Q]
      BY <1>6 DEF Runs
    <3>5. shares[p] = Cardinality(of({p}))
      OBVIOUS
    <3>6. of(Q) \cup of({p}) = of(P) /\ of(Q) \cap of({p}) = {}
      OBVIOUS
    <3> HIDE DEF of, Q, shares
    <3>7. Cardinality(of(P)) = Cardinality(of(Q)) + Cardinality(of({p})) - Cardinality({})
      BY <1>3, <3>6, FS_Union
    <3> DEFINE a == Cardinality(of(Q))
               b == Cardinality(of({p}))
               c == Cardinality(of(P))
    <3>8. a \in Nat /\ b \in Nat /\ c = a + b - 0
      BY <1>3, <3>7, FS_EmptySet
    <3>9. F[P] = b + a
      BY <3>3, <3>4, <3>5
    <3> HIDE DEF a, b, c
    <3>10. F[P] = c
      BY <3>8, <3>9
    <3> QED BY <3>10 DEF c
  <2> QED BY <2>1, <2>2
<1>8. SUBSET R \subseteq U
  <2> HIDE DEF U, R
  <2> QED BY <1>4, <1>7, Smaller
<1>9. F[R] = Cardinality(of(R)) /\ of(R) = D
  BY <1>8
<1> QED BY <1>1, <1>2, <1>6, <1>9

\* The intervals of the rows of a chart: they are at least as long as the clocks are apart,
\* and where no clock is unknown or runs back none is left out.
RowsOf(t, n) == [i \in 1..n |-> [height |-> i, time |-> t[i]]]
SecondsOf(series) == [i \in DOMAIN series |-> series[i].seconds]
Rising(t, n) == 0 < t[1] /\ \A i \in 2..n : t[i - 1] <= t[i]
Spaced(d, last) == \A i \in DOMAIN d : d[i] \in 0..(last - 1)

\* The intervals between blocks are none below zero and add up to the time from first to last.
LEMMA IntervalsAre ==
  ASSUME NEW n \in Nat \ {0}, NEW last \in Nat, NEW t \in [1..n -> 0..last]
  PROVE  LET d == SecondsOf(IntervalSeries(RowsOf(t, n)))
         IN  Spaced(d, last) /\ (Rising(t, n) => SumOf(d) = t[n] - t[1])
<1> DEFINE series == IntervalSeries(RowsOf(t, n))
           d == SecondsOf(series)
<1>a. series = IntervalSeries([i \in 1..n |-> [height |-> i, time |-> t[i]]])
  BY DEF RowsOf
<1>b. d = [i \in DOMAIN series |-> series[i].seconds]
  BY DEF SecondsOf
<1> HIDE DEF series, d
<1> DEFINE rows == [i \in 1..n |-> [height |-> i, time |-> t[i]]]
           D == {j \in 2..n : 0 < t[j - 1] /\ t[j - 1] <= t[j]}
<1>1. Len(rows) = n
  BY LenIs
<1>2. \A j \in 2..n : /\ rows[j].time = t[j] /\ rows[j - 1].time = t[j - 1] /\ rows[j].height = j
                      /\ t[j] \in 0..last /\ t[j - 1] \in 0..last
  <2> SUFFICES ASSUME NEW j \in 2..n
               PROVE  /\ rows[j].time = t[j] /\ rows[j - 1].time = t[j - 1] /\ rows[j].height = j
                      /\ t[j] \in 0..last /\ t[j - 1] \in 0..last
    OBVIOUS
  <2>1. j \in 1..n /\ j - 1 \in 1..n
    OBVIOUS
  <2> QED BY <2>1
<1>3. series = [i \in {j \in 2..Len(rows) : rows[j - 1].time > 0 /\ rows[j].time >= rows[j - 1].time} |->
                  [height |-> rows[i].height, seconds |-> rows[i].time - rows[i - 1].time]]
  BY <1>a DEF IntervalSeries
<1> HIDE DEF rows
<1>4. DOMAIN series = {j \in 2..n : rows[j - 1].time > 0 /\ rows[j].time >= rows[j - 1].time}
  BY <1>1, <1>3
<1>5. DOMAIN series = D
  BY <1>2, <1>4
<1>9. \A i \in DOMAIN series : series[i].seconds = rows[i].time - rows[i - 1].time
  <2> DEFINE S == {j \in 2..Len(rows) : rows[j - 1].time > 0 /\ rows[j].time >= rows[j - 1].time}
             row(i) == [height |-> rows[i].height, seconds |-> rows[i].time - rows[i - 1].time]
  <2>1. series = [i \in S |-> row(i)]
    BY <1>3
  <2>2. \A i : row(i).seconds = rows[i].time - rows[i - 1].time
    OBVIOUS
  <2> HIDE DEF S, row
  <2> QED BY <2>1, <2>2
<1>6. \A i \in D : d[i] = t[i] - t[i - 1] /\ t[i] \in 0..last /\ t[i - 1] \in 1..last
  <2> SUFFICES ASSUME NEW i \in D
               PROVE  d[i] = t[i] - t[i - 1] /\ t[i] \in 0..last /\ t[i - 1] \in 1..last
    OBVIOUS
  <2>1. series[i].seconds = rows[i].time - rows[i - 1].time
    BY <1>9, <1>5
  <2>2. d[i] = series[i].seconds
    BY <1>b, <1>5
  <2>3. i \in 2..n /\ 0 < t[i - 1]
    OBVIOUS
  <2>4. rows[i].time = t[i] /\ rows[i - 1].time = t[i - 1] /\ t[i] \in 0..last /\ t[i - 1] \in 0..last
    BY <1>2, <2>3
  <2> QED BY <2>1, <2>2, <2>3, <2>4
<1>7. ASSUME NEW i \in DOMAIN d PROVE d[i] \in 0..(last - 1)
  <2>1. i \in D /\ t[i - 1] <= t[i]
    BY <1>b, <1>5
  <2> DEFINE a == t[i - 1]
             b == t[i]
             c == d[i]
  <2>2. c = b - a /\ b \in 0..last /\ a \in 1..last /\ a <= b
    BY <1>6, <2>1
  <2> HIDE DEF a, b, c
  <2>3. c \in 0..(last - 1)
    BY <2>2
  <2> QED BY <2>3 DEF c
<1>8. ASSUME 0 < t[1], \A i \in 2..n : t[i - 1] <= t[i] PROVE SumOf(d) = t[n] - t[1]
  <2> DEFINE e == [i \in 2..n |-> t[i] - t[i - 1]]
  <2>1. e \in [2..n -> Int] /\ \A i \in 2..n : e[i] = t[i] - t[i - 1]
    BY <1>2
  <2>2. t \in [1..n -> Nat]
    OBVIOUS
  <2> HIDE DEF e
  <2>3. SumOf(e) = t[n] - t[1] /\ \A i \in 1..n : 0 < t[i]
    BY <1>8, <2>1, <2>2, RisingSums
  <2>4. D = 2..n
    <3>1. \A i \in 2..n : 0 < t[i - 1]
      BY <2>3
    <3> QED BY <1>8, <3>1
  <2>5. \A i \in 2..n : d[i] = e[i]
    BY <1>6, <2>1, <2>4
  <2>6. d = e
    <3>1. d = [i \in 2..n |-> d[i]]
      BY <1>b, <1>5, <2>4
    <3>2. e = [i \in 2..n |-> e[i]]
      BY <2>1
    <3> QED BY <2>5, <3>1, <3>2
  <2> QED BY <2>3, <2>6
<1> QED BY <1>7, <1>8 DEF Spaced, Rising, series, d

\* Aligned or dropped, a list of tips says of every transaction what it said before.
LEMMA TipsSurvive ==
  ASSUME NEW n \in Nat, NEW m \in Nat, NEW tips \in [1..m -> Int], NEW own, NEW i \in 1..n
  PROVE  PriorityTip(NormalizeTips(tips, n), i, own) = PriorityTip(tips, i, own)
<1> DEFINE aligned == [j \in 1..n |-> IF j \in DOMAIN tips /\ tips[j] > 0 THEN tips[j] ELSE 0]
           kept == NormalizeTips(tips, n)
           given == i \in DOMAIN tips /\ tips[i] > 0
<1>1. kept = IF \E j \in 1..n : aligned[j] > 0 THEN aligned ELSE <<>>
  BY DEF NormalizeTips
<1>2. aligned[i] = (IF given THEN tips[i] ELSE 0) /\ DOMAIN aligned = 1..n
  OBVIOUS
<1>3. DOMAIN <<>> = {}
  OBVIOUS
<1> HIDE DEF aligned, kept
<1>4. CASE given
  <2>1. aligned[i] > 0
    BY <1>2, <1>4
  <2>2. kept = aligned
    BY <1>1, <2>1
  <2>3. i \in DOMAIN kept /\ kept[i] = tips[i] /\ kept[i] > 0
    BY <1>2, <1>4, <2>2
  <2>4. PriorityTip(kept, i, own) = kept[i] /\ PriorityTip(tips, i, own) = tips[i]
    BY <1>4, <2>3 DEF PriorityTip
  <2> QED BY <2>3, <2>4 DEF kept
<1>5. CASE ~given
  <2>1. ~ (aligned[i] > 0)
    BY <1>2, <1>5
  <2>2. ~ (i \in DOMAIN kept /\ kept[i] > 0)
    BY <1>1, <1>3, <2>1
  <2>3. PriorityTip(kept, i, own) = PriorityTip(tips, i, own)
    BY <1>5, <2>2 DEF PriorityTip
  <2> QED BY <2>3 DEF kept
<1> QED BY <1>4, <1>5

\* Charts add up: the time between the ends, the running total, the shares and the tips.
LEMMA ChartsRead == UnitAssumption /\ WideAssumption /\ ReadingAssumption /\ ReadCharts => ChartsAddUp'
<1> SUFFICES ASSUME UnitAssumption, WideAssumption, ReadingAssumption, ReadCharts PROVE ChartsAddUp'
  OBVIOUS
<1>1. Rows \in Nat \ {0} /\ LastClock \in Nat
  BY DEF ReadingAssumption
<1>2. PICK times \in [1..Rows -> 0..LastClock], tips \in UpTo(Rows, -1..2), own \in {0, 1} :
       reading' = [of |-> "charts", times |-> times, tips |-> tips, own |-> own,
                   intervals |-> IntervalSeries([i \in 1..Rows |-> [height |-> i, time |-> times[i]]]),
                   running |-> CumulativeTransfers(times), shares |-> ProposerShare(times),
                   kept |-> NormalizeTips(tips, Rows)]
  BY DEF ReadCharts
<1> DEFINE series == IntervalSeries([i \in 1..Rows |-> [height |-> i, time |-> times[i]]])
           seconds == [i \in DOMAIN series |-> series[i].seconds]
           running == CumulativeTransfers(times)
           kept == NormalizeTips(tips, Rows)
<1>3. /\ \A i \in DOMAIN seconds : seconds[i] \in 0..(LastClock - 1)
      /\ 0 < times[1] /\ (\A i \in 2..Rows : times[i - 1] <= times[i])
           => SumOf(seconds) = times[Rows] - times[1]
  <2>1. SecondsOf(IntervalSeries(RowsOf(times, Rows))) = seconds
    BY DEF RowsOf, SecondsOf
  <2> HIDE DEF seconds
  <2>2. Spaced(seconds, LastClock) /\ (Rising(times, Rows) => SumOf(seconds) = times[Rows] - times[1])
    BY <1>1, <2>1, IntervalsAre
  <2> QED BY <2>2 DEF Spaced, Rising
<1>4. running[Rows] = SumOf(times)
  <2>1. times = [j \in 1..Rows |-> times[j]] /\ DOMAIN times = 1..Rows /\ Rows \in 1..Rows
    BY <1>1
  <2>2. CumulativeTransfers(times)[Rows] = SumOf([j \in 1..Rows |-> times[j]])
    BY <2>1 DEF CumulativeTransfers
  <2> QED BY <2>1, <2>2
<1>5. SumOf(ProposerShare(times)) = Rows
  BY <1>1, SharesSum
<1>6. \A i \in 1..Rows : PriorityTip(kept, i, own) = PriorityTip(tips, i, own)
  <2>1. PICK m \in Nat : tips \in [1..m -> Int]
    <3>1. PICK m \in 0..Rows : tips \in [1..m -> -1..2]
      BY DEF UpTo
    <3>2. m \in Nat /\ tips \in [1..m -> Int]
      BY <3>1
    <3> QED BY <3>2
  <2> QED BY <1>1, <2>1, TipsSurvive
<1> HIDE DEF series, running, kept
<1>7. /\ reading'.of = "charts" /\ reading'.times = times /\ reading'.tips = tips /\ reading'.own = own
      /\ reading'.intervals = series /\ reading'.running = running
      /\ reading'.shares = ProposerShare(times) /\ reading'.kept = kept
  BY <1>2 DEF series, running, kept
<1> DEFINE drawn == [i \in DOMAIN reading'.intervals |-> reading'.intervals[i].seconds]
<1>8. drawn = seconds
  BY <1>7
<1> HIDE DEF seconds
<1>9. /\ \A i \in DOMAIN drawn : drawn[i] \in 0..(LastClock - 1)
      /\ 0 < reading'.times[1] /\ (\A i \in 2..Rows : reading'.times[i - 1] <= reading'.times[i])
           => SumOf(drawn) = reading'.times[Rows] - reading'.times[1]
  BY <1>3, <1>7, <1>8
<1>10. reading'.running[Rows] = SumOf(reading'.times) /\ SumOf(reading'.shares) = Rows
  BY <1>4, <1>5, <1>7
<1>11. \A i \in 1..Rows : PriorityTip(reading'.kept, i, reading'.own) = PriorityTip(reading'.tips, i, reading'.own)
  BY <1>6, <1>7
<1> QED BY <1>7, <1>9, <1>10, <1>11 DEF ChartsAddUp

-----------------------------------------------------------------------------
\* What a list of rules says is what its first rule that fits says.
LEMMA FirstOfIs ==
  ASSUME NEW n \in Nat, NEW rules, DOMAIN rules = 1..n, NEW otherwise
  PROVE  \/ (\A i \in 1..n : ~ rules[i][1]) /\ FirstOf(rules, otherwise) = otherwise
         \/ \E i \in 1..n : /\ rules[i][1] /\ FirstOf(rules, otherwise) = rules[i][2]
                            /\ \A j \in 1..n : j < i => ~ rules[j][1]
<1> DEFINE fits == {i \in DOMAIN rules : rules[i][1]}
<1>1. FirstOf(rules, otherwise) = IF fits = {} THEN otherwise ELSE rules[Min(fits)][2]
  BY DEF FirstOf
<1>2. CASE fits = {}
  BY <1>1, <1>2
<1>3. CASE fits # {}
  <2> DEFINE m == Min(fits)
  <2>2. m \in fits /\ \A y \in fits : m <= y
    <3>1. fits \subseteq Nat
      OBVIOUS
    <3> QED BY <1>3, <3>1, MinIs
  <2> HIDE DEF m
  <2>3. \A j \in 1..n : j < m => j \notin fits
    BY <2>2
  <2>4. m \in 1..n /\ rules[m][1] /\ \A j \in 1..n : j < m => ~ rules[j][1]
    BY <2>2, <2>3
  <2>5. FirstOf(rules, otherwise) = rules[m][2]
    BY <1>1, <1>3 DEF m
  <2> QED BY <2>4, <2>5
<1> QED BY <1>2, <1>3

\* What may be said of a receipt that is missing.
LEMMA MissingIs ==
  ASSUME NEW head \in Int, NEW node \in Int, NEW build \in Int,
         MissingReceipt(head, Retention(node, build, 1)) = "maybe_pruned",
         node >= -1, build >= -1
  PROVE  node # 0 /\ head > 1 /\ head > node
<1> DEFINE window == Retention(node, build, 1)
           kept == <<<<node # -1, node>>, <<build # -1, build>>>>
           said == <<<<window = 0, "not_found">>, <<head = -1, "unknown">>, <<head - window <= 0, "not_found">>>>
<1>1. \/ node = -1 /\ build = -1 /\ window = 1
      \/ node # -1 /\ window = node
      \/ node = -1 /\ build # -1 /\ window = build
  <2>1. DOMAIN kept = 1..2 /\ 2 \in Nat
    OBVIOUS
  <2>2. /\ kept[1][1] = (node # -1) /\ kept[1][2] = node
        /\ kept[2][1] = (build # -1) /\ kept[2][2] = build
    OBVIOUS
  <2>3. window = FirstOf(kept, 1)
    BY DEF Retention
  <2> HIDE DEF kept, window
  <2>4. \/ (\A i \in 1..2 : ~ kept[i][1]) /\ window = 1
        \/ \E i \in 1..2 : kept[i][1] /\ window = kept[i][2] /\ \A j \in 1..2 : j < i => ~ kept[j][1]
    BY <2>1, <2>3, FirstOfIs
  <2>5. 1..2 = {1, 2} /\ 1 < 2
    OBVIOUS
  <2>6. CASE (\A i \in 1..2 : ~ kept[i][1]) /\ window = 1
    BY <2>2, <2>5, <2>6
  <2>7. CASE \E i \in 1..2 : kept[i][1] /\ window = kept[i][2] /\ \A j \in 1..2 : j < i => ~ kept[j][1]
    BY <2>2, <2>5, <2>7
  <2> QED BY <2>4, <2>6, <2>7
<1>2. window # 0 /\ head # -1 /\ ~ (head - window <= 0)
  <2>1. DOMAIN said = 1..3 /\ 3 \in Nat
    OBVIOUS
  <2>2. /\ said[1][1] = (window = 0) /\ said[1][2] = "not_found"
        /\ said[2][1] = (head = -1) /\ said[2][2] = "unknown"
        /\ said[3][1] = (head - window <= 0) /\ said[3][2] = "not_found"
    OBVIOUS
  <2>3. FirstOf(said, "maybe_pruned") = "maybe_pruned"
    BY DEF MissingReceipt
  <2> HIDE DEF said, window
  <2> DEFINE otherwise == "maybe_pruned"
  <2> HIDE DEF otherwise
  <2>4. \/ (\A i \in 1..3 : ~ said[i][1]) /\ FirstOf(said, otherwise) = otherwise
        \/ \E i \in 1..3 : /\ said[i][1] /\ FirstOf(said, otherwise) = said[i][2]
                            /\ \A j \in 1..3 : j < i => ~ said[j][1]
    BY <2>1, FirstOfIs
  <2>5. 1..3 = {1, 2, 3}
    OBVIOUS
  <2>6. \A i \in 1..3 : said[i][2] # "maybe_pruned"
    BY <2>2, <2>5
  <2>7. \A i \in 1..3 : ~ said[i][1]
    BY <2>3, <2>4, <2>6 DEF otherwise
  <2> QED BY <2>2, <2>5, <2>7
<1> HIDE DEF window
<1> QED BY <1>1, <1>2

\* Some gas costs something, and below the switch it costs what its transfers do.
LEMMA FeeIs ==
  ASSUME UnitAssumption, NEW gas \in 0..5, NEW at \in Nat, NEW registry, registry["testnet"].from = Switch
  PROVE  LET fee == Fee(gas, at, "testnet", registry, Policy)
         IN  /\ gas > 0 <=> fee > 0
             /\ at < Switch => fee >= gas * (Base \div Policy.transfer)
<1> DEFINE fee == Fee(gas, at, "testnet", registry, Policy)
<1>1. Base \in Nat \ {0} /\ Switch \in Nat
  BY DEF UnitAssumption
<1>2. /\ Policy.price = 2 /\ Policy.bps = 5000 /\ Policy.fixed = 1 /\ Policy.transfer = 2
      /\ RegistryKey("testnet") = "testnet"
  BY DEF Policy, RegistryKey
<1>3. Min({5000, 10000}) = 5000
  <2> DEFINE m == Min({5000, 10000})
  <2>1. m \in {5000, 10000} /\ \A y \in {5000, 10000} : m <= y
    <3>1. {5000, 10000} \subseteq Nat /\ {5000, 10000} # {}
      OBVIOUS
    <3> QED BY <3>1, MinIs
  <2> HIDE DEF m
  <2>2. m = 5000
    BY <2>1
  <2> QED BY <2>2 DEF m
<1>4. gas <= 0 => fee = 0
  BY DEF Fee
<1>5. gas > 0 /\ at >= Switch => fee = (gas * 2 * 5000) \div 10000 + 1
  BY <1>1, <1>2, <1>3 DEF Fee
<1>6. gas > 0 /\ ~ (at >= Switch) => fee = ((gas + 2 - 1) \div 2) * Base
  BY <1>1, <1>2 DEF Fee
<1> DEFINE half == Base \div 2
<1>7. half \in Nat /\ 2 * half <= Base
  BY <1>1
<1> HIDE DEF half, fee
<1>8. gas > 0 /\ at >= Switch => fee > 0
  <2>1. CASE gas \in {1, 2}
    BY <1>5, <2>1
  <2>2. CASE gas \in {3, 4, 5}
    BY <1>5, <2>2
  <2> QED BY <2>1, <2>2
<1>9. gas > 0 /\ ~ (at >= Switch) => fee > 0 /\ fee >= gas * half
  <2>1. CASE gas = 1
    BY <1>1, <1>6, <1>7, <2>1
  <2>2. CASE gas = 2
    BY <1>1, <1>6, <1>7, <2>2
  <2>3. CASE gas = 3
    BY <1>1, <1>6, <1>7, <2>3
  <2>4. CASE gas = 4
    BY <1>1, <1>6, <1>7, <2>4
  <2>5. CASE gas = 5
    BY <1>1, <1>6, <1>7, <2>5
  <2> QED BY <2>1, <2>2, <2>3, <2>4, <2>5
<1>10. gas > 0 <=> fee > 0
  BY <1>1, <1>4, <1>8, <1>9
<1>11. at < Switch => fee >= gas * half
  BY <1>1, <1>4, <1>7, <1>9
<1> QED BY <1>2, <1>10, <1>11 DEF half, fee

\* A fee is charged exactly for gas, at least at the base price before the switch, and a receipt may be
\* pruned only of a node that prunes.
LEMMA FeesRead == UnitAssumption /\ WideAssumption /\ ReadingAssumption /\ ReadFees => ChartsAddUp'
<1> SUFFICES ASSUME UnitAssumption, WideAssumption, ReadingAssumption, ReadFees PROVE ChartsAddUp'
  OBVIOUS
<1>1. PICK gas \in 0..5, at \in {Switch - 1, Switch}, head \in -1..3, node \in -1..2, build \in -1..2 :
       reading' = [of |-> "fee", gas |-> gas, height |-> at, head |-> head, node |-> node, build |-> build,
                   fee |-> Fee(gas, at, "testnet", [n \in UnitNetworks |-> Fallback(n)], Policy),
                   missing |-> MissingReceipt(head, Retention(node, build, 1))]
  BY DEF ReadFees
<1> DEFINE start == [n \in UnitNetworks |-> Fallback(n)]
           fee == Fee(gas, at, "testnet", start, Policy)
           missing == MissingReceipt(head, Retention(node, build, 1))
<1>2. start["testnet"].from = Switch /\ at \in Nat
  BY DEF Fallback, UnitNetworks, UnitAssumption
<1> HIDE DEF start
<1>3. /\ gas > 0 <=> fee > 0
      /\ at < Switch => fee >= gas * (Base \div Policy.transfer)
  BY <1>2, FeeIs
<1>4. missing = "maybe_pruned" => node # 0 /\ head > 1 /\ head > node
  BY MissingIs
<1>5. Max({1, node}) \in {1, node}
  <2>1. \E x \in {1, node} : \A y \in {1, node} : x >= y
    OBVIOUS
  <2> QED BY <2>1 DEF Max
<1> HIDE DEF fee, missing
<1>6. /\ reading'.of = "fee" /\ reading'.gas = gas /\ reading'.height = at /\ reading'.head = head
      /\ reading'.node = node /\ reading'.fee = fee /\ reading'.missing = missing
  BY <1>1 DEF fee, missing, start
<1>7. missing = "maybe_pruned" => node # 0 /\ head > Max({1, node})
  <2> DEFINE most == Max({1, node})
  <2>1. most \in {1, node}
    BY <1>5
  <2> HIDE DEF most
  <2>2. missing = "maybe_pruned" => node # 0 /\ head > most
    BY <1>4, <2>1
  <2> QED BY <2>2 DEF most
<1> QED BY <1>3, <1>6, <1>7 DEF ChartsAddUp

\* What is added up of a sample of blocks, and drawn of it, adds up.
THEOREM AddsUp == UnitAssumption /\ WideAssumption /\ ReadingAssumption => (ReadSpec => []EconomyAddsUp)
<1> SUFFICES ASSUME UnitAssumption, WideAssumption, ReadingAssumption PROVE ReadSpec => []EconomyAddsUp
  OBVIOUS
<1>1. ReadInit => EconomyAddsUp
  BY DEF ReadInit, Unread, EconomyAddsUp, SampleAddsUp, ChartsAddUp
<1>2. EconomyAddsUp /\ [ReadNext]_reading => EconomyAddsUp'
  <2> SUFFICES ASSUME EconomyAddsUp, [ReadNext]_reading PROVE EconomyAddsUp'
    OBVIOUS
  <2>1. CASE ReadEconomy
    <3>1. reading'.of = "economy"
      BY <2>1 DEF ReadEconomy
    <3>2. ChartsAddUp'
      BY <3>1 DEF ChartsAddUp
    <3> QED BY <2>1, <3>2, SamplesRead DEF EconomyAddsUp
  <2>2. CASE ReadCharts
    <3>1. reading'.of = "charts"
      BY <2>2 DEF ReadCharts
    <3>2. SampleAddsUp'
      BY <3>1 DEF SampleAddsUp
    <3> QED BY <2>2, <3>2, ChartsRead DEF EconomyAddsUp
  <2>3. CASE ReadFees
    <3>1. reading'.of = "fee"
      BY <2>3 DEF ReadFees
    <3>2. SampleAddsUp'
      BY <3>1 DEF SampleAddsUp
    <3> QED BY <2>3, <3>2, FeesRead DEF EconomyAddsUp
  <2>4. ASSUME reading'.of \notin {"economy", "charts", "fee"} PROVE EconomyAddsUp'
    BY <2>4 DEF EconomyAddsUp, SampleAddsUp, ChartsAddUp
  <2>5. CASE ReadSections
    BY <2>4, <2>5 DEF ReadSections
  <2>6. CASE ReadPayload
    <3>1. PICK v \in Variants :
            reading' = [of |-> "payload", variant |-> v,
                   tagged |-> KindOf(Tagged(v, Shape(v))), flat |-> KindOf(Flat(Shape(v), None)),
                   named |-> KindOf(Flat(Shape(v), v)), text |-> KindOf(Text(v)),
                   step |-> StepKind(Tagged(v, Shape(v))),
                   signed |-> SignedHeadline(KindOf(Tagged(v, Shape(v))), TRUE, FALSE)]
      BY <2>6 DEF ReadPayload
    <3>2. reading'.of = "payload"
      BY <3>1
    <3> QED BY <2>4, <3>2
  <2>7. CASE ReadCall
    BY <2>4, <2>7 DEF ReadCall
  <2>8. CASE ReadRoute
    BY <2>4, <2>8 DEF ReadRoute
  <2>9. CASE ReadDescription
    BY <2>4, <2>9 DEF ReadDescription
  <2>10. CASE UNCHANGED reading
    BY <2>10 DEF EconomyAddsUp, SampleAddsUp, ChartsAddUp
  <2> QED BY <2>1, <2>2, <2>3, <2>5, <2>6, <2>7, <2>8, <2>9, <2>10 DEF ReadNext
<1> QED BY <1>1, <1>2, PTL DEF ReadSpec

-----------------------------------------------------------------------------
(* Readings: the sections of a block page.                                    *)

\* The sections of the first transactions of a page, of none of them to begin with.
Grows(f, txs) == f = [i \in 0..Len(txs) |-> IF i = 0 THEN <<>> ELSE Placed(f[i - 1], txs, i)]

\* They can be told for every page.
LEMMA GrowsExists == ASSUME NEW txs, Len(txs) \in Nat PROVE \E f : Grows(f, txs)
<1> DEFINE onward(f, i) == IF i = 0 THEN <<>> ELSE Placed(f[i - 1], txs, i)
           T == {n \in Nat : \E f : DOMAIN f = 0..n /\ \A i \in 0..n : f[i] = onward(f, i)}
<1>1. 0 \in T
  <2> DEFINE f == [i \in 0..0 |-> <<>>]
  <2>1. DOMAIN f = 0..0 /\ \A i \in 0..0 : f[i] = onward(f, i)
    OBVIOUS
  <2> HIDE DEF f, onward
  <2> QED BY <2>1
<1>2. ASSUME NEW n \in T PROVE n + 1 \in T
  <2>1. PICK f : DOMAIN f = 0..n /\ \A i \in 0..n : f[i] = onward(f, i)
    BY <1>2
  <2>0. n \in Nat
    OBVIOUS
  <2> DEFINE g == [i \in 0..(n + 1) |-> onward(f, i)]
  <2>2. \A i \in 0..n : g[i] = f[i]
    BY <2>0, <2>1
  <2>3. \A i \in 0..(n + 1) : i # 0 => i - 1 \in 0..n
    BY <2>0
  <2>4. \A i \in 0..(n + 1) : g[i] = onward(g, i)
    BY <2>2, <2>3
  <2>5. DOMAIN g = 0..(n + 1) /\ n + 1 \in Nat
    BY <2>0
  <2> HIDE DEF g, onward
  <2> QED BY <2>4, <2>5
<1>3. T = Nat
  <2> HIDE DEF T
  <2>1. T \subseteq Nat
    BY DEF T
  <2> QED BY <1>1, <1>2, <2>1, Successors
<1>4. PICK f : DOMAIN f = 0..Len(txs) /\ \A i \in 0..Len(txs) : f[i] = onward(f, i)
  <2> HIDE DEF onward
  <2>1. Len(txs) \in T
    BY <1>3
  <2> QED BY <2>1
<1>5. f = [i \in 0..Len(txs) |-> onward(f, i)]
  <2> HIDE DEF onward
  <2> QED BY <1>4
<1>6. Grows(f, txs)
  BY <1>5 DEF Grows
<1> QED BY <1>6

\* And the sections of a page are what its last transaction makes of them.
LEMMA GroupsGrow ==
  ASSUME NEW txs, Len(txs) \in Nat
  PROVE  \E f : /\ f[0] = <<>> /\ \A i \in 1..Len(txs) : f[i] = Placed(f[i - 1], txs, i)
                /\ GroupTxInsights(txs) = f[Len(txs)]
<1> DEFINE G == CHOOSE f : f = [i \in 0..Len(txs) |-> IF i = 0 THEN <<>> ELSE Placed(f[i - 1], txs, i)]
<1>1. \E f : f = [i \in 0..Len(txs) |-> IF i = 0 THEN <<>> ELSE Placed(f[i - 1], txs, i)]
  BY GrowsExists DEF Grows
<1>2. G = [i \in 0..Len(txs) |-> IF i = 0 THEN <<>> ELSE Placed(G[i - 1], txs, i)]
  BY <1>1
<1>3. GroupTxInsights(txs) = G[Len(txs)]
  BY DEF GroupTxInsights
<1> HIDE DEF G
<1>4. \A i \in 0..Len(txs) : G[i] = IF i = 0 THEN <<>> ELSE Placed(G[i - 1], txs, i)
  BY <1>2
<1>5. G[0] = <<>> /\ \A i \in 1..Len(txs) : G[i] = Placed(G[i - 1], txs, i)
  <2>1. 0 \in 0..Len(txs) /\ \A i \in 1..Len(txs) : i \in 0..Len(txs) /\ i # 0
    OBVIOUS
  <2> QED BY <1>4, <2>1
<1> QED BY <1>3, <1>5

\* What the transactions so far have become: sections of one kind and signer, each of which
\* goes on where the one before it ends, for a reason.
Kinds == {"Transfer", "Bond", "Unknown"}
Sections == [kind: Kinds, signer: {1, 2}, items: Seq(Nat)]
Start(section) == section.items[1]
End(section) == section.items[1] + Len(section.items) - 1
Like(section, txs) ==
  /\ section \in Sections /\ Len(section.items) > 0
  /\ \A k \in 1..Len(section.items) :
       /\ section.items[k] = Start(section) + k - 1 /\ section.items[k] \in 1..Len(txs)
       /\ section.kind = txs[section.items[k]].kind /\ section.signer = txs[section.items[k]].signer
Divided(left, right) == left.kind = "Unknown" \/ <<left.kind, left.signer>> # <<right.kind, right.signer>>
Partition(groups, txs, i) ==
  /\ groups \in Seq(Sections)
  /\ \A g \in 1..Len(groups) : Like(groups[g], txs)
  /\ i = 0 => Len(groups) = 0
  /\ i > 0 => Len(groups) > 0 /\ Start(groups[1]) = 1 /\ End(groups[Len(groups)]) = i
  /\ \A g \in 1..(Len(groups) - 1) :
       Start(groups[g + 1]) = End(groups[g]) + 1 /\ Divided(groups[g], groups[g + 1])

Page(txs) == Len(txs) \in Nat /\ \A i \in 1..Len(txs) : txs[i] \in [kind: Kinds, signer: {1, 2}]

\* One more transaction leaves them so, whether it joins the last section or begins one.
LEMMA PlacedIs ==
  ASSUME NEW txs, Page(txs), NEW i \in 1..Len(txs), NEW groups, Partition(groups, txs, i - 1)
  PROVE  Partition(Placed(groups, txs, i), txs, i)
<1> DEFINE m == Len(groups)
           n == Len(txs)
<1>0. groups \in Seq(Sections) /\ m \in Nat /\ n \in Nat /\ DOMAIN groups = 1..m /\ (groups = <<>> <=> m = 0)
  <2>1. groups \in Seq(Sections) /\ Len(txs) \in Nat
    BY DEF Partition, Page
  <2> QED BY <2>1, LenProperties, EmptySeq
<1>a. m \in Nat /\ n \in Nat /\ i \in Nat /\ i > 0 /\ i - 1 \in Nat /\ i \in 1..n
  BY <1>0
<1>b. txs[i].kind \in Kinds /\ txs[i].signer \in {1, 2}
  <2>1. txs[i] \in [kind: Kinds, signer: {1, 2}]
    BY DEF Page
  <2> QED BY <2>1
<1>c. /\ \A g \in 1..m : Like(groups[g], txs)
      /\ i - 1 = 0 => m = 0
      /\ i - 1 > 0 => m > 0 /\ Start(groups[1]) = 1 /\ End(groups[m]) = i - 1
      /\ \A g \in 1..(m - 1) :
           Start(groups[g + 1]) = End(groups[g]) + 1 /\ Divided(groups[g], groups[g + 1])
  BY DEF Partition
<1>d. ASSUME NEW done, done \in Seq(Sections), Len(done) > 0,
             \A g \in 1..Len(done) : Like(done[g], txs),
             Start(done[1]) = 1 /\ End(done[Len(done)]) = i,
             \A g \in 1..(Len(done) - 1) :
               Start(done[g + 1]) = End(done[g]) + 1 /\ Divided(done[g], done[g + 1])
      PROVE  Partition(done, txs, i)
  BY <1>a, <1>d DEF Partition
<1>e. Placed(groups, txs, i) =
        IF groups # <<>> /\ Joins(groups[m], txs[i])
        THEN [groups EXCEPT ![m].items = Append(@, i)]
        ELSE Append(groups, [kind |-> txs[i].kind, signer |-> txs[i].signer, items |-> <<i>>])
  BY DEF Placed, Last
<1>1. CASE groups # <<>> /\ Joins(groups[m], txs[i])
  <2> DEFINE last == groups[m]
             more == Append(last.items, i)
             one == [last EXCEPT !.items = more]
             done == [groups EXCEPT ![m] = one]
  <2>1. Placed(groups, txs, i) = done
    BY <1>1, <1>e
  <2>d. done = [groups EXCEPT ![m] = one]
    OBVIOUS
  <2> HIDE DEF done
  <2>k. last.kind = txs[i].kind /\ last.signer = txs[i].signer
    BY <1>1 DEF Joins, JoinsOfKind
  <2>z. m > 0 /\ m \in 1..m /\ last = groups[m]
    BY <1>0, <1>1, <1>a
  <2>l. Like(last, txs)
    BY <1>c, <2>z
  <2>e. End(last) = i - 1 /\ Start(groups[1]) = 1
    BY <1>a, <1>c, <2>z
  <2> HIDE DEF last, m, n
  <2>2. /\ last \in Sections /\ Len(last.items) > 0
    BY <2>l DEF Like
  <2>3. /\ last.kind \in Kinds /\ last.signer \in {1, 2} /\ last.items \in Seq(Nat)
        /\ last = [kind |-> last.kind, signer |-> last.signer, items |-> last.items]
    BY <2>2 DEF Sections
  <2> DEFINE l == Len(last.items)
  <2>4. l \in Nat /\ l > 0
    BY <2>2, <2>3, LenProperties
  <2>5. /\ more \in Seq(Nat) /\ Len(more) = l + 1
        /\ \A k \in 1..l : more[k] = last.items[k]
        /\ more[l + 1] = i
    BY <1>a, <2>3, AppendProperties
  <2> HIDE DEF more
  <2>6. one = [kind |-> last.kind, signer |-> last.signer, items |-> more]
    BY <2>3
  <2> HIDE DEF one
  <2>7. one.kind = last.kind /\ one.signer = last.signer /\ one.items = more
    BY <2>6
  <2>8. one \in Sections
    BY <2>3, <2>5, <2>6 DEF Sections
  <2>9. last.items[1] \in Nat /\ more[1] = last.items[1] /\ last.items[1] + l - 1 = i - 1
    <3>1. 1 \in 1..l
      BY <2>4
    <3>2. last.items[1] \in Nat
      BY <2>3, <3>1, LenProperties, ElementOfSeq
    <3> QED BY <2>5, <2>e, <3>1, <3>2 DEF End
  <2>10. Start(one) = Start(last) /\ Start(last) \in Nat /\ i = Start(last) + l
    BY <1>a, <2>4, <2>7, <2>9 DEF Start
  <2>11. End(one) = i
    <3>1. End(one) = Start(one) + Len(more) - 1
      BY <2>7 DEF Start, End
    <3> HIDE DEF l
    <3> QED BY <1>a, <2>4, <2>5, <2>10, <3>1
  <2>12. Like(one, txs)
    <3>1. \A k \in 1..l :
            /\ last.items[k] = Start(last) + k - 1 /\ last.items[k] \in 1..Len(txs)
            /\ last.kind = txs[last.items[k]].kind /\ last.signer = txs[last.items[k]].signer
      BY <2>l DEF Like
    <3> DEFINE fits(k) == /\ more[k] = Start(one) + k - 1 /\ more[k] \in 1..Len(txs)
                          /\ one.kind = txs[more[k]].kind /\ one.signer = txs[more[k]].signer
    <3>2. \A k \in 1..l : fits(k)
      BY <2>5, <2>7, <2>10, <3>1
    <3>3. i = Start(one) + (l + 1) - 1
      <4> HIDE DEF l
      <4> QED BY <1>a, <2>4, <2>10
    <3>4. fits(l + 1)
      BY <2>5, <2>7, <2>k, <3>3
    <3>5. \A k \in 1..(l + 1) : k \in 1..l \/ k = l + 1
      <4> HIDE DEF l
      <4> QED BY <2>4
    <3>6. \A k \in 1..(l + 1) : fits(k)
      <4> HIDE DEF fits, l
      <4> QED BY <3>2, <3>4, <3>5
    <3>7. l + 1 > 0
      <4> HIDE DEF l
      <4> QED BY <2>4
    <3> QED BY <2>5, <2>7, <2>8, <3>6, <3>7 DEF Like
  <2>13. /\ done \in Seq(Sections) /\ Len(done) = m /\ done[m] = one
         /\ \A g \in 1..m : g # m => done[g] = groups[g]
    <3>1. m = Len(groups)
      BY DEF m
    <3>2. m \in 1..Len(groups)
      BY <2>z, <3>1
    <3>3. done \in Seq(Sections) /\ Len(done) = Len(groups)
      BY <1>0, <2>8, <2>d, <3>2, ExceptSeq
    <3>4. done[m] = one /\ \A g \in 1..m : g # m => done[g] = groups[g]
      BY <1>0, <2>d, <2>z
    <3> QED BY <3>1, <3>3, <3>4
  <2>14. \A g \in 1..m : Like(done[g], txs)
    BY <1>c, <2>12, <2>13
  <2>15. Start(done[1]) = 1 /\ End(done[m]) = i
    <3>1. CASE m = 1
      BY <2>10, <2>11, <2>13, <2>e, <2>z, <3>1
    <3>2. CASE m # 1
      <4>1. 1 \in 1..m
        BY <1>a, <2>z
      <4> QED BY <2>11, <2>13, <2>e, <3>2, <4>1
    <3> QED BY <3>1, <3>2
  <2>16. ASSUME NEW g \in 1..(m - 1)
         PROVE  Start(done[g + 1]) = End(done[g]) + 1 /\ Divided(done[g], done[g + 1])
    <3>1. g \in 1..m /\ g # m /\ g + 1 \in 1..m
      BY <1>a
    <3>2. done[g] = groups[g] /\ Start(groups[g + 1]) = End(groups[g]) + 1 /\ Divided(groups[g], groups[g + 1])
      BY <1>c, <2>13, <3>1
    <3>3. CASE g + 1 = m
      <4>1. groups[g + 1] = last /\ done[g + 1] = one
        BY <2>13, <2>z, <3>3
      <4> QED BY <2>7, <2>10, <3>2, <4>1 DEF Divided
    <3>4. CASE g + 1 # m
      BY <2>13, <3>1, <3>2, <3>4
    <3> QED BY <3>3, <3>4
  <2>17. Partition(done, txs, i)
    BY <1>d, <2>13, <2>14, <2>15, <2>16, <2>z
  <2> QED BY <2>1, <2>17
<1>2. CASE ~(groups # <<>> /\ Joins(groups[m], txs[i]))
  <2> DEFINE one == [kind |-> txs[i].kind, signer |-> txs[i].signer, items |-> <<i>>]
             done == Append(groups, one)
  <2>1. Placed(groups, txs, i) = done
    BY <1>2, <1>e
  <2>2. one \in Sections /\ one.kind = txs[i].kind /\ one.signer = txs[i].signer /\ one.items = <<i>>
    BY <1>a, <1>b DEF Sections
  <2>3. Like(one, txs) /\ Start(one) = i /\ End(one) = i
    <3>1. Len(one.items) = 1 /\ one.items[1] = i
      BY <2>2
    <3>2. Start(one) = i /\ End(one) = i
      BY <1>a, <3>1 DEF Start, End
    <3>3. \A k \in 1..Len(one.items) : one.items[k] = i /\ k = 1
      BY <3>1
    <3> HIDE DEF one
    <3>4. \A k \in 1..Len(one.items) :
            /\ one.items[k] = Start(one) + k - 1 /\ one.items[k] \in 1..Len(txs)
            /\ one.kind = txs[one.items[k]].kind /\ one.signer = txs[one.items[k]].signer
      BY <1>a, <2>2, <3>2, <3>3
    <3> QED BY <2>2, <3>1, <3>2, <3>4 DEF Like
  <2> HIDE DEF one
  <2>4. /\ done \in Seq(Sections) /\ Len(done) = m + 1 /\ done[m + 1] = one
        /\ \A g \in 1..m : done[g] = groups[g]
    BY <1>0, <2>2, AppendProperties
  <2>j. m > 0 => ~Joins(groups[m], txs[i])
    BY <1>0, <1>2
  <2> HIDE DEF done, m, n
  <2>5. \A g \in 1..(m + 1) : g \in 1..m \/ g = m + 1
    BY <1>a
  <2>6. \A g \in 1..(m + 1) : Like(done[g], txs)
    BY <1>c, <2>3, <2>4, <2>5
  <2>7. Start(done[1]) = 1
    <3>1. CASE m = 0
      <4>1. i - 1 = 0
        BY <1>a, <1>c, <3>1
      <4>2. i = 1 /\ m + 1 = 1
        BY <1>a, <3>1, <4>1
      <4> QED BY <2>3, <2>4, <4>2
    <3>2. CASE m > 0
      <4>1. i - 1 > 0 /\ 1 \in 1..m
        BY <1>a, <1>c, <3>2
      <4> QED BY <1>c, <2>4, <4>1
    <3> QED BY <1>a, <3>1, <3>2
  <2>8. ASSUME NEW g \in 1..m
        PROVE  Start(done[g + 1]) = End(done[g]) + 1 /\ Divided(done[g], done[g + 1])
    <3>1. CASE g = m
      <4>0. m > 0 /\ i - 1 > 0
        BY <1>a, <1>c, <3>1
      <4>1. Divided(groups[m], one)
        BY <2>2, <2>j, <4>0 DEF Divided, Joins, JoinsOfKind
      <4>2. done[g] = groups[m] /\ done[g + 1] = one
        BY <2>4, <3>1
      <4>3. Start(one) = End(groups[m]) + 1
        BY <1>a, <1>c, <2>3, <4>0
      <4> QED BY <4>1, <4>2, <4>3
    <3>2. CASE g # m
      <4>1. g \in 1..(m - 1) /\ g + 1 \in 1..m
        BY <1>a, <3>2
      <4> QED BY <1>c, <2>4, <4>1
    <3> QED BY <3>1, <3>2
  <2>9. m + 1 > 0 /\ m + 1 - 1 = m
    BY <1>a
  <2>10. Partition(done, txs, i)
    <3>1. Len(done) > 0 /\ Len(done) - 1 = m
      BY <1>a, <2>4, <2>9
    <3>2. \A g \in 1..Len(done) : Like(done[g], txs)
      BY <2>4, <2>6
    <3>3. Start(done[1]) = 1 /\ End(done[Len(done)]) = i
      BY <2>3, <2>4, <2>7
    <3>4. \A g \in 1..(Len(done) - 1) :
            Start(done[g + 1]) = End(done[g]) + 1 /\ Divided(done[g], done[g + 1])
      BY <2>8, <3>1
    <3> QED BY <1>d, <2>4, <3>1, <3>2, <3>3, <3>4
  <2> QED BY <2>1, <2>10
<1> QED BY <1>1, <1>2

\* So does every page.
LEMMA GroupsPartition ==
  ASSUME NEW txs, Page(txs)
  PROVE  Partition(GroupTxInsights(txs), txs, Len(txs))
<1>1. Len(txs) \in Nat
  BY DEF Page
<1>2. PICK f : /\ f[0] = <<>> /\ \A i \in 1..Len(txs) : f[i] = Placed(f[i - 1], txs, i)
               /\ GroupTxInsights(txs) = f[Len(txs)]
  BY <1>1, GroupsGrow
<1> DEFINE T == {i \in Nat : i <= Len(txs) => Partition(f[i], txs, i)}
<1>3. 0 \in T
  <2> DEFINE none == <<>>
  <2>1. none \in Seq(Sections) /\ Len(none) = 0
    OBVIOUS
  <2>2. f[0] = none
    BY <1>2
  <2> HIDE DEF none
  <2>3. Partition(none, txs, 0)
    BY <2>1 DEF Partition
  <2> QED BY <2>2, <2>3
<1>4. ASSUME NEW i \in T PROVE i + 1 \in T
  <2>1. CASE ~(i + 1 <= Len(txs))
    BY <2>1
  <2>2. CASE i + 1 <= Len(txs)
    <3>1. i \in Nat /\ i + 1 \in 1..Len(txs) /\ i + 1 - 1 = i /\ i <= Len(txs)
      BY <1>1, <2>2
    <3>2. Partition(f[i + 1 - 1], txs, i + 1 - 1)
      BY <3>1
    <3>3. Partition(Placed(f[i + 1 - 1], txs, i + 1), txs, i + 1)
      BY <3>1, <3>2, PlacedIs
    <3> QED BY <1>2, <3>1, <3>3
  <2> QED BY <2>1, <2>2
<1>5. T = Nat
  <2> HIDE DEF T
  <2>1. T \subseteq Nat
    BY DEF T
  <2> QED BY <1>3, <1>4, <2>1, Successors
<1> QED BY <1>1, <1>2, <1>5

\* The numbers up to one, and the numbers that follow it, are those up to the last of them.
CountsUp(k) == [i \in 1..k |-> i]

\* How long they are.
LEMMA CountsAre ==
  ASSUME NEW k \in Nat
  PROVE  /\ CountsUp(k) \in Seq(Nat) /\ Len(CountsUp(k)) = k
         /\ \A i \in 1..k : CountsUp(k)[i] = i
<1>1. CountsUp(k) \in [1..k -> Nat] /\ \A i \in 1..k : CountsUp(k)[i] = i
  BY DEF CountsUp
<1> QED BY <1>1, SeqDef, LenIs

\* What follows them is counted on.
LEMMA CountsOn ==
  ASSUME NEW k \in Nat, NEW s \in Seq(Nat), \A j \in 1..Len(s) : s[j] = k + j
  PROVE  CountsUp(k) \o s = CountsUp(k + Len(s))
<1> DEFINE l == Len(s)
           c == CountsUp(k)
           d == CountsUp(k + l)
<1>1. l \in Nat /\ k + l \in Nat
  BY LenProperties
<1>2. \A i \in 1..k : c[i] = i
  BY CountsAre
<1>3. \A i \in 1..(k + l) : d[i] = i
  BY <1>1, CountsAre
<1>4. c \in Seq(Nat) /\ d \in Seq(Nat)
  BY <1>1, CountsAre
<1>5. Len(c) = k /\ Len(d) = k + l
  BY <1>1, CountsAre
<1>6. /\ c \o s \in Seq(Nat) /\ Len(c \o s) = k + l
      /\ \A i \in 1..(k + l) : (c \o s)[i] = IF i <= k THEN c[i] ELSE s[i - k]
  BY <1>4, <1>5, ConcatProperties
<1> DEFINE whole == c \o s
<1> HIDE DEF c, d
<1>7. ASSUME NEW i \in 1..(k + l) PROVE whole[i] = i
  <2>1. CASE i <= k
    <3>1. i \in 1..k
      BY <1>1, <2>1
    <3> QED BY <1>2, <1>6, <2>1, <3>1
  <2>2. CASE ~(i <= k)
    <3> HIDE DEF l
    <3>1. i - k \in 1..l /\ k + (i - k) = i
      BY <1>1, <2>2
    <3>2. s[i - k] = k + (i - k)
      BY <3>1 DEF l
    <3> QED BY <1>6, <2>2, <3>1, <3>2
  <2> QED BY <2>1, <2>2
<1> HIDE DEF whole, l
<1>8. whole \in Seq(Nat) /\ Len(whole) = k + l
  BY <1>6 DEF whole
<1>9. whole = d
  BY <1>3, <1>4, <1>5, <1>7, <1>8, SeqEqual
<1> QED BY <1>9 DEF whole, c, d, l

\* Put behind each other, the sections are the transactions in order.
Laid(groups, n) ==
  /\ Len(groups) \in Nat /\ DOMAIN groups = 1..Len(groups)
  /\ \A g \in 1..Len(groups) : groups[g].items \in Seq(Nat) /\ Len(groups[g].items) > 0
  /\ \A g \in 1..Len(groups) : \A k \in 1..Len(groups[g].items) : groups[g].items[k] = Start(groups[g]) + k - 1
  /\ n = 0 => Len(groups) = 0
  /\ n > 0 => Len(groups) > 0 /\ Start(groups[1]) = 1 /\ End(groups[Len(groups)]) = n
  /\ \A g \in 1..(Len(groups) - 1) : Start(groups[g + 1]) = End(groups[g]) + 1
Flattened(groups) == FlattenSeq([g \in DOMAIN groups |-> groups[g].items])

\* Then all the items are the numbers up to the last.
LEMMA FlattensTo ==
  ASSUME NEW n \in Nat, NEW groups, Laid(groups, n)
  PROVE  Flattened(groups) = CountsUp(n)
<1>l. /\ Len(groups) \in Nat /\ DOMAIN groups = 1..Len(groups)
      /\ \A g \in 1..Len(groups) : groups[g].items \in Seq(Nat) /\ Len(groups[g].items) > 0
      /\ \A g \in 1..Len(groups) : \A k \in 1..Len(groups[g].items) : groups[g].items[k] = Start(groups[g]) + k - 1
      /\ n = 0 => Len(groups) = 0
      /\ n > 0 => Len(groups) > 0 /\ Start(groups[1]) = 1 /\ End(groups[Len(groups)]) = n
      /\ \A g \in 1..(Len(groups) - 1) : Start(groups[g + 1]) = End(groups[g]) + 1
  BY DEF Laid
<1> DEFINE m == Len(groups)
           seqs == [g \in DOMAIN groups |-> groups[g].items]
<1>1. m \in Nat /\ DOMAIN seqs = 1..m /\ \A g \in 1..m : seqs[g] = groups[g].items
  BY <1>l
<1>m. m \in Nat
  BY <1>l
<1>2. seqs \in [1..m -> Seq(Nat)]
  BY <1>l, <1>1
<1>3. Len(seqs) = m
  BY <1>1, <1>2, LenIs
<1> DEFINE F == CHOOSE f : f = [i \in 1..Len(seqs) |-> IF i = 1 THEN seqs[i] ELSE f[i - 1] \o seqs[i]]
<1>4. FlattenSeq(seqs) = IF Len(seqs) = 0 THEN seqs ELSE F[Len(seqs)]
  BY DEF FlattenSeq
<1>a. /\ \A g \in 1..m : seqs[g] \in Seq(Nat) /\ Len(seqs[g]) \in Nat /\ Len(seqs[g]) > 0
      /\ \A g \in 1..m : \A k \in 1..Len(seqs[g]) : seqs[g][k] = seqs[g][1] + k - 1
      /\ \A g \in 1..m : seqs[g][1] \in Nat
  <2>1. \A g \in 1..m : seqs[g] \in Seq(Nat) /\ Len(seqs[g]) > 0
    BY <1>l, <1>1
  <2>2. \A g \in 1..m : Len(seqs[g]) \in Nat
    BY <2>1, LenProperties
  <2>3. \A g \in 1..m : 1 \in 1..Len(seqs[g])
    <3> HIDE DEF seqs, m
    <3> QED BY <2>1, <2>2
  <2>4. \A g \in 1..m : seqs[g][1] \in Nat
    BY <2>1, <2>3, ElementOfSeq
  <2> HIDE DEF seqs, m
  <2>5. \A g \in 1..m : \A k \in 1..Len(seqs[g]) : seqs[g][k] = seqs[g][1] + k - 1
    BY <1>l, <1>1 DEF Start, m
  <2> QED BY <2>1, <2>2, <2>4, <2>5
<1>b. /\ n = 0 => m = 0
      /\ n > 0 => m > 0 /\ seqs[1][1] = 1 /\ seqs[m][1] + Len(seqs[m]) - 1 = n
      /\ \A g \in 1..(m - 1) : seqs[g + 1][1] = seqs[g][1] + Len(seqs[g]) - 1 + 1
  <2>1. \A g \in 1..(m - 1) : g \in 1..m /\ g + 1 \in 1..m
    <3> HIDE DEF m
    <3> QED BY <1>m
  <2>2. n > 0 => 1 \in 1..m /\ m \in 1..m
    <3>1. n > 0 => m > 0
      BY <1>l
    <3> HIDE DEF m
    <3> QED BY <1>m, <3>1
  <2> QED BY <1>l, <1>1, <2>1, <2>2 DEF Start, End
<1> HIDE DEF m, seqs, F
<1> DEFINE end(g) == seqs[g][1] + Len(seqs[g]) - 1
           H == [g \in 1..m |-> CountsUp(end(g))]
<1>5. CASE n = 0
  <2>1. m = 0 /\ 1..n = {} /\ 1..m = {}
    BY <1>b, <1>5
  <2>2. seqs = [i \in 1..n |-> i]
    BY <1>2, <2>1
  <2> QED BY <1>3, <1>4, <2>1, <2>2 DEF seqs, Flattened, CountsUp
<1>6. CASE n > 0
  <2>0. m > 0 /\ m \in 1..m /\ 1 \in 1..m
    BY <1>m, <1>b, <1>6
  <2>1. \A g \in 1..m : end(g) \in Nat
    BY <1>a
  <2>2. seqs[1] = CountsUp(end(1))
    <3> DEFINE c == CountsUp(Len(seqs[1]))
    <3>1. end(1) = Len(seqs[1])
      BY <1>a, <1>b, <1>6, <2>0
    <3>2. \A k \in 1..Len(seqs[1]) : c[k] = k
      BY <1>a, <2>0, CountsAre
    <3>3. c \in Seq(Nat) /\ Len(c) = Len(seqs[1])
      BY <1>a, <2>0, CountsAre
    <3>4. ASSUME NEW k \in 1..Len(seqs[1]) PROVE seqs[1][k] = k
      <4>1. seqs[1][k] = seqs[1][1] + k - 1
        BY <1>a, <2>0
      <4>2. seqs[1][1] = 1 /\ Len(seqs[1]) \in Nat
        BY <1>a, <1>b, <1>6, <2>0
      <4>3. k \in Nat
        BY <4>2
      <4> QED BY <4>1, <4>2, <4>3
    <3> HIDE DEF c
    <3>5. seqs[1] = c
      BY <1>a, <2>0, <3>2, <3>3, <3>4, SeqEqual
    <3> QED BY <3>1, <3>5 DEF c
  <2>3. ASSUME NEW g \in 1..m, g # 1
        PROVE  g - 1 \in 1..m /\ CountsUp(end(g)) = CountsUp(end(g - 1)) \o seqs[g]
    <3>1. g - 1 \in 1..(m - 1) /\ g - 1 \in 1..m /\ g - 1 + 1 = g
      BY <1>m, <2>3
    <3>2. seqs[g][1] = end(g - 1) + 1
      BY <1>b, <3>1
    <3>3. end(g - 1) \in Nat /\ end(g) = end(g - 1) + Len(seqs[g])
      <4>1. end(g - 1) \in Nat /\ Len(seqs[g]) \in Nat
        BY <1>a, <2>1, <3>1
      <4>2. end(g) = seqs[g][1] + Len(seqs[g]) - 1
        OBVIOUS
      <4> DEFINE e == end(g - 1)
                 l == Len(seqs[g])
                 first == seqs[g][1]
                 last == end(g)
      <4>3. first = e + 1 /\ e \in Nat /\ l \in Nat
        BY <3>2, <4>1
      <4>4. last = first + l - 1
        BY <4>2
      <4> HIDE DEF e, l, first, last
      <4>5. last = e + l
        BY <4>3, <4>4
      <4> QED BY <4>1, <4>5 DEF e, l, last
    <3>4. \A j \in 1..Len(seqs[g]) : seqs[g][j] = end(g - 1) + j
      <4>1. \A j \in 1..Len(seqs[g]) : seqs[g][j] = end(g - 1) + 1 + j - 1
        BY <1>a, <3>2
      <4> HIDE DEF end
      <4> QED BY <1>a, <3>3, <4>1
    <3> HIDE DEF end
    <3>5. CountsUp(end(g - 1)) \o seqs[g] = CountsUp(end(g - 1) + Len(seqs[g]))
      BY <1>a, <3>3, <3>4, CountsOn
    <3> QED BY <3>1, <3>3, <3>5
  <2> HIDE DEF end
  <2>4. \A g \in 1..m : H[g] = CountsUp(end(g))
    OBVIOUS
  <2>5. H = [i \in 1..m |-> H[i]]
    OBVIOUS
  <2> HIDE DEF H
  <2>6. \A i \in 1..m : H[i] = IF i = 1 THEN seqs[i] ELSE H[i - 1] \o seqs[i]
    BY <2>2, <2>3, <2>4
  <2>7. H = [i \in 1..Len(seqs) |-> IF i = 1 THEN seqs[i] ELSE H[i - 1] \o seqs[i]]
    BY <1>3, <2>5, <2>6
  <2>8. F = [i \in 1..Len(seqs) |-> IF i = 1 THEN seqs[i] ELSE F[i - 1] \o seqs[i]]
    BY <2>7 DEF F
  <2>9. \A i \in 1..m : F[i] = IF i = 1 THEN seqs[i] ELSE F[i - 1] \o seqs[i]
    BY <1>3, <2>8
  <2> DEFINE T == {i \in Nat : i + 1 \in 1..m => F[i + 1] = CountsUp(end(i + 1))}
  <2>10. 0 \in T
    <3>1. 0 + 1 = 1
      OBVIOUS
    <3> QED BY <2>0, <2>2, <2>9, <3>1
  <2>11. ASSUME NEW i \in T PROVE i + 1 \in T
    <3>1. CASE i + 1 + 1 \in 1..m
      <4>1. i \in Nat /\ i + 1 \in 1..m /\ i + 1 + 1 # 1 /\ i + 1 + 1 - 1 = i + 1
        BY <1>m, <3>1
      <4>2. F[i + 1] = CountsUp(end(i + 1))
        BY <4>1
      <4> DEFINE g == i + 1 + 1
      <4>3. g \in 1..m /\ g # 1 /\ g - 1 = i + 1
        BY <3>1, <4>1
      <4> HIDE DEF g
      <4>4. F[g] = F[i + 1] \o seqs[g]
        BY <2>9, <4>3
      <4>5. F[g] = CountsUp(end(g))
        BY <2>3, <4>2, <4>3, <4>4
      <4> QED BY <4>1, <4>5 DEF g
    <3>2. CASE i + 1 + 1 \notin 1..m
      BY <3>2
    <3> QED BY <3>1, <3>2
  <2>12. T = Nat
    <3> HIDE DEF T
    <3>1. T \subseteq Nat
      BY DEF T
    <3> QED BY <2>10, <2>11, <3>1, Successors
  <2>13. F[m] = CountsUp(end(m))
    <3>1. m - 1 \in Nat /\ m - 1 + 1 = m
      BY <1>m, <2>0
    <3>2. m - 1 \in T
      BY <2>12, <3>1
    <3> QED BY <2>0, <3>1, <3>2
  <2>14. end(m) = n
    BY <1>b, <1>6 DEF end
  <2>15. FlattenSeq(seqs) = CountsUp(n)
    BY <1>m, <1>3, <1>4, <2>0, <2>13, <2>14
  <2> QED BY <2>15 DEF seqs, Flattened
<1> QED BY <1>5, <1>6

\* The sections of a block page are its transactions, once each and in order.
LEMMA SectionsDo == ReadingAssumption /\ ReadSections => SectionsPartition'
<1> SUFFICES ASSUME ReadingAssumption, ReadSections PROVE SectionsPartition'
  OBVIOUS
<1>1. PICK txs \in UpTo(Longest, [kind: {"Transfer", "Bond", "Unknown"}, signer: {1, 2}]) :
        reading' = [of |-> "sections", txs |-> txs, groups |-> GroupTxInsights(txs)]
  BY DEF ReadSections
<1> DEFINE groups == GroupTxInsights(txs)
<1>2. reading'.txs = txs /\ reading'.groups = groups
  BY <1>1
<1>3. PICK n \in 0..Longest : txs \in [1..n -> [kind: Kinds, signer: {1, 2}]]
  BY DEF UpTo, Kinds
<1>4. n \in Nat
  BY DEF ReadingAssumption
<1>5. Len(txs) = n /\ DOMAIN txs = 1..n
  BY <1>3, <1>4, LenIs
<1>6. Page(txs)
  BY <1>3, <1>4, <1>5 DEF Page
<1>7. Partition(groups, txs, n)
  BY <1>5, <1>6, GroupsPartition
<1> HIDE DEF groups
<1>8. groups \in Seq(Sections) /\ Len(groups) \in Nat /\ DOMAIN groups = 1..Len(groups)
  <2>1. groups \in Seq(Sections)
    BY <1>7 DEF Partition
  <2> QED BY <2>1, LenProperties
<1>9. /\ \A g \in 1..Len(groups) : Like(groups[g], txs)
      /\ \A g \in 1..(Len(groups) - 1) :
           Start(groups[g + 1]) = End(groups[g]) + 1 /\ Divided(groups[g], groups[g + 1])
      /\ n = 0 => Len(groups) = 0
      /\ n > 0 => Len(groups) > 0 /\ Start(groups[1]) = 1 /\ End(groups[Len(groups)]) = n
  BY <1>7 DEF Partition
<1>10. ASSUME NEW g \in 1..Len(groups)
       PROVE  /\ groups[g].items \in Seq(Nat) /\ Len(groups[g].items) > 0
              /\ DOMAIN groups[g].items = 1..Len(groups[g].items)
              /\ \A k \in 1..Len(groups[g].items) :
                   /\ groups[g].items[k] = Start(groups[g]) + k - 1
                   /\ groups[g].kind = txs[groups[g].items[k]].kind
                   /\ groups[g].signer = txs[groups[g].items[k]].signer
  <2>1. Like(groups[g], txs)
    BY <1>9
  <2>2. groups[g].items \in Seq(Nat)
    BY <2>1 DEF Like, Sections
  <2> QED BY <2>1, <2>2, LenProperties DEF Like
<1>11. FlattenSeq([g \in DOMAIN groups |-> groups[g].items]) = [i \in 1..n |-> i]
  <2>1. Laid(groups, n)
    BY <1>8, <1>9, <1>10 DEF Laid
  <2> QED BY <1>4, <2>1, FlattensTo DEF Flattened, CountsUp
<1>12. \A g \in DOMAIN groups : \A i \in Range(groups[g].items) :
         groups[g].kind = txs[i].kind /\ groups[g].signer = txs[i].signer
  <2> SUFFICES ASSUME NEW g \in 1..Len(groups), NEW i \in Range(groups[g].items)
               PROVE  groups[g].kind = txs[i].kind /\ groups[g].signer = txs[i].signer
    BY <1>8
  <2>1. PICK k \in 1..Len(groups[g].items) : i = groups[g].items[k]
    BY <1>10 DEF Range
  <2> QED BY <1>10, <2>1
<1>13. ASSUME NEW g \in DOMAIN groups
       PROVE  \/ g = Len(groups)
              \/ groups[g].kind = "Unknown"
              \/ <<groups[g].kind, groups[g].signer>> # <<groups[g + 1].kind, groups[g + 1].signer>>
  <2>1. g = Len(groups) \/ g \in 1..(Len(groups) - 1)
    BY <1>8
  <2> QED BY <1>9, <2>1 DEF Divided
<1> QED BY <1>2, <1>5, <1>11, <1>12, <1>13 DEF SectionsPartition

-----------------------------------------------------------------------------
(* Readings: what a payload is called.                                        *)

\* The first rule that fits, of as many as there are, written out.
Said(rules) ==
  IF rules[1][1] THEN rules[1][2]
  ELSE IF rules[2][1] THEN rules[2][2]
  ELSE IF rules[3][1] THEN rules[3][2]
  ELSE IF rules[4][1] THEN rules[4][2]
  ELSE IF rules[5][1] THEN rules[5][2]
  ELSE IF rules[6][1] THEN rules[6][2]
  ELSE IF rules[7][1] THEN rules[7][2]
  ELSE IF rules[8][1] THEN rules[8][2]
  ELSE IF rules[9][1] THEN rules[9][2]
  ELSE IF rules[10][1] THEN rules[10][2]
  ELSE IF rules[11][1] THEN rules[11][2]
  ELSE IF rules[12][1] THEN rules[12][2]
  ELSE IF rules[13][1] THEN rules[13][2]
  ELSE IF rules[14][1] THEN rules[14][2]
  ELSE IF rules[15][1] THEN rules[15][2]
  ELSE IF rules[16][1] THEN rules[16][2]
  ELSE IF rules[17][1] THEN rules[17][2]
  ELSE IF rules[18][1] THEN rules[18][2]
  ELSE IF rules[19][1] THEN rules[19][2]
  ELSE IF rules[20][1] THEN rules[20][2]
  ELSE IF rules[21][1] THEN rules[21][2]
  ELSE IF rules[22][1] THEN rules[22][2]
  ELSE IF rules[23][1] THEN rules[23][2]
  ELSE IF rules[24][1] THEN rules[24][2]
  ELSE IF rules[25][1] THEN rules[25][2]
  ELSE IF rules[26][1] THEN rules[26][2]
  ELSE IF rules[27][1] THEN rules[27][2]
  ELSE IF rules[28][1] THEN rules[28][2]
  ELSE IF rules[29][1] THEN rules[29][2]
  ELSE IF rules[30][1] THEN rules[30][2]
  ELSE IF rules[31][1] THEN rules[31][2]
  ELSE "Unknown"

\* It is what the heuristics say.
LEMMA Chain ==
  ASSUME NEW rules, DOMAIN rules = 1..31
  PROVE  FirstOf(rules, "Unknown") = Said(rules)
<1> DEFINE otherwise == "Unknown"
           said == FirstOf(rules, otherwise)
<1> HIDE DEF otherwise
<1>1. \/ (\A i \in 1..31 : ~ rules[i][1]) /\ said = otherwise
      \/ \E i \in 1..31 : /\ rules[i][1] /\ said = rules[i][2]
                           /\ \A j \in 1..31 : j < i => ~ rules[j][1]
  BY FirstOfIs
<1> HIDE DEF said
<1>2. CASE (\A i \in 1..31 : ~ rules[i][1]) /\ said = otherwise
  BY <1>2 DEF Said, said, otherwise
<1>3. ASSUME NEW i \in 1..31, rules[i][1], said = rules[i][2], \A j \in 1..31 : j < i => ~ rules[j][1]
      PROVE  said = Said(rules)
  <2>1. CASE i \in 1..4
    BY <1>3, <2>1 DEF Said
  <2>2. CASE i \in 5..8
    BY <1>3, <2>2 DEF Said
  <2>3. CASE i \in 9..12
    BY <1>3, <2>3 DEF Said
  <2>4. CASE i \in 13..16
    BY <1>3, <2>4 DEF Said
  <2>5. CASE i \in 17..20
    BY <1>3, <2>5 DEF Said
  <2>6. CASE i \in 21..24
    BY <1>3, <2>6 DEF Said
  <2>7. CASE i \in 25..28
    BY <1>3, <2>7 DEF Said
  <2>8. CASE i \in 29..31
    BY <1>3, <2>8 DEF Said
  <2> QED BY <2>1, <2>2, <2>3, <2>4, <2>5, <2>6, <2>7, <2>8
<1> QED BY <1>1, <1>2, <1>3 DEF said, otherwise

\* The heuristics in terms of single keys, as the code asks for them.
Cases(keys, kind) ==
  IF "bytecode" \in keys /\ "purpose_category" \notin keys THEN "ContractDeploy"
  ELSE IF "bytecode" \in keys /\ ("asset_name" \in keys \/ "asset_symbol" \in keys) THEN "ContractDeployWithPurposeAndMetadata"
  ELSE IF "bytecode" \in keys THEN "ContractDeployWithPurpose"
  ELSE IF "contract" \in keys THEN "ContractCall"
  ELSE IF "calls" \in keys THEN "Batch"
  ELSE IF "to" \in keys /\ "amount" \in keys THEN "Transfer"
  ELSE IF Resolve(kind) # None THEN Resolve(kind)
  ELSE IF "name" \in keys /\ "salt" \in keys /\ "target" \in keys /\ "years" \in keys THEN "NameRegister"
  ELSE IF "name" \in keys /\ "years" \in keys /\ "salt" \notin keys /\ "target" \notin keys /\ "new_owner" \notin keys THEN "NameRenew"
  ELSE IF "name" \in keys /\ "new_owner" \in keys THEN "NameTransfer"
  ELSE IF "name" \in keys /\ "target" \in keys /\ "salt" \notin keys /\ "years" \notin keys THEN "NameSetTarget"
  ELSE IF "commitment" \in keys /\ "name" \notin keys /\ "to" \notin keys /\ "amount" \notin keys THEN "NameCommit"
  ELSE IF "node_id" \in keys /\ "node_signature" \in keys THEN "ValidatorRegister"
  ELSE IF "node_id" \in keys THEN "ValidatorDeregister"
  ELSE IF "amount" \in keys /\ keys \in {{"amount"}, {"amount", "unbond"}} THEN "Unbond"
  ELSE IF "amount" \in keys /\ Cardinality(keys) <= 2 THEN "Bond"
  ELSE IF "amount" \in keys THEN "Unbond"
  ELSE IF "subject" \in keys /\ "vote" \in keys THEN "QaPoolVote"
  ELSE IF "data" \in keys /\ ("retention" \in keys \/ "content_type" \in keys) THEN "PutBlob"
  ELSE IF "blob_id" \in keys /\ "extend_blocks" \in keys THEN "RenewMediaBlobPin"
  ELSE IF "blob_id" \in keys /\ "ask_fee" \in keys THEN "RegisterBlobSampleOffer"
  ELSE IF "blob_id" \in keys /\ ("siblings" \in keys \/ "challenger" \in keys) THEN "RespondBlobSampleServe"
  ELSE IF "blob_id" \in keys /\ "provider" \in keys /\ "chunk_count" \in keys /\ "chunk_hash" \in keys THEN "RespondBlobSampleServe"
  ELSE IF "blob_id" \in keys /\ "provider" \in keys /\ "chunk_count" \in keys THEN "SettleBlobSampleMatch"
  ELSE IF "blob_id" \in keys /\ "grantee" \in keys THEN "GrantBlobDownload"
  ELSE IF "blob_id" \in keys /\ "size" \in keys /\ ("retention" \in keys \/ "content_type" \in keys) THEN "BlobAnnounce"
  ELSE IF "blob_id" \in keys /\ "chunk_index" \in keys THEN "PayBlobSample"
  ELSE IF "slash_id" \in keys THEN "SubmitSlashAppeal"
  ELSE IF "appeal_id" \in keys /\ "aggregate_signature" \in keys THEN "ResolveSlashAppealBlsAggregate"
  ELSE IF "appeal_id" \in keys /\ "ballot_signature" \in keys THEN "ResolveSlashAppealAttested"
  ELSE IF "appeal_id" \in keys THEN "ResolveSlashAppeal"
  ELSE "Unknown"

\* The table says what the cases say.
LEMMA FlatIs == ASSUME NEW keys, NEW kind PROVE FlatKind(keys, kind) = Cases(keys, kind)
<1> DEFINE rules == FlatRules(keys, kind)
<1>0. DOMAIN rules = 1..31
  BY DEF FlatRules
<1>1. /\ rules[1][1] <=> "bytecode" \in keys /\ "purpose_category" \notin keys
      /\ rules[2][1] <=> "bytecode" \in keys /\ ("asset_name" \in keys \/ "asset_symbol" \in keys)
      /\ rules[3][1] <=> "bytecode" \in keys
      /\ rules[4][1] <=> "contract" \in keys
      /\ rules[5][1] <=> "calls" \in keys
      /\ rules[6][1] <=> "to" \in keys /\ "amount" \in keys
  BY DEF FlatRules
<1>2. /\ rules[7][1] <=> Resolve(kind) # None
      /\ rules[8][1] <=> "name" \in keys /\ "salt" \in keys /\ "target" \in keys /\ "years" \in keys
      /\ rules[9][1] <=> "name" \in keys /\ "years" \in keys /\ "salt" \notin keys /\ "target" \notin keys /\ "new_owner" \notin keys
  BY DEF FlatRules
<1>3. /\ rules[10][1] <=> "name" \in keys /\ "new_owner" \in keys
      /\ rules[11][1] <=> "name" \in keys /\ "target" \in keys /\ "salt" \notin keys /\ "years" \notin keys
      /\ rules[12][1] <=> "commitment" \in keys /\ "name" \notin keys /\ "to" \notin keys /\ "amount" \notin keys
      /\ rules[13][1] <=> "node_id" \in keys /\ "node_signature" \in keys
      /\ rules[14][1] <=> "node_id" \in keys
  BY DEF FlatRules
<1>4. /\ rules[15][1] <=> "amount" \in keys /\ keys \in {{"amount"}, {"amount", "unbond"}}
      /\ rules[16][1] <=> "amount" \in keys /\ Cardinality(keys) <= 2
      /\ rules[17][1] <=> "amount" \in keys
  BY DEF FlatRules
<1>5. /\ rules[18][1] <=> "subject" \in keys /\ "vote" \in keys
      /\ rules[19][1] <=> "data" \in keys /\ ("retention" \in keys \/ "content_type" \in keys)
      /\ rules[20][1] <=> "blob_id" \in keys /\ "extend_blocks" \in keys
      /\ rules[21][1] <=> "blob_id" \in keys /\ "ask_fee" \in keys
  BY DEF FlatRules
<1>6. /\ rules[22][1] <=> "blob_id" \in keys /\ ("siblings" \in keys \/ "challenger" \in keys)
      /\ rules[23][1] <=> "blob_id" \in keys /\ "provider" \in keys /\ "chunk_count" \in keys /\ "chunk_hash" \in keys
      /\ rules[24][1] <=> "blob_id" \in keys /\ "provider" \in keys /\ "chunk_count" \in keys
      /\ rules[25][1] <=> "blob_id" \in keys /\ "grantee" \in keys
      /\ rules[26][1] <=> "blob_id" \in keys /\ "size" \in keys /\ ("retention" \in keys \/ "content_type" \in keys)
  BY DEF FlatRules
<1>7. /\ rules[27][1] <=> "blob_id" \in keys /\ "chunk_index" \in keys
      /\ rules[28][1] <=> "slash_id" \in keys
      /\ rules[29][1] <=> "appeal_id" \in keys /\ "aggregate_signature" \in keys
      /\ rules[30][1] <=> "appeal_id" \in keys /\ "ballot_signature" \in keys
      /\ rules[31][1] <=> "appeal_id" \in keys
  BY DEF FlatRules
<1>8. /\ rules[1][2] = "ContractDeploy" /\ rules[2][2] = "ContractDeployWithPurposeAndMetadata" /\ rules[3][2] = "ContractDeployWithPurpose"
      /\ rules[4][2] = "ContractCall" /\ rules[5][2] = "Batch" /\ rules[6][2] = "Transfer"
      /\ rules[7][2] = Resolve(kind) /\ rules[8][2] = "NameRegister" /\ rules[9][2] = "NameRenew"
      /\ rules[10][2] = "NameTransfer" /\ rules[11][2] = "NameSetTarget" /\ rules[12][2] = "NameCommit"
      /\ rules[13][2] = "ValidatorRegister" /\ rules[14][2] = "ValidatorDeregister" /\ rules[15][2] = "Unbond"
      /\ rules[16][2] = "Bond" /\ rules[17][2] = "Unbond" /\ rules[18][2] = "QaPoolVote"
      /\ rules[19][2] = "PutBlob" /\ rules[20][2] = "RenewMediaBlobPin" /\ rules[21][2] = "RegisterBlobSampleOffer"
      /\ rules[22][2] = "RespondBlobSampleServe" /\ rules[23][2] = "RespondBlobSampleServe" /\ rules[24][2] = "SettleBlobSampleMatch"
      /\ rules[25][2] = "GrantBlobDownload" /\ rules[26][2] = "BlobAnnounce" /\ rules[27][2] = "PayBlobSample"
      /\ rules[28][2] = "SubmitSlashAppeal" /\ rules[29][2] = "ResolveSlashAppealBlsAggregate" /\ rules[30][2] = "ResolveSlashAppealAttested"
      /\ rules[31][2] = "ResolveSlashAppeal"
  BY DEF FlatRules
<1> HIDE DEF rules
<1>9. FirstOf(rules, "Unknown") = Said(rules)
  BY <1>0, Chain
<1>10. Said(rules) = Cases(keys, kind)
  BY <1>1, <1>2, <1>3, <1>4, <1>5, <1>6, <1>7, <1>8 DEF Said, Cases
<1> QED BY <1>9, <1>10 DEF FlatKind, rules

\* What a variant resolves to is no stranger, and nothing else resolves.
LEMMA Resolves ==
  /\ \A k : k \notin Variants => Resolve(k) = None
  /\ \A v \in Variants : Resolve(v) = DisplayKind(v) /\ DisplayKind(v) # None
  /\ None \notin Variants
BY DEF Resolve, DisplayKind, None, Variants, NameVariants, ValidatorVariants, BlobVariants, AppealVariants, DeployVariants

\* The fields of each variant.
LEMMA Shapes ==
  /\ Shape("Transfer") = {"to", "amount"}
  /\ Shape("Bond") = {"amount"}
  /\ Shape("Unbond") = {"amount"}
  /\ Shape("ClaimUnbond") = {}
  /\ Shape("QaPoolVote") = {"subject", "vote"}
  /\ Shape("ContractCall") = {"contract", "calldata"}
  /\ Shape("ContractCallWithValue") = {"contract", "calldata", "value"}
  /\ Shape("Batch") = {"calls"}
  /\ Shape("ContractDeploy") = {"bytecode"}
  /\ Shape("ContractDeployWithPurpose") = {"bytecode", "purpose_category"}
  /\ Shape("ContractDeployWithPurposeAndMetadata") = {"bytecode", "purpose_category", "asset_name", "asset_symbol"}
  /\ Shape("NameCommit") = {"commitment"}
  /\ Shape("NameRegister") = {"name", "salt", "target", "years"}
  /\ Shape("NameRenew") = {"name", "years"}
  /\ Shape("NameTransfer") = {"name", "new_owner"}
  /\ Shape("NameSetTarget") = {"name", "target"}
  /\ Shape("NameSetPrimary") = {"name"}
  /\ Shape("NameRelease") = {"name"}
  /\ Shape("ValidatorRegister") = {"node_id", "node_signature"}
  /\ Shape("ValidatorDeregister") = {"node_id"}
  /\ Shape("ValidatorUnjail") = {"node_id"}
  /\ Shape("PutBlob") = {"data", "content_type", "retention"}
  /\ Shape("BlobAnnounce") = {"blob_id", "size", "content_type"}
  /\ Shape("RenewMediaBlobPin") = {"blob_id", "extend_blocks"}
  /\ Shape("RegisterBlobSampleOffer") = {"blob_id", "ask_fee"}
  /\ Shape("RespondBlobSampleServe") = {"blob_id", "chunk_index", "siblings"}
  /\ Shape("SettleBlobSampleMatch") = {"blob_id", "provider", "chunk_count"}
  /\ Shape("PayBlobSample") = {"blob_id", "chunk_index"}
  /\ Shape("CancelBlobSampleOffer") = {"blob_id"}
  /\ Shape("ChallengeBlobSampleServe") = {"blob_id"}
  /\ Shape("GrantBlobDownload") = {"blob_id", "grantee"}
  /\ Shape("RevokeBlobDownload") = {"blob_id", "grantee"}
  /\ Shape("SubmitSlashAppeal") = {"slash_id"}
  /\ Shape("ResolveSlashAppeal") = {"appeal_id", "approved"}
  /\ Shape("ResolveSlashAppealAttested") = {"appeal_id", "approved", "ballot_signature"}
  /\ Shape("ResolveSlashAppealBlsAggregate") = {"appeal_id", "approved", "aggregate_signature"}
BY DEF Shape

\* The fields are not taken for variants.
LEMMA FieldsAreNot == \A v \in Variants : (Shape(v) \cup {"kind"}) \cap Variants = {}
BY Shapes DEF Variants, NameVariants, ValidatorVariants, BlobVariants, AppealVariants, DeployVariants

\* Without a name the fields of most variants tell it.
LEMMA FlatTells == \A v \in Variants \ LookAlikes : FlatKind(Shape(v), None) = DisplayKind(v)
<1>1. \A v \in {"NameCommit", "NameRegister", "NameRenew", "NameTransfer", "NameSetTarget"} :
        Cases(Shape(v), None) = DisplayKind(v)
  BY Shapes, Resolves DEF Cases, DisplayKind
<1>2. \A v \in {"ValidatorRegister", "ValidatorDeregister", "Transfer", "Unbond"} :
        Cases(Shape(v), None) = DisplayKind(v)
  BY Shapes, Resolves DEF Cases, DisplayKind
<1>3. \A v \in {"QaPoolVote", "ContractCall", "ContractCallWithValue", "Batch"} :
        Cases(Shape(v), None) = DisplayKind(v)
  BY Shapes, Resolves DEF Cases, DisplayKind
<1>4. \A v \in {"ContractDeploy", "ContractDeployWithPurpose", "ContractDeployWithPurposeAndMetadata"} :
        Cases(Shape(v), None) = DisplayKind(v)
  BY Shapes, Resolves DEF Cases, DisplayKind
<1>5. \A v \in {"PutBlob", "BlobAnnounce", "RenewMediaBlobPin", "PayBlobSample"} :
        Cases(Shape(v), None) = DisplayKind(v)
  BY Shapes, Resolves DEF Cases, DisplayKind
<1>6. \A v \in {"RegisterBlobSampleOffer", "SettleBlobSampleMatch", "RespondBlobSampleServe", "GrantBlobDownload"} :
        Cases(Shape(v), None) = DisplayKind(v)
  BY Shapes, Resolves DEF Cases, DisplayKind
<1>7. \A v \in {"SubmitSlashAppeal", "ResolveSlashAppeal", "ResolveSlashAppealAttested", "ResolveSlashAppealBlsAggregate"} :
        Cases(Shape(v), None) = DisplayKind(v)
  BY Shapes, Resolves DEF Cases, DisplayKind
<1>8. \A v \in Variants \ LookAlikes : Cases(Shape(v), None) = DisplayKind(v)
  BY <1>1, <1>2, <1>3, <1>4, <1>5, <1>6, <1>7
     DEF LookAlikes, Variants, NameVariants, ValidatorVariants, BlobVariants, AppealVariants, DeployVariants
<1> QED BY <1>8, FlatIs

\* With its name every variant is told: by the name, where no field has spoken before it, and
\* by the fields that speak before a name otherwise.
Early == {"Transfer", "ContractCall", "ContractCallWithValue", "Batch", "ContractDeploy",
          "ContractDeployWithPurpose", "ContractDeployWithPurposeAndMetadata"}
\* The fields of every variant, its kind among them, tell the kind it is shown under.
LEMMA NamedTells == \A v \in Variants : FlatKind(Shape(v) \cup {"kind"}, v) = DisplayKind(v)
<1>1. \A v \in Early : Cases(Shape(v) \cup {"kind"}, v) = DisplayKind(v)
  BY Shapes DEF Cases, DisplayKind, Early
<1>2. \A v \in Variants \ Early : {"bytecode", "contract", "calls", "to"} \cap (Shape(v) \cup {"kind"}) = {}
  BY Shapes DEF Early, Variants, NameVariants, ValidatorVariants, BlobVariants, AppealVariants, DeployVariants
<1>3. \A v \in Variants \ Early : Cases(Shape(v) \cup {"kind"}, v) = DisplayKind(v)
  <2> SUFFICES ASSUME NEW v \in Variants \ Early PROVE Cases(Shape(v) \cup {"kind"}, v) = DisplayKind(v)
    OBVIOUS
  <2> DEFINE keys == Shape(v) \cup {"kind"}
  <2>1. "bytecode" \notin keys /\ "contract" \notin keys /\ "calls" \notin keys /\ "to" \notin keys
    BY <1>2
  <2>2. Resolve(v) = DisplayKind(v) /\ Resolve(v) # None
    BY Resolves
  <2> HIDE DEF keys
  <2>3. Cases(keys, v) = DisplayKind(v)
    BY <2>1, <2>2 DEF Cases
  <2> QED BY <2>3 DEF keys
<1> QED BY <1>1, <1>3, FlatIs

\* An object without a tag is read as it is; one whose only key is a variant is what it says.
LEMMA UnwrapIs ==
  /\ \A v \in Variants : KindOf(Tagged(v, Shape(v))) = DisplayKind(v) /\ KindOf(Text(v)) = DisplayKind(v)
  /\ \A v \in Variants : KindOf(Flat(Shape(v), None)) = FlatKind(Shape(v), None)
  /\ \A v \in Variants : KindOf(Flat(Shape(v), v)) = FlatKind(Shape(v) \cup {"kind"}, v)
<1>1. ASSUME NEW v \in Variants, NEW p, p.keys = {v} PROVE KindOf(p) = DisplayKind(v)
  <2>1. Cardinality({v}) = 1
    BY FS_Singleton
  <2>2. (CHOOSE k \in {v} : TRUE) = v
    OBVIOUS
  <2>3. Unwrap(p).tag = Resolve(v)
    BY <1>1, <2>1, <2>2 DEF Unwrap
  <2> QED BY <2>3, Resolves DEF KindOf
<1>2. ASSUME NEW p, p.form = "object", p.keys \cap Variants = {}
      PROVE  KindOf(p) = FlatKind(p.keys, p.kind)
  <2>1. Unwrap(p).tag = None
    <3>1. CASE Cardinality(p.keys) # 1
      BY <3>1 DEF Unwrap
    <3>2. CASE Cardinality(p.keys) = 1 /\ p.keys # {}
      <4>1. (CHOOSE k \in p.keys : TRUE) \in p.keys
        BY <3>2
      <4>2. Resolve(CHOOSE k \in p.keys : TRUE) = None
        BY <1>2, <4>1, Resolves
      <4> QED BY <4>2 DEF Unwrap
    <3>3. Cardinality({}) = 0
      BY FS_EmptySet
    <3> QED BY <3>1, <3>2, <3>3
  <2>2. Unwrap(p).keys = p.keys
    BY <1>2, <2>1 DEF Unwrap
  <2> QED BY <2>1, <2>2 DEF KindOf
<1>3. ASSUME NEW v \in Variants PROVE Tagged(v, Shape(v)).keys = {v} /\ Text(v).keys = {v}
  BY DEF Tagged, Text
<1>4. ASSUME NEW v \in Variants
      PROVE  /\ Flat(Shape(v), None).form = "object" /\ Flat(Shape(v), None).kind = None
             /\ Flat(Shape(v), None).keys = Shape(v)
             /\ Flat(Shape(v), v).form = "object" /\ Flat(Shape(v), v).kind = v
             /\ Flat(Shape(v), v).keys = Shape(v) \cup {"kind"}
  BY Resolves DEF Flat
<1>5. \A v \in Variants : KindOf(Tagged(v, Shape(v))) = DisplayKind(v) /\ KindOf(Text(v)) = DisplayKind(v)
  BY <1>1, <1>3
<1>6. \A v \in Variants : KindOf(Flat(Shape(v), None)) = FlatKind(Shape(v), None)
  BY <1>2, <1>4, FieldsAreNot
<1>7. \A v \in Variants : KindOf(Flat(Shape(v), v)) = FlatKind(Shape(v) \cup {"kind"}, v)
  BY <1>2, <1>4, FieldsAreNot
<1> QED BY <1>5, <1>6, <1>7

\* Every form of a payload is called the same.
LEMMA PayloadsDo == ReadPayload => KindSurvives'
<1> SUFFICES ASSUME ReadPayload PROVE KindSurvives'
  OBVIOUS
<1>1. PICK v \in Variants :
        reading' = [of |-> "payload", variant |-> v,
                    tagged |-> KindOf(Tagged(v, Shape(v))), flat |-> KindOf(Flat(Shape(v), None)),
                    named |-> KindOf(Flat(Shape(v), v)), text |-> KindOf(Text(v)),
                    step |-> StepKind(Tagged(v, Shape(v))),
                    signed |-> SignedHeadline(KindOf(Tagged(v, Shape(v))), TRUE, FALSE)]
  BY DEF ReadPayload
<1>2. /\ reading'.variant = v /\ reading'.tagged = KindOf(Tagged(v, Shape(v)))
      /\ reading'.flat = KindOf(Flat(Shape(v), None)) /\ reading'.named = KindOf(Flat(Shape(v), v))
      /\ reading'.text = KindOf(Text(v))
  BY <1>1
<1>3. reading'.tagged = DisplayKind(v) /\ reading'.named = DisplayKind(v) /\ reading'.text = DisplayKind(v)
  BY <1>2, UnwrapIs, NamedTells
<1>4. v \notin LookAlikes => reading'.flat = DisplayKind(v)
  BY <1>2, UnwrapIs, FlatTells
<1> QED BY <1>2, <1>3, <1>4 DEF KindSurvives

\* A block page shows every transaction once and in order, and what a payload is called does
\* not depend on its form: the reading of GroupTxInsights and getTxPayloadKind.
THEOREM ShownAsTheyAre == ReadingAssumption => (ReadSpec => []TransactionsShownAsTheyAre)
<1> SUFFICES ASSUME ReadingAssumption PROVE ReadSpec => []TransactionsShownAsTheyAre
  OBVIOUS
<1>1. ReadInit => TransactionsShownAsTheyAre
  BY DEF ReadInit, Unread, TransactionsShownAsTheyAre, SectionsPartition, KindSurvives
<1>2. TransactionsShownAsTheyAre /\ [ReadNext]_reading => TransactionsShownAsTheyAre'
  <2> SUFFICES ASSUME TransactionsShownAsTheyAre, [ReadNext]_reading
               PROVE  TransactionsShownAsTheyAre'
    OBVIOUS
  <2>1. CASE ReadSections
    <3>1. reading'.of = "sections"
      BY <2>1 DEF ReadSections
    <3>2. KindSurvives'
      BY <3>1 DEF KindSurvives
    <3> QED BY <2>1, <3>2, SectionsDo DEF TransactionsShownAsTheyAre
  <2>2. CASE ReadPayload
    <3>1. PICK v \in Variants :
            reading' = [of |-> "payload", variant |-> v,
                   tagged |-> KindOf(Tagged(v, Shape(v))), flat |-> KindOf(Flat(Shape(v), None)),
                   named |-> KindOf(Flat(Shape(v), v)), text |-> KindOf(Text(v)),
                   step |-> StepKind(Tagged(v, Shape(v))),
                   signed |-> SignedHeadline(KindOf(Tagged(v, Shape(v))), TRUE, FALSE)]
      BY <2>2 DEF ReadPayload
    <3>2. reading'.of = "payload"
      BY <3>1
    <3>3. SectionsPartition'
      BY <3>2 DEF SectionsPartition
    <3> QED BY <2>2, <3>3, PayloadsDo DEF TransactionsShownAsTheyAre
  <2>3. ASSUME reading'.of \notin {"sections", "payload"} PROVE TransactionsShownAsTheyAre'
    BY <2>3 DEF TransactionsShownAsTheyAre, SectionsPartition, KindSurvives
  <2>4. CASE ReadEconomy
    BY <2>3, <2>4 DEF ReadEconomy
  <2>5. CASE ReadCharts
    <3>1. reading'.of = "charts"
      BY <2>5 DEF ReadCharts
    <3> QED BY <2>3, <3>1
  <2>6. CASE ReadFees
    BY <2>3, <2>6 DEF ReadFees
  <2>7. CASE ReadCall
    BY <2>3, <2>7 DEF ReadCall
  <2>8. CASE ReadRoute
    BY <2>3, <2>8 DEF ReadRoute
  <2>9. CASE ReadDescription
    BY <2>3, <2>9 DEF ReadDescription
  <2>10. CASE UNCHANGED reading
    <3>1. SectionsPartition /\ UNCHANGED reading => SectionsPartition'
      BY SMT DEF SectionsPartition
    <3>2. KindSurvives /\ UNCHANGED reading => KindSurvives'
      BY SMT DEF KindSurvives
    <3> QED BY <2>10, <3>1, <3>2 DEF TransactionsShownAsTheyAre
  <2> QED BY <2>1, <2>2, <2>4, <2>5, <2>6, <2>7, <2>8, <2>9, <2>10 DEF ReadNext
<1> QED BY <1>1, <1>2, PTL DEF ReadSpec

=============================================================================
