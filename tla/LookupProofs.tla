---------------------------- MODULE LookupProofs ----------------------------
(***************************************************************************)
(* What is found out on the chain, for any chain, any node that cuts its   *)
(* lists or fails, and any account, contract or collection: histories and  *)
(* deployments (ChainSearch), the interface a contract is taken for        *)
(* (ContractIdentity), the index of assets (TokenIndex).                   *)
(*                                                                         *)
(* Lists first, then the searches over the chain, the reading of bytecode, *)
(* the index and its collections, and last the answers of Lookups.         *)
(***************************************************************************)
EXTENDS Lookups, TLAPS, FiniteSetTheorems, SequenceTheorems, WellFoundedInduction

-----------------------------------------------------------------------------
\* The order of the naturals is well-founded.
LessThan == {p \in Nat \X Nat : p[1] < p[2]}

\* A set of naturals that is not empty has a least.
LEMMA Least ==
  ASSUME NEW T, T \subseteq Nat, T # {}
  PROVE  \E x \in T : \A y \in T : x <= y
<1>1. OpToRel(<, Nat) = LessThan
  BY Zenon DEF LessThan, OpToRel
<1>2. IsWellFoundedOn(OpToRel(<, Nat), Nat)
  BY Zenon, NatLessThanWellFounded
<1>3. IsWellFoundedOn(LessThan, Nat)
  BY Zenon, <1>1, <1>2
<1>4. PICK x \in T : \A y \in T : ~ (<<y, x>> \in LessThan)
  BY <1>3, WFMin
<1>5. ASSUME NEW y \in T PROVE x <= y
  <2>1. x \in Nat /\ y \in Nat /\ <<y, x>> \notin LessThan
    BY <1>4, <1>5
  <2>2. ~ (y < x)
    BY <2>1 DEF LessThan
  <2> QED BY <2>1, <2>2
<1> QED BY <1>5

\* What holds of 0 and of every successor holds of every natural.
LEMMA Successors ==
  ASSUME NEW T, T \subseteq Nat, 0 \in T, \A n \in T : n + 1 \in T
  PROVE  T = Nat
<1> SUFFICES ASSUME Nat \ T # {} PROVE FALSE
  OBVIOUS
<1>1. PICK x \in Nat \ T : \A y \in Nat \ T : x <= y
  BY Least
<1>2. x # 0 /\ x - 1 \in Nat /\ x - 1 + 1 = x /\ ~ (x <= x - 1)
  BY <1>1
<1> QED BY <1>1, <1>2

\* The least and the greatest of a set of naturals.
LEMMA MinIs ==
  ASSUME NEW T, T \subseteq Nat, T # {}
  PROVE  Min(T) \in T /\ \A y \in T : Min(T) <= y
<1>1. \E x \in T : \A y \in T : x =< y
  BY Least
<1> QED BY <1>1 DEF Min

\* The greatest of a bounded set of naturals is in it and no less than any of it.
LEMMA MaxIs ==
  ASSUME NEW b \in Nat, NEW T, T \subseteq 0..b, T # {}
  PROVE  Max(T) \in T /\ \A y \in T : y <= Max(T)
<1> DEFINE U == {b - x : x \in T}
<1>1. U \subseteq Nat /\ U # {}
  <2>1. \A x \in T : b - x \in Nat
    OBVIOUS
  <2> QED BY <2>1
<1>2. PICK u \in U : \A v \in U : u <= v
  BY <1>1, Least
<1>3. PICK x \in T : u = b - x
  OBVIOUS
<1>4. ASSUME NEW y \in T PROVE x >= y
  <2>1. b - x <= b - y
    BY <1>2, <1>3
  <2>2. x \in Nat /\ y \in Nat
    OBVIOUS
  <2> HIDE DEF U
  <2> QED BY <2>1, <2>2
<1>5. Max(T) \in T /\ \A y \in T : Max(T) >= y
  BY <1>4 DEF Max
<1>6. \A y \in T : y <= Max(T)
  <2>1. \A y \in T : y \in Nat
    OBVIOUS
  <2> HIDE DEF U
  <2> QED BY <1>5, <2>1
<1> QED BY <1>5, <1>6

\* The lesser and the greater of two integers.
LEMMA MinOfTwo ==
  ASSUME NEW a \in Int, NEW b \in Int
  PROVE  Min({a, b}) = IF a <= b THEN a ELSE b
<1>1. \E x \in {a, b} : \A y \in {a, b} : x =< y
  OBVIOUS
<1>2. Min({a, b}) \in {a, b} /\ \A y \in {a, b} : Min({a, b}) =< y
  BY <1>1 DEF Min
<1> QED BY <1>2

\* The greater of two integers.
LEMMA MaxOfTwo ==
  ASSUME NEW a \in Int, NEW b \in Int
  PROVE  Max({a, b}) = IF a >= b THEN a ELSE b
<1>1. \E x \in {a, b} : \A y \in {a, b} : x >= y
  OBVIOUS
<1>2. Max({a, b}) \in {a, b} /\ \A y \in {a, b} : Max({a, b}) >= y
  BY <1>1 DEF Max
<1> QED BY <1>2

-----------------------------------------------------------------------------
\* A function on the first naturals is a sequence.
LEMMA LenIs ==
  ASSUME NEW n \in Nat, NEW S, NEW s \in [1..n -> S]
  PROVE  s \in Seq(S) /\ Len(s) = n /\ DOMAIN s = 1..n
<1>1. s \in Seq(S)
  BY SeqDef
<1>2. DOMAIN s = 1..Len(s) /\ Len(s) \in Nat
  BY <1>1, LenProperties
<1>3. DOMAIN s = 1..n
  OBVIOUS
<1>4. 1..n = 1..Len(s)
  BY <1>2, <1>3
<1>5. \A k \in Nat : 1..n = 1..k => n = k
  <2> SUFFICES ASSUME NEW k \in Nat, 1..n = 1..k PROVE n = k
    OBVIOUS
  <2>1. \A i \in Nat : i \in 1..n <=> i \in 1..k
    OBVIOUS
  <2>2. n > 0 => n \in 1..k
    BY <2>1
  <2>3. k > 0 => k \in 1..n
    BY <2>1
  <2> QED BY <2>2, <2>3
<1> QED BY <1>1, <1>2, <1>3, <1>4, <1>5

\* What is in a sequence, and that it is no more than its length.
LEMMA RangeOf ==
  ASSUME NEW S, NEW s \in Seq(S)
  PROVE  /\ \A x : x \in Range(s) <=> \E i \in 1..Len(s) : s[i] = x
         /\ Range(s) \subseteq S
         /\ IsFiniteSet(Range(s)) /\ Cardinality(Range(s)) <= Len(s)
<1>1. Len(s) \in Nat /\ DOMAIN s = 1..Len(s) /\ s \in [1..Len(s) -> S]
  BY LenProperties
<1>2. \A x : x \in Range(s) <=> \E i \in 1..Len(s) : s[i] = x
  BY <1>1 DEF Range
<1>3. s \in Surjection(1..Len(s), Range(s))
  <2>1. s \in [1..Len(s) -> Range(s)]
    BY <1>1, <1>2
  <2> QED BY <1>2, <2>1 DEF Surjection
<1>4. IsFiniteSet(1..Len(s)) /\ Cardinality(1..Len(s)) = Len(s)
  <2>1. 1 \in Int /\ Len(s) \in Int
    BY <1>1
  <2>2. IsFiniteSet(1..Len(s)) /\ Cardinality(1..Len(s)) = IF 1 > Len(s) THEN 0 ELSE Len(s) - 1 + 1
    BY <2>1, FS_Interval
  <2> QED BY <1>1, <2>2
<1>5. IsFiniteSet(Range(s)) /\ Cardinality(Range(s)) <= Len(s)
  BY <1>3, <1>4, FS_Surjection
<1> QED BY <1>1, <1>2, <1>5

\* Nothing in it twice, there is as much in it as it is long.
LEMMA RangeOfDistinct ==
  ASSUME NEW S, NEW s \in Seq(S), \A i, j \in 1..Len(s) : s[i] = s[j] => i = j
  PROVE  Cardinality(Range(s)) = Len(s)
<1>1. Len(s) \in Nat /\ s \in [1..Len(s) -> S]
  BY LenProperties
<1>2. \A x : x \in Range(s) <=> \E i \in 1..Len(s) : s[i] = x
  BY RangeOf
<1>3. s \in Bijection(1..Len(s), Range(s))
  <2>1. s \in [1..Len(s) -> Range(s)]
    BY <1>1, <1>2
  <2> QED BY <1>2, <2>1 DEF Bijection, Injection, Surjection, IsInjective
<1>4. IsFiniteSet(1..Len(s)) /\ Cardinality(1..Len(s)) = Len(s)
  <2>1. 1 \in Int /\ Len(s) \in Int
    BY <1>1
  <2>2. IsFiniteSet(1..Len(s)) /\ Cardinality(1..Len(s)) = IF 1 > Len(s) THEN 0 ELSE Len(s) - 1 + 1
    BY <2>1, FS_Interval
  <2> QED BY <1>1, <2>2
<1> QED BY <1>3, <1>4, FS_Bijection DEF ExistsBijection

\* A sequence turned round.
LEMMA ReverseIs ==
  ASSUME NEW S, NEW s \in Seq(S)
  PROVE  /\ Reverse(s) \in Seq(S) /\ Len(Reverse(s)) = Len(s) /\ Range(Reverse(s)) = Range(s)
         /\ \A i \in 1..Len(s) : Reverse(s)[i] = s[Len(s) - i + 1] /\ Len(s) - i + 1 \in 1..Len(s)
<1> DEFINE n == Len(s)
           r == Reverse(s)
<1>1. n \in Nat /\ s \in [1..n -> S]
  BY LenProperties
<1>2. \A i \in 1..n : n - i + 1 \in 1..n /\ n - (n - i + 1) + 1 = i
  <2> HIDE DEF n
  <2> QED BY <1>1
<1>3. r \in [1..n -> S] /\ \A i \in 1..n : r[i] = s[n - i + 1]
  <2>1. r = [i \in 1..n |-> s[(n - i) + 1]]
    BY DEF Reverse
  <2> HIDE DEF n, r
  <2> QED BY <1>1, <1>2, <2>1
<1> HIDE DEF r
<1>4. r \in Seq(S) /\ Len(r) = n
  BY <1>1, <1>3, LenIs
<1>5. \A x : x \in Range(r) <=> x \in Range(s)
  <2>1. \A x : x \in Range(r) <=> \E i \in 1..n : r[i] = x
    BY <1>4, RangeOf
  <2>2. \A x : x \in Range(s) <=> \E i \in 1..n : s[i] = x
    BY RangeOf
  <2> HIDE DEF n
  <2> QED BY <1>2, <1>3, <2>1, <2>2
<1> QED BY <1>2, <1>3, <1>4, <1>5 DEF r

\* The first of a sequence.
LEMMA FirstOf ==
  ASSUME NEW S, NEW s \in Seq(S), NEW k \in 0..Len(s)
  PROVE  /\ SubSeq(s, 1, k) \in Seq(S) /\ Len(SubSeq(s, 1, k)) = k
         /\ \A i \in 1..k : SubSeq(s, 1, k)[i] = s[i] /\ i \in 1..Len(s)
<1>1. Len(s) \in Nat /\ k \in Nat /\ k <= Len(s)
  BY LenProperties
<1>2. \A i \in 1..k : i \in 1..Len(s) /\ s[i] \in S
  BY <1>1, ElementOfSeq
<1>3. /\ SubSeq(s, 1, k) \in Seq(S) /\ Len(SubSeq(s, 1, k)) = (IF 1 <= k THEN k - 1 + 1 ELSE 0)
      /\ \A i \in 1..(k - 1 + 1) : SubSeq(s, 1, k)[i] = s[1 + i - 1]
  <2>1. 1 \in Int /\ k \in Int
    BY <1>1
  <2> QED BY <1>2, <2>1, SubSeqProperties
<1>4. k - 1 + 1 = k /\ \A i \in 1..k : 1 + i - 1 = i
  BY <1>1
<1> QED BY <1>1, <1>2, <1>3, <1>4

-----------------------------------------------------------------------------
\* The place of one of a set of naturals among them.
Rank(K, i) == Cardinality({j \in K : j <= i})

\* The place is from 1 on, and the greater has the later one.
LEMMA Ranks ==
  ASSUME NEW K \in SUBSET Nat, IsFiniteSet(K)
  PROVE  /\ \A i \in K : Rank(K, i) \in 1..Cardinality(K)
         /\ \A i, j \in K : i < j => Rank(K, i) < Rank(K, j)
<1>1. ASSUME NEW i \in K
      PROVE  /\ IsFiniteSet({j \in K : j <= i}) /\ Rank(K, i) \in Nat /\ Rank(K, i) <= Cardinality(K)
             /\ Rank(K, i) # 0
  <2> DEFINE T == {j \in K : j <= i}
  <2>1. T \in SUBSET K /\ i \in T
    OBVIOUS
  <2> HIDE DEF T
  <2>2. IsFiniteSet(T) /\ Cardinality(T) <= Cardinality(K)
    BY <2>1, FS_Subset
  <2>3. Cardinality(T) \in Nat /\ Cardinality(T) # 0
    BY <2>1, <2>2, FS_CardinalityType, FS_EmptySet
  <2> QED BY <2>2, <2>3 DEF T, Rank
<1>2. ASSUME NEW i \in K, NEW j \in K, i < j PROVE Rank(K, i) < Rank(K, j)
  <2> DEFINE A == {m \in K : m <= i}
             B == {m \in K : m <= j}
  <2>1. A \in SUBSET B /\ A # B
    <3>1. j \in B /\ j \notin A
      BY <1>2
    <3>2. \A m \in K : m <= i => m <= j
      BY <1>2
    <3> QED BY <3>1, <3>2
  <2>2. IsFiniteSet(B) /\ Rank(K, i) = Cardinality(A) /\ Rank(K, j) = Cardinality(B)
    BY <1>1 DEF Rank
  <2> HIDE DEF A, B
  <2>3. Cardinality(A) <= Cardinality(B) /\ Cardinality(A) # Cardinality(B)
    BY <2>1, <2>2, FS_Subset
  <2>4. Rank(K, i) \in Nat /\ Rank(K, j) \in Nat
    BY <1>1
  <2>5. Rank(K, i) <= Rank(K, j) /\ Rank(K, i) # Rank(K, j)
    BY <2>2, <2>3
  <2>6. \A a, b \in Nat : a <= b /\ a # b => a < b
    OBVIOUS
  <2> QED BY <2>4, <2>5, <2>6
<1>3. ASSUME NEW i \in K PROVE Rank(K, i) \in 1..Cardinality(K)
  <2>1. Rank(K, i) \in Nat /\ Rank(K, i) <= Cardinality(K) /\ Rank(K, i) # 0
    BY <1>1
  <2>2. Cardinality(K) \in Nat
    BY FS_CardinalityType
  <2>3. \A r, c \in Nat : r <= c /\ r # 0 => r \in 1..c
    OBVIOUS
  <2> QED BY <2>1, <2>2, <2>3
<1> QED BY <1>2, <1>3

\* As many as a set has are the first naturals.
LEMMA UpTo ==
  ASSUME NEW n \in Nat
  PROVE  IsFiniteSet(1..n) /\ Cardinality(1..n) = n
<1>1. 1 \in Int /\ n \in Int
  OBVIOUS
<1>2. IsFiniteSet(1..n) /\ Cardinality(1..n) = IF 1 > n THEN 0 ELSE n - 1 + 1
  BY <1>1, FS_Interval
<1> QED BY <1>2

\* Every one of them is the n-th for one n, and the greater for the greater n.
LEMMA Ranked ==
  ASSUME NEW K \in SUBSET Nat, IsFiniteSet(K)
  PROVE  /\ Cardinality(K) \in Nat
         /\ \A n \in 1..Cardinality(K) : NthOf(K, n) \in K
         /\ \A m, n \in 1..Cardinality(K) : m < n => NthOf(K, m) < NthOf(K, n)
         /\ \A i \in K : \E n \in 1..Cardinality(K) : NthOf(K, n) = i
<1> DEFINE c == Cardinality(K)
           f == [i \in K |-> Rank(K, i)]
<1>1. c \in Nat /\ IsFiniteSet(1..c) /\ Cardinality(1..c) = c
  BY FS_CardinalityType, UpTo
<1> HIDE DEF c
<1>2. f \in [K -> 1..c]
  BY Ranks DEF c
<1>3. \A i, j \in K : Rank(K, i) = Rank(K, j) => i = j
  <2> SUFFICES ASSUME NEW i \in K, NEW j \in K, Rank(K, i) = Rank(K, j), i # j PROVE FALSE
    OBVIOUS
  <2>1. i < j \/ j < i
    OBVIOUS
  <2>2. Rank(K, i) \in Nat /\ Rank(K, j) \in Nat
    BY <1>2
  <2> QED BY <2>1, <2>2, Ranks
<1>4. f \in Injection(K, 1..c)
  BY <1>2, <1>3 DEF Injection, IsInjective
<1>5. f \in Surjection(K, 1..c)
  BY <1>1, <1>4, FS_Injection DEF c
<1>6. ASSUME NEW n \in 1..c PROVE NthOf(K, n) \in K /\ Rank(K, NthOf(K, n)) = n
  <2>1. \E i \in K : Rank(K, i) = n
    BY <1>5 DEF Surjection
  <2> QED BY <2>1 DEF NthOf, Rank
<1>7. ASSUME NEW m \in 1..c, NEW n \in 1..c, m < n PROVE NthOf(K, m) < NthOf(K, n)
  <2> DEFINE i == NthOf(K, m)
             j == NthOf(K, n)
  <2>1. i \in K /\ j \in K /\ Rank(K, i) = m /\ Rank(K, j) = n
    BY <1>6
  <2> HIDE DEF i, j
  <2>2. i # j
    BY <1>7, <2>1
  <2>3. j < i => n < m
    BY <2>1, Ranks
  <2>4. i \in Nat /\ j \in Nat /\ ~ (n < m)
    BY <1>7, <2>1
  <2>5. i < j
    BY <2>2, <2>3, <2>4
  <2> QED BY <2>5 DEF i, j
<1>8. ASSUME NEW i \in K PROVE \E n \in 1..c : NthOf(K, n) = i
  <2>1. Rank(K, i) \in 1..c
    BY <1>2
  <2>2. NthOf(K, Rank(K, i)) = i
    BY <1>3, <1>6, <2>1
  <2> QED BY <2>1, <2>2
<1> QED BY <1>1, <1>6, <1>7, <1>8 DEF c

\* A set of naturals, ascending.
LEMMA AscendingIs ==
  ASSUME NEW K \in SUBSET Nat, IsFiniteSet(K)
  PROVE  /\ Ascending(K) \in Seq(Nat) /\ Len(Ascending(K)) = Cardinality(K) /\ Range(Ascending(K)) = K
         /\ \A i, j \in 1..Len(Ascending(K)) : i < j => Ascending(K)[i] < Ascending(K)[j]
<1> DEFINE c == Cardinality(K)
           s == Ascending(K)
<1>1. /\ c \in Nat
      /\ \A n \in 1..c : NthOf(K, n) \in K
      /\ \A m, n \in 1..c : m < n => NthOf(K, m) < NthOf(K, n)
      /\ \A i \in K : \E n \in 1..c : NthOf(K, n) = i
  BY Ranked
<1>2. s \in [1..c -> Nat] /\ \A n \in 1..c : s[n] = NthOf(K, n)
  BY <1>1 DEF Ascending
<1> HIDE DEF c, s
<1>3. s \in Seq(Nat) /\ Len(s) = c /\ DOMAIN s = 1..c
  BY <1>1, <1>2, LenIs
<1>4. Range(s) = K
  <2>1. \A x : x \in Range(s) <=> \E n \in 1..c : s[n] = x
    BY <1>3, RangeOf
  <2>2. \A x : x \in Range(s) => x \in K
    BY <1>1, <1>2, <2>1
  <2>3. \A x : x \in K => x \in Range(s)
    BY <1>1, <1>2, <2>1
  <2> QED BY <2>2, <2>3
<1> QED BY <1>1, <1>2, <1>3, <1>4 DEF c, s

\* What a sequence has at the positions of a set.
LEMMA TakenIs ==
  ASSUME NEW S, NEW s \in Seq(S), NEW K \in SUBSET (1..Len(s))
  PROVE  /\ Taken(s, K) \in Seq(S) /\ Cardinality(K) \in Nat
         /\ Len(Taken(s, K)) = Cardinality(K) /\ DOMAIN Taken(s, K) = 1..Cardinality(K)
         /\ Cardinality(K) <= Len(s)
         /\ \A n \in 1..Cardinality(K) : NthOf(K, n) \in K /\ Taken(s, K)[n] = s[NthOf(K, n)]
         /\ \A m, n \in 1..Cardinality(K) : m < n => NthOf(K, m) < NthOf(K, n)
         /\ \A i \in K : \E n \in 1..Cardinality(K) : NthOf(K, n) = i
<1> DEFINE c == Cardinality(K)
           t == Taken(s, K)
<1>1. Len(s) \in Nat /\ IsFiniteSet(1..Len(s)) /\ Cardinality(1..Len(s)) = Len(s)
  BY LenProperties, UpTo
<1>2. IsFiniteSet(K) /\ c <= Len(s)
  BY <1>1, FS_Subset
<1>3. K \in SUBSET Nat
  BY <1>1
<1>4. /\ c \in Nat
      /\ \A n \in 1..c : NthOf(K, n) \in K
      /\ \A m, n \in 1..c : m < n => NthOf(K, m) < NthOf(K, n)
      /\ \A i \in K : \E n \in 1..c : NthOf(K, n) = i
  BY <1>2, <1>3, Ranked
<1>5. \A i \in K : s[i] \in S
  BY ElementOfSeq
<1>6. t \in [1..c -> S] /\ \A n \in 1..c : t[n] = s[NthOf(K, n)]
  BY <1>4, <1>5 DEF Taken
<1> HIDE DEF c, t
<1>7. t \in Seq(S) /\ Len(t) = c /\ DOMAIN t = 1..c
  BY <1>4, <1>6, LenIs
<1> QED BY <1>2, <1>4, <1>6, <1>7 DEF c, t

\* What of a sequence is in a set: in the order of the sequence, and no more of it.
LEMMA AmongIs ==
  ASSUME NEW S, NEW s \in Seq(S), NEW W
  PROVE  /\ Among(s, W) \in Seq(S) /\ Len(Among(s, W)) \in Nat /\ Len(Among(s, W)) <= Len(s)
         /\ \A x : x \in Range(Among(s, W)) <=> x \in Range(s) /\ x \in W
         /\ \A m, n \in 1..Len(Among(s, W)) : m < n =>
              \E i, j \in 1..Len(s) : i < j /\ Among(s, W)[m] = s[i] /\ Among(s, W)[n] = s[j]
<1> DEFINE K == {i \in DOMAIN s : s[i] \in W}
           t == Taken(s, K)
           c == Cardinality(K)
<1>1. DOMAIN s = 1..Len(s)
  BY LenProperties
<1>2. K \in SUBSET (1..Len(s)) /\ \A i \in 1..Len(s) : i \in K <=> s[i] \in W
  BY <1>1
<1> HIDE DEF K
<1>3. /\ t \in Seq(S) /\ c \in Nat /\ Len(t) = c /\ c <= Len(s)
      /\ \A n \in 1..c : NthOf(K, n) \in K /\ t[n] = s[NthOf(K, n)]
      /\ \A m, n \in 1..c : m < n => NthOf(K, m) < NthOf(K, n)
      /\ \A i \in K : \E n \in 1..c : NthOf(K, n) = i
  BY <1>2, TakenIs
<1> HIDE DEF t, c
<1>4. \A x : x \in Range(t) <=> \E n \in 1..c : t[n] = x
  BY <1>3, RangeOf
<1>5. \A x : x \in Range(s) <=> \E i \in 1..Len(s) : s[i] = x
  BY RangeOf
<1>6. \A x : x \in Range(t) <=> x \in Range(s) /\ x \in W
  <2>1. ASSUME NEW x, x \in Range(t) PROVE x \in Range(s) /\ x \in W
    <3>1. PICK n \in 1..c : t[n] = x
      BY <1>4, <2>1
    <3>2. NthOf(K, n) \in K /\ x = s[NthOf(K, n)]
      BY <1>3, <3>1
    <3> QED BY <1>2, <1>5, <3>2
  <2>2. ASSUME NEW x \in Range(s), x \in W PROVE x \in Range(t)
    <3>1. PICK i \in 1..Len(s) : s[i] = x
      BY <1>5
    <3>2. PICK n \in 1..c : NthOf(K, n) = i
      BY <1>2, <1>3, <2>2, <3>1
    <3> QED BY <1>3, <1>4, <3>1, <3>2
  <2> QED BY <2>1, <2>2
<1>7. \A m, n \in 1..c : m < n => \E i, j \in 1..Len(s) : i < j /\ t[m] = s[i] /\ t[n] = s[j]
  BY <1>2, <1>3
<1>8. Among(s, W) = t
  BY DEF Among, t, K
<1>9. t \in Seq(S) /\ Len(t) \in Nat /\ Len(t) <= Len(s)
  BY <1>3
<1>10. \A m, n \in 1..Len(t) : m < n => \E i, j \in 1..Len(s) : i < j /\ t[m] = s[i] /\ t[n] = s[j]
  BY <1>3, <1>7
<1> QED BY <1>6, <1>8, <1>9, <1>10

\* A sequence without what it has had before.
LEMMA DistinctIs ==
  ASSUME NEW S, NEW s \in Seq(S)
  PROVE  /\ Distinct(s) \in Seq(S) /\ Range(Distinct(s)) = Range(s)
         /\ \A i, j \in 1..Len(Distinct(s)) : Distinct(s)[i] = Distinct(s)[j] => i = j
         /\ Len(s) > 0 => Len(Distinct(s)) > 0 /\ Distinct(s)[1] = s[1]
<1> DEFINE K == {i \in DOMAIN s : \A j \in 1..(i - 1) : s[j] # s[i]}
           t == Taken(s, K)
           c == Cardinality(K)
<1>1. DOMAIN s = 1..Len(s) /\ Len(s) \in Nat
  BY LenProperties
<1>2. K \in SUBSET (1..Len(s)) /\ \A i \in 1..Len(s) : i \in K <=> \A j \in 1..(i - 1) : s[j] # s[i]
  BY <1>1
<1> HIDE DEF K
<1>3. /\ t \in Seq(S) /\ c \in Nat /\ Len(t) = c /\ c <= Len(s)
      /\ \A n \in 1..c : NthOf(K, n) \in K /\ t[n] = s[NthOf(K, n)]
      /\ \A m, n \in 1..c : m < n => NthOf(K, m) < NthOf(K, n)
      /\ \A i \in K : \E n \in 1..c : NthOf(K, n) = i
  BY <1>2, TakenIs
<1>8. Distinct(s) = t
  BY DEF Distinct, t, K
<1> HIDE DEF t, c
<1>4. \A x : x \in Range(t) <=> \E n \in 1..c : t[n] = x
  BY <1>3, RangeOf
<1>5. \A x : x \in Range(s) <=> \E i \in 1..Len(s) : s[i] = x
  BY RangeOf
<1>6. ASSUME NEW x \in Range(s) PROVE x \in Range(t)
  <2> DEFINE H == {i \in 1..Len(s) : s[i] = x}
  <2>1. H \subseteq Nat /\ H # {}
    BY <1>1, <1>5
  <2>2. PICK i \in H : \A j \in H : i <= j
    BY <2>1, Least
  <2>3. \A j \in 1..(i - 1) : s[j] # s[i]
    <3> SUFFICES ASSUME NEW j \in 1..(i - 1), s[j] = s[i] PROVE FALSE
      OBVIOUS
    <3>1. i \in 1..Len(s) /\ s[i] = x
      OBVIOUS
    <3>2. j \in 1..Len(s) /\ ~(i <= j)
      BY <1>1, <3>1
    <3> QED BY <2>2, <3>1, <3>2
  <2>4. i \in K /\ s[i] = x
    BY <1>2, <2>3
  <2> QED BY <1>3, <1>4, <2>4
<1>7. \A x : x \in Range(t) => x \in Range(s)
  BY <1>2, <1>3, <1>4, <1>5
<1>9. Range(t) = Range(s)
  BY <1>6, <1>7
<1>10. ASSUME NEW m \in 1..c, NEW n \in 1..c, m < n PROVE t[m] # t[n]
  <2> DEFINE i == NthOf(K, m)
             j == NthOf(K, n)
  <2>1. i \in K /\ j \in K /\ i < j /\ t[m] = s[i] /\ t[n] = s[j]
    BY <1>3, <1>10
  <2> HIDE DEF i, j
  <2>2. i \in 1..(j - 1) /\ j \in 1..Len(s)
    BY <1>1, <1>2, <2>1
  <2> QED BY <1>2, <2>1, <2>2
<1>11. \A i, j \in 1..c : t[i] = t[j] => i = j
  <2>1. \A i, j \in 1..c : i < j \/ j < i \/ i = j
    BY <1>3
  <2> QED BY <1>10, <2>1
<1>12. ASSUME Len(s) > 0 PROVE c > 0 /\ t[1] = s[1]
  <2>1. 1 \in K /\ 1 \in 1..Len(s)
    BY <1>1, <1>2, <1>12
  <2>2. PICK n \in 1..c : NthOf(K, n) = 1
    BY <1>3, <2>1
  <2>3. c > 0 /\ 1 \in 1..c /\ n \in Nat
    BY <1>3
  <2>4. 1 < n => FALSE
    <3> SUFFICES ASSUME 1 < n PROVE FALSE
      OBVIOUS
    <3>0. NthOf(K, 1) < NthOf(K, n) /\ NthOf(K, 1) \in K
      BY <1>3, <2>3
    <3>1. NthOf(K, 1) < 1 /\ NthOf(K, 1) \in 1..Len(s)
      BY <1>2, <2>2, <3>0
    <3> DEFINE k == NthOf(K, 1)
    <3>2. k < 1 /\ k \in 1..Len(s)
      BY <3>1
    <3> HIDE DEF k
    <3> QED BY <1>1, <3>2
  <2>5. n = 1
    BY <2>3, <2>4
  <2> QED BY <1>3, <2>2, <2>3, <2>5
<1> QED BY <1>3, <1>8, <1>9, <1>11, <1>12

-----------------------------------------------------------------------------
\* Sequences put behind each other, one by one.
Joins(f, seqs, n) == f[0] = <<>> /\ \A i \in 1..n : f[i] = f[i - 1] \o seqs[i]

\* The sequences can be put behind each other, and what comes of it is a sequence.
LEMMA Joined ==
  ASSUME NEW S, NEW seqs \in Seq(Seq(S))
  PROVE  \E f \in [0..Len(seqs) -> Seq(S)] : Joins(f, seqs, Len(seqs))
<1> DEFINE m == Len(seqs)
           none == <<>>
           T == {n \in Nat : n <= m => \E f \in [0..n -> Seq(S)] : Joins(f, seqs, n)}
<1>1. m \in Nat /\ \A i \in 1..m : seqs[i] \in Seq(S)
  BY LenProperties, ElementOfSeq
<1>2. none \in Seq(S)
  OBVIOUS
<1> HIDE DEF m, none
<1>3. 0 \in T
  <2> DEFINE f == [i \in 0..0 |-> none]
  <2>1. f \in [0..0 -> Seq(S)] /\ f[0] = none
    BY <1>2
  <2>2. 1..0 = {}
    OBVIOUS
  <2> HIDE DEF f
  <2>3. Joins(f, seqs, 0)
    BY <2>1, <2>2 DEF Joins, none
  <2> QED BY <2>1, <2>3
<1>4. ASSUME NEW n \in T PROVE n + 1 \in T
  <2>1. CASE ~(n + 1 <= m)
    BY <2>1
  <2>2. CASE n + 1 <= m
    <3>1. n \in Nat /\ n <= m /\ n + 1 \in 1..m
      BY <1>1, <2>2
    <3>2. PICK f \in [0..n -> Seq(S)] : Joins(f, seqs, n)
      BY <3>1
    <3> DEFINE last == f[n] \o seqs[n + 1]
               g == [i \in 0..(n + 1) |-> IF i <= n THEN f[i] ELSE last]
    <3>3. f[n] \in Seq(S) /\ last \in Seq(S)
      <4>1. f[n] \in Seq(S) /\ seqs[n + 1] \in Seq(S)
        BY <1>1, <3>1
      <4> QED BY <4>1, ConcatProperties
    <3>4. \A i \in 0..n : f[i] \in Seq(S)
      OBVIOUS
    <3> HIDE DEF last
    <3>5. g \in [0..(n + 1) -> Seq(S)]
      BY <3>1, <3>3, <3>4
    <3>6. \A i \in 0..n : g[i] = f[i]
      BY <3>1
    <3>7. g[n + 1] = last
      BY <3>1
    <3> HIDE DEF g
    <3>8. ASSUME NEW i \in 1..(n + 1) PROVE g[i] = g[i - 1] \o seqs[i]
      <4>1. CASE i <= n
        <5>1. i \in 0..n /\ i - 1 \in 0..n /\ i \in 1..n
          BY <3>1, <4>1
        <5> QED BY <3>2, <3>6, <5>1 DEF Joins
      <4>2. CASE ~(i <= n)
        <5>1. i = n + 1 /\ n \in 0..n /\ i - 1 = n
          BY <3>1, <4>2
        <5> QED BY <3>6, <3>7, <5>1 DEF last
      <4> QED BY <4>1, <4>2
    <3>9. g[0] = <<>>
      BY <3>1, <3>2, <3>6 DEF Joins
    <3>10. Joins(g, seqs, n + 1)
      BY <3>8, <3>9 DEF Joins
    <3> QED BY <3>1, <3>5, <3>10
  <2> QED BY <2>1, <2>2
<1>5. T = Nat
  <2> HIDE DEF T
  <2>1. T \subseteq Nat
    BY DEF T
  <2> QED BY <1>3, <1>4, <2>1, Successors
<1>6. \E f \in [0..m -> Seq(S)] : Joins(f, seqs, m)
  <2>1. m \in T
    BY <1>1, <1>5
  <2>2. m <= m
    BY <1>1
  <2> QED BY <2>1, <2>2
<1> QED BY <1>6 DEF m

\* Flattened, they are all of them behind each other.
LEMMA FlattenIs ==
  ASSUME NEW S, NEW seqs \in Seq(Seq(S)), NEW f \in [0..Len(seqs) -> Seq(S)], Joins(f, seqs, Len(seqs))
  PROVE  FlattenSeq(seqs) = f[Len(seqs)]
<1> DEFINE m == Len(seqs)
           F == CHOOSE h : h = [i \in 1..Len(seqs) |-> IF i = 1 THEN seqs[i] ELSE h[i - 1] \o seqs[i]]
<1>1. m \in Nat /\ \A i \in 1..m : seqs[i] \in Seq(S)
  BY LenProperties, ElementOfSeq
<1>2. FlattenSeq(seqs) = IF Len(seqs) = 0 THEN seqs ELSE F[Len(seqs)]
  BY DEF FlattenSeq
<1>3. f[0] = <<>> /\ \A i \in 1..m : f[i] = f[i - 1] \o seqs[i]
  BY DEF Joins
<1> HIDE DEF F, m
<1>4. CASE m = 0
  <2>1. seqs = <<>>
    BY <1>4 DEF m
  <2> QED BY <1>2, <1>3, <1>4, <2>1 DEF m
<1>5. CASE m # 0
  <2> DEFINE g == [i \in 1..m |-> f[i]]
  <2>1. \A i \in 1..m : f[i] = IF i = 1 THEN seqs[i] ELSE f[i - 1] \o seqs[i]
    <3> SUFFICES ASSUME NEW i \in 1..m PROVE f[i] = IF i = 1 THEN seqs[i] ELSE f[i - 1] \o seqs[i]
      OBVIOUS
    <3>1. CASE i = 1
      <4>0. 1 \in 1..m /\ 1 - 1 = 0
        BY <1>1, <1>5
      <4>1. f[1] = f[0] \o seqs[1] /\ seqs[1] \in Seq(S)
        BY <1>1, <1>3, <4>0
      <4>2. <<>> \o seqs[1] = seqs[1]
        BY <4>1, ConcatEmptySeq
      <4> QED BY <1>3, <3>1, <4>1, <4>2
    <3>2. CASE i # 1
      BY <1>3, <3>2
    <3> QED BY <3>1, <3>2
  <2>2. \A i \in 1..m : g[i] = f[i]
    OBVIOUS
  <2>3. \A i \in 1..m : i # 1 => i - 1 \in 1..m
    BY <1>1
  <2>4. \A i \in 1..m : g[i] = IF i = 1 THEN seqs[i] ELSE g[i - 1] \o seqs[i]
    BY <2>1, <2>2, <2>3
  <2>5. g = [i \in 1..m |-> g[i]]
    OBVIOUS
  <2> HIDE DEF g
  <2>6. g = [i \in 1..Len(seqs) |-> IF i = 1 THEN seqs[i] ELSE g[i - 1] \o seqs[i]]
    BY <2>4, <2>5 DEF m
  <2>7. F = [i \in 1..Len(seqs) |-> IF i = 1 THEN seqs[i] ELSE F[i - 1] \o seqs[i]]
    BY <2>6 DEF F
  <2>8. \A i \in 1..m : F[i] = IF i = 1 THEN seqs[i] ELSE F[i - 1] \o seqs[i]
    BY <2>7 DEF m
  <2> DEFINE T == {n \in Nat : n + 1 <= m => F[n + 1] = f[n + 1]}
  <2>9. 0 \in T
    <3>1. 1 \in 1..m /\ 0 + 1 = 1
      BY <1>1, <1>5
    <3> QED BY <2>1, <2>8, <3>1
  <2>10. ASSUME NEW n \in T PROVE n + 1 \in T
    <3>1. CASE n + 1 + 1 <= m
      <4>1. n \in Nat /\ n + 1 + 1 \in 1..m /\ n + 1 + 1 # 1 /\ n + 1 + 1 - 1 = n + 1 /\ n + 1 <= m
        BY <1>1, <3>1
      <4> DEFINE k == n + 1 + 1
      <4>2. k \in 1..m /\ k # 1 /\ k - 1 = n + 1 /\ F[n + 1] = f[n + 1]
        BY <4>1
      <4> HIDE DEF k
      <4>3. F[k] = f[k]
        BY <2>1, <2>8, <4>2
      <4> QED BY <4>1, <4>3 DEF k
    <3>2. CASE ~(n + 1 + 1 <= m)
      BY <3>2
    <3> QED BY <3>1, <3>2
  <2>11. T = Nat
    <3> HIDE DEF T
    <3>1. T \subseteq Nat
      BY DEF T
    <3> QED BY <2>9, <2>10, <3>1, Successors
  <2>12. m - 1 \in Nat /\ m - 1 + 1 = m
    BY <1>1, <1>5
  <2>13. F[m] = f[m]
    BY <2>11, <2>12
  <2> QED BY <1>2, <1>5, <2>13 DEF m
<1> QED BY <1>4, <1>5

\* What of the first of them comes where in what they are together.
InTurn(s, seqs, n) ==
  /\ \A i \in 1..Len(s) : \E g \in 1..n : \E k \in 1..Len(seqs[g]) : s[i] = seqs[g][k]
  /\ \A g \in 1..n : \A k \in 1..Len(seqs[g]) : \E i \in 1..Len(s) : s[i] = seqs[g][k]
  /\ \A i, j \in 1..Len(s) : i < j =>
       \E g, h \in 1..n : \E k \in 1..Len(seqs[g]), l \in 1..Len(seqs[h]) :
         s[i] = seqs[g][k] /\ s[j] = seqs[h][l] /\ (g < h \/ (g = h /\ k < l))
  /\ n > 0 => Len(seqs[1]) <= Len(s) /\ \A k \in 1..Len(seqs[1]) : s[k] = seqs[1][k]

\* What is in the joined sequences in turn stays so with the next one behind it.
LEMMA OneMore ==
  ASSUME NEW S, NEW seqs \in Seq(Seq(S)), NEW n \in Nat, n + 1 <= Len(seqs),
         NEW s \in Seq(S), InTurn(s, seqs, n), n = 0 => s = <<>>
  PROVE  InTurn(s \o seqs[n + 1], seqs, n + 1)
<1> DEFINE m == Len(seqs)
           t == seqs[n + 1]
           u == s \o t
           a == Len(s)
           b == Len(t)
<1>1. m \in Nat /\ t \in Seq(S)
  <2>1. m \in Nat /\ n + 1 \in 1..m
    BY LenProperties
  <2> QED BY <2>1, ElementOfSeq
<1>2. a \in Nat /\ b \in Nat
  BY <1>1, LenProperties
<1>3. Len(u) = a + b /\ \A i \in 1..(a + b) : u[i] = IF i <= a THEN s[i] ELSE t[i - a]
  BY <1>1, ConcatProperties
<1> HIDE DEF a, b, u, m
<1>4. \A i \in 1..a : i \in 1..(a + b) /\ u[i] = s[i]
  <2> SUFFICES ASSUME NEW i \in 1..a PROVE i \in 1..(a + b) /\ u[i] = s[i]
    OBVIOUS
  <2>1. i \in 1..(a + b) /\ i <= a
    BY <1>2
  <2> QED BY <1>3, <2>1
<1>5. \A k \in 1..b : a + k \in 1..(a + b) /\ u[a + k] = t[k]
  <2> SUFFICES ASSUME NEW k \in 1..b PROVE a + k \in 1..(a + b) /\ u[a + k] = t[k]
    OBVIOUS
  <2> DEFINE i == a + k
  <2>1. i \in 1..(a + b) /\ ~(i <= a) /\ i - a = k
    BY <1>2
  <2> HIDE DEF i
  <2>2. u[i] = t[i - a]
    BY <1>3, <2>1
  <2>3. i \in 1..(a + b) /\ u[i] = t[k]
    BY <2>1, <2>2
  <2> QED BY <2>3 DEF i
<1>6. \A i \in 1..(a + b) : i \in 1..a \/ (i - a \in 1..b /\ i = a + (i - a))
  BY <1>2
<1>7. \A g \in 1..n : g \in 1..(n + 1) /\ g < n + 1
  OBVIOUS
<1>8. n + 1 \in 1..(n + 1) /\ \A g \in 1..(n + 1) : g \in 1..n \/ g = n + 1
  OBVIOUS
<1>9. /\ \A i \in 1..a : \E g \in 1..n : \E k \in 1..Len(seqs[g]) : s[i] = seqs[g][k]
      /\ \A g \in 1..n : \A k \in 1..Len(seqs[g]) : \E i \in 1..a : s[i] = seqs[g][k]
      /\ \A i, j \in 1..a : i < j =>
           \E g, h \in 1..n : \E k \in 1..Len(seqs[g]), l \in 1..Len(seqs[h]) :
             s[i] = seqs[g][k] /\ s[j] = seqs[h][l] /\ (g < h \/ (g = h /\ k < l))
      /\ n > 0 => Len(seqs[1]) <= a /\ \A k \in 1..Len(seqs[1]) : s[k] = seqs[1][k]
  BY DEF InTurn, a
<1>t. b = Len(seqs[n + 1])
  BY DEF b
<1>10. \A i \in 1..(a + b) : \E g \in 1..(n + 1) : \E k \in 1..Len(seqs[g]) : u[i] = seqs[g][k]
  <2> SUFFICES ASSUME NEW i \in 1..(a + b)
               PROVE  \E g \in 1..(n + 1) : \E k \in 1..Len(seqs[g]) : u[i] = seqs[g][k]
    OBVIOUS
  <2>1. CASE i \in 1..a
    BY <1>4, <1>7, <1>9, <2>1
  <2>2. CASE i - a \in 1..b /\ i = a + (i - a)
    <3>1. u[i] = t[i - a] /\ i - a \in 1..Len(seqs[n + 1])
      BY <1>5, <1>t, <2>2
    <3> QED BY <1>8, <3>1
  <2> QED BY <1>6, <2>1, <2>2
<1>11. \A g \in 1..(n + 1) : \A k \in 1..Len(seqs[g]) : \E i \in 1..(a + b) : u[i] = seqs[g][k]
  <2> SUFFICES ASSUME NEW g \in 1..(n + 1), NEW k \in 1..Len(seqs[g])
               PROVE  \E i \in 1..(a + b) : u[i] = seqs[g][k]
    OBVIOUS
  <2>1. CASE g \in 1..n
    <3>1. PICK i \in 1..a : s[i] = seqs[g][k]
      BY <1>9, <2>1
    <3> QED BY <1>4, <3>1
  <2>2. CASE g = n + 1
    <3>1. k \in 1..b
      BY <1>t, <2>2
    <3>2. a + k \in 1..(a + b) /\ u[a + k] = t[k]
      BY <1>5, <3>1
    <3> QED BY <2>2, <3>2
  <2> QED BY <1>8, <2>1, <2>2
<1>12. ASSUME NEW i \in 1..(a + b), NEW j \in 1..(a + b), i < j
       PROVE  \E g, h \in 1..(n + 1) : \E k \in 1..Len(seqs[g]), l \in 1..Len(seqs[h]) :
                u[i] = seqs[g][k] /\ u[j] = seqs[h][l] /\ (g < h \/ (g = h /\ k < l))
  <2>1. CASE j \in 1..a
    <3>1. i \in 1..a
      BY <1>2, <1>12, <2>1
    <3>2. PICK g \in 1..n, h \in 1..n : \E k \in 1..Len(seqs[g]), l \in 1..Len(seqs[h]) :
             s[i] = seqs[g][k] /\ s[j] = seqs[h][l] /\ (g < h \/ (g = h /\ k < l))
      BY <1>9, <1>12, <2>1, <3>1
    <3>3. u[i] = s[i] /\ u[j] = s[j] /\ g \in 1..(n + 1) /\ h \in 1..(n + 1)
      BY <1>4, <1>7, <2>1, <3>1
    <3> QED BY <3>2, <3>3
  <2>2. CASE i \in 1..a /\ j - a \in 1..b /\ j = a + (j - a)
    <3>1. PICK g \in 1..n : \E k \in 1..Len(seqs[g]) : s[i] = seqs[g][k]
      BY <1>9, <2>2
    <3>2. u[i] = s[i] /\ g \in 1..(n + 1) /\ g < n + 1
      BY <1>4, <1>7, <2>2
    <3>3. u[j] = seqs[n + 1][j - a] /\ j - a \in 1..Len(seqs[n + 1])
      BY <1>5, <1>t, <2>2
    <3> QED BY <1>8, <3>1, <3>2, <3>3
  <2>3. CASE i - a \in 1..b /\ i = a + (i - a) /\ j - a \in 1..b /\ j = a + (j - a)
    <3>1. u[i] = seqs[n + 1][i - a] /\ u[j] = seqs[n + 1][j - a]
      BY <1>5, <2>3
    <3>2. i - a \in 1..Len(seqs[n + 1]) /\ j - a \in 1..Len(seqs[n + 1]) /\ i - a < j - a
      BY <1>2, <1>t, <1>12, <2>3
    <3> QED BY <1>8, <3>1, <3>2
  <2>4. j \notin 1..a /\ j - a \in 1..b /\ j = a + (j - a) => (i \in 1..a \/ (i - a \in 1..b /\ i = a + (i - a)))
    BY <1>6
  <2> QED BY <1>6, <2>1, <2>2, <2>3, <2>4
<1>13. Len(seqs[1]) <= a + b /\ \A k \in 1..Len(seqs[1]) : u[k] = seqs[1][k]
  <2>1. CASE n = 0
    <3>1. a = 0 /\ n + 1 = 1
      BY <2>1 DEF a
    <3>2. \A k \in 1..b : a + k = k
      BY <1>2, <3>1
    <3>3. b <= a + b
      BY <1>2
    <3> QED BY <1>5, <1>t, <3>1, <3>2, <3>3
  <2>2. CASE n # 0
    <3>1. n > 0
      BY <2>2
    <3>2. Len(seqs[1]) <= a /\ \A k \in 1..Len(seqs[1]) : s[k] = seqs[1][k]
      BY <1>9, <3>1
    <3>3. Len(seqs[1]) \in Nat
      <4>1. 1 \in 1..m
        <5>1. n + 1 <= m
          BY DEF m
        <5> QED BY <1>1, <5>1
      <4>2. seqs[1] \in Seq(S)
        BY <4>1, ElementOfSeq DEF m
      <4> QED BY <4>2, LenProperties
    <3>4. \A k \in 1..Len(seqs[1]) : k \in 1..a
      BY <1>2, <3>2, <3>3
    <3>5. Len(seqs[1]) <= a + b
      BY <1>2, <3>2, <3>3
    <3> QED BY <1>4, <3>2, <3>4, <3>5
  <2> QED BY <2>1, <2>2
<1>14. InTurn(u, seqs, n + 1)
  BY <1>3, <1>10, <1>11, <1>12, <1>13 DEF InTurn
<1> QED BY <1>14 DEF u

\* Flattened, sequences come in turn.
LEMMA FlattenInTurn ==
  ASSUME NEW S, NEW seqs \in Seq(Seq(S))
  PROVE  FlattenSeq(seqs) \in Seq(S) /\ InTurn(FlattenSeq(seqs), seqs, Len(seqs))
<1> DEFINE m == Len(seqs)
<1>1. m \in Nat
  BY LenProperties
<1>2. PICK f \in [0..m -> Seq(S)] : Joins(f, seqs, m)
  BY Joined
<1>3. FlattenSeq(seqs) = f[m]
  BY <1>2, FlattenIs
<1>4. f[0] = <<>> /\ \A i \in 1..m : f[i] = f[i - 1] \o seqs[i]
  BY <1>2 DEF Joins
<1> DEFINE T == {n \in Nat : n <= m => InTurn(f[n], seqs, n) /\ (n = 0 => f[n] = <<>>)}
<1>5. 0 \in T
  <2>1. Len(f[0]) = 0 /\ 1..0 = {}
    BY <1>4
  <2>2. InTurn(f[0], seqs, 0)
    BY <2>1 DEF InTurn
  <2> QED BY <1>4, <2>2
<1>6. ASSUME NEW n \in T PROVE n + 1 \in T
  <2>1. CASE ~(n + 1 <= m)
    BY <2>1
  <2>2. CASE n + 1 <= m
    <3>1. n \in Nat /\ n <= m /\ n \in 0..m /\ n + 1 \in 1..m /\ n + 1 - 1 = n /\ n + 1 # 0
      BY <1>1, <2>2
    <3>2. InTurn(f[n], seqs, n) /\ (n = 0 => f[n] = <<>>) /\ f[n] \in Seq(S)
      BY <3>1
    <3>3. InTurn(f[n] \o seqs[n + 1], seqs, n + 1)
      BY <2>2, <3>1, <3>2, OneMore
    <3> DEFINE i == n + 1
    <3>4. i \in 1..m /\ i - 1 = n
      BY <3>1
    <3> HIDE DEF i
    <3>5. f[i] = f[n] \o seqs[i]
      BY <1>4, <3>4
    <3>6. InTurn(f[i], seqs, i) /\ i # 0
      BY <3>1, <3>3, <3>5 DEF i
    <3> QED BY <3>1, <3>6 DEF i
  <2> QED BY <2>1, <2>2
<1>7. T = Nat
  <2> HIDE DEF T
  <2>1. T \subseteq Nat
    BY DEF T
  <2> QED BY <1>5, <1>6, <2>1, Successors
<1>8. InTurn(f[m], seqs, m)
  BY <1>1, <1>7
<1>9. f[m] \in Seq(S)
  BY <1>1
<1> QED BY <1>3, <1>8, <1>9

-----------------------------------------------------------------------------
\* Products and quotients of naturals.
LEMMA Products ==
  ASSUME NEW a \in Nat, NEW b \in Nat, NEW c \in Nat
  PROVE  a * c \in Nat /\ (a <= b => a * c <= b * c) /\ (a + 1) * c = a * c + c
OBVIOUS

\* Division by a positive natural, bounded from both sides.
LEMMA Quotient ==
  ASSUME NEW a \in Nat, NEW b \in Nat \ {0}
  PROVE  (a \div b) \in Nat /\ (a \div b) * b <= a /\ a < (a \div b + 1) * b
OBVIOUS

-----------------------------------------------------------------------------
\* Where a chain has transactions, and what they are.
LEMMA EverywhereIs ==
  ASSUME NEW chain \in Seq(Seq(Transactions))
  PROVE  /\ \A p : p \in Everywhere(chain) <=>
              \E h \in 1..Len(chain) : \E i \in 1..Len(chain[h]) : p = [height |-> h - 1, index |-> i]
         /\ \A p \in Everywhere(chain) : p \in Place /\ Tx(chain, p) \in Transactions
<1>1. DOMAIN chain = 1..Len(chain) /\ Len(chain) \in Nat
  BY LenProperties
<1>2. \A h \in 1..Len(chain) : chain[h] \in Seq(Transactions)
  BY ElementOfSeq
<1>3. \A h \in 1..Len(chain) : DOMAIN chain[h] = 1..Len(chain[h]) /\ Len(chain[h]) \in Nat
  BY <1>2, LenProperties
<1>4. \A p : p \in Everywhere(chain) <=>
         \E h \in 1..Len(chain) : \E i \in 1..Len(chain[h]) : p = [height |-> h - 1, index |-> i]
  <2>1. \A p : p \in Everywhere(chain) <=> \E h \in DOMAIN chain : \E i \in DOMAIN chain[h] : p = [height |-> h - 1, index |-> i]
    BY DEF Everywhere
  <2>2. \A h \in DOMAIN chain : h \in 1..Len(chain) /\ DOMAIN chain[h] = 1..Len(chain[h])
    BY <1>1, <1>3
  <2>3. \A h \in 1..Len(chain) : h \in DOMAIN chain /\ DOMAIN chain[h] = 1..Len(chain[h])
    BY <1>1, <1>3
  <2> QED BY <2>1, <2>2, <2>3
<1>5. ASSUME NEW p \in Everywhere(chain) PROVE p \in Place /\ Tx(chain, p) \in Transactions
  <2>1. PICK h \in 1..Len(chain) : \E i \in 1..Len(chain[h]) : p = [height |-> h - 1, index |-> i]
    BY <1>4
  <2>2. PICK i \in 1..Len(chain[h]) : p = [height |-> h - 1, index |-> i]
    BY <2>1
  <2>3. h - 1 \in Nat /\ h - 1 + 1 = h /\ i \in Nat \ {0}
    BY <1>1, <1>3
  <2>4. p \in Place
    BY <2>2, <2>3 DEF Place
  <2>5. Tx(chain, p) = chain[h][i]
    <3>1. p.height = h - 1 /\ p.index = i
      BY <2>2
    <3>2. p.height + 1 = h
      BY <2>3, <3>1
    <3> QED BY <3>1, <3>2 DEF Tx
  <2>6. chain[h][i] \in Transactions
    BY <1>2, ElementOfSeq
  <2> QED BY <2>4, <2>5, <2>6
<1> QED BY <1>4, <1>5

\* The order of places.
LEMMA EarlierOrders ==
  /\ \A p, q \in Place : Earlier(p, q) \/ Earlier(q, p) \/ p = q
  /\ \A p, q \in Place : Earlier(p, q) => ~Earlier(q, p) /\ p # q
  /\ \A p, q, r \in Place : Earlier(p, q) /\ Earlier(q, r) => Earlier(p, r)
<1>1. ASSUME NEW p \in Place, NEW q \in Place PROVE Earlier(p, q) \/ Earlier(q, p) \/ p = q
  BY DEF Earlier, Place
<1>2. ASSUME NEW p \in Place, NEW q \in Place, Earlier(p, q) PROVE ~Earlier(q, p) /\ p # q
  BY <1>2 DEF Earlier, Place
<1>3. ASSUME NEW p \in Place, NEW q \in Place, NEW r \in Place, Earlier(p, q), Earlier(q, r) PROVE Earlier(p, r)
  BY <1>3 DEF Earlier, Place
<1> QED BY <1>1, <1>2, <1>3

\* Places in the order of the chain, and the other way.
Rising(s) == \A i, j \in 1..Len(s) : i < j => Earlier(s[i], s[j])
Falling(s) == \A i, j \in 1..Len(s) : i < j => Earlier(s[j], s[i])

\* The places of a chain are everywhere that it has transactions, in their order.
LEMMA PlacesAre ==
  ASSUME NEW chain \in Seq(Seq(Transactions))
  PROVE  Places(chain) \in Seq(Place) /\ Rising(Places(chain)) /\ Range(Places(chain)) = Everywhere(chain)
<1> DEFINE n == Len(chain)
           seqs == [h \in DOMAIN chain |-> PlacesIn(chain[h], h - 1)]
           s == Places(chain)
<1>1. n \in Nat /\ DOMAIN chain = 1..n
  BY LenProperties
<1>2. \A h \in 1..n : chain[h] \in Seq(Transactions)
  BY ElementOfSeq
<1>3. \A h \in 1..n : DOMAIN chain[h] = 1..Len(chain[h]) /\ Len(chain[h]) \in Nat
  BY <1>2, LenProperties
<1>4. ASSUME NEW h \in 1..n
      PROVE  /\ seqs[h] \in Seq(Place) /\ Len(seqs[h]) = Len(chain[h])
             /\ \A i \in 1..Len(chain[h]) : seqs[h][i] = [height |-> h - 1, index |-> i]
  <2> DEFINE t == PlacesIn(chain[h], h - 1)
             m == Len(chain[h])
  <2>1. m \in Nat /\ h - 1 \in Nat
    BY <1>1, <1>3
  <2>2. DOMAIN chain[h] = 1..m
    BY <1>3
  <2>3. t = [i \in 1..m |-> [height |-> h - 1, index |-> i]]
    BY <2>2 DEF PlacesIn
  <2>4. \A i \in 1..m : [height |-> h - 1, index |-> i] \in Place
    BY <2>1 DEF Place
  <2> HIDE DEF t, m
  <2>5. t \in [1..m -> Place] /\ \A i \in 1..m : t[i] = [height |-> h - 1, index |-> i]
    BY <2>3, <2>4
  <2>6. t \in Seq(Place) /\ Len(t) = m
    BY <2>1, <2>5, LenIs
  <2>7. seqs[h] = t
    BY <1>1 DEF t
  <2> QED BY <2>5, <2>6, <2>7 DEF m
<1>5. seqs \in [1..n -> Seq(Place)]
  <2>1. seqs = [h \in 1..n |-> PlacesIn(chain[h], h - 1)]
    BY <1>1
  <2>2. \A h \in 1..n : PlacesIn(chain[h], h - 1) \in Seq(Place)
    BY <1>1, <1>4
  <2> HIDE DEF seqs
  <2> QED BY <2>1, <2>2
<1> HIDE DEF seqs
<1>6. seqs \in Seq(Seq(Place)) /\ Len(seqs) = n
  BY <1>1, <1>5, LenIs
<1>7. FlattenSeq(seqs) \in Seq(Place) /\ InTurn(FlattenSeq(seqs), seqs, n)
  BY <1>6, FlattenInTurn
<1>8. s = FlattenSeq(seqs)
  BY DEF Places, seqs
<1> HIDE DEF s
<1>9. /\ s \in Seq(Place)
      /\ \A i \in 1..Len(s) : \E g \in 1..n : \E k \in 1..Len(seqs[g]) : s[i] = seqs[g][k]
      /\ \A g \in 1..n : \A k \in 1..Len(seqs[g]) : \E i \in 1..Len(s) : s[i] = seqs[g][k]
      /\ \A i, j \in 1..Len(s) : i < j =>
           \E g, h \in 1..n : \E k \in 1..Len(seqs[g]), l \in 1..Len(seqs[h]) :
             s[i] = seqs[g][k] /\ s[j] = seqs[h][l] /\ (g < h \/ (g = h /\ k < l))
  BY <1>7, <1>8 DEF InTurn
<1>10. ASSUME NEW i \in 1..Len(s), NEW j \in 1..Len(s), i < j PROVE Earlier(s[i], s[j])
  <2>1. PICK g \in 1..n, h \in 1..n : \E k \in 1..Len(seqs[g]), l \in 1..Len(seqs[h]) :
           s[i] = seqs[g][k] /\ s[j] = seqs[h][l] /\ (g < h \/ (g = h /\ k < l))
    BY <1>9, <1>10
  <2>2. PICK k \in 1..Len(seqs[g]), l \in 1..Len(seqs[h]) :
           s[i] = seqs[g][k] /\ s[j] = seqs[h][l] /\ (g < h \/ (g = h /\ k < l))
    BY <2>1
  <2>3. s[i] = [height |-> g - 1, index |-> k] /\ s[j] = [height |-> h - 1, index |-> l]
    BY <1>4, <2>2
  <2>4. s[i].height = g - 1 /\ s[i].index = k /\ s[j].height = h - 1 /\ s[j].index = l
    BY <2>3
  <2>5. g \in Nat /\ h \in Nat /\ (g < h => g - 1 < h - 1)
    BY <1>1
  <2> QED BY <2>2, <2>4, <2>5 DEF Earlier
<1>11. \A p : p \in Everywhere(chain) <=> \E h \in 1..n : \E i \in 1..Len(chain[h]) : p = [height |-> h - 1, index |-> i]
  BY EverywhereIs
<1>12. \A p : p \in Range(s) <=> \E i \in 1..Len(s) : s[i] = p
  BY <1>9, RangeOf
<1>13. ASSUME NEW p \in Range(s) PROVE p \in Everywhere(chain)
  <2>1. PICK i \in 1..Len(s) : s[i] = p
    BY <1>12
  <2>2. PICK g \in 1..n : \E k \in 1..Len(seqs[g]) : s[i] = seqs[g][k]
    BY <1>9
  <2>3. PICK k \in 1..Len(seqs[g]) : s[i] = seqs[g][k]
    BY <2>2
  <2>4. k \in 1..Len(chain[g]) /\ p = [height |-> g - 1, index |-> k]
    BY <1>4, <2>1, <2>3
  <2> QED BY <1>11, <2>4
<1>14. ASSUME NEW p \in Everywhere(chain) PROVE p \in Range(s)
  <2>1. PICK h \in 1..n : \E i \in 1..Len(chain[h]) : p = [height |-> h - 1, index |-> i]
    BY <1>11
  <2>2. PICK k \in 1..Len(chain[h]) : p = [height |-> h - 1, index |-> k]
    BY <2>1
  <2>3. k \in 1..Len(seqs[h]) /\ seqs[h][k] = p
    BY <1>4, <2>2
  <2> QED BY <1>9, <1>12, <2>3
<1> QED BY <1>8, <1>9, <1>10, <1>13, <1>14 DEF Rising, s

\* Ordered, nothing is twice; turned round, the order is turned round.
LEMMA RisingDistinct ==
  ASSUME NEW s \in Seq(Place), Rising(s) \/ Falling(s)
  PROVE  /\ \A i, j \in 1..Len(s) : s[i] = s[j] => i = j
         /\ Cardinality(Range(s)) = Len(s)
<1>1. Len(s) \in Nat /\ \A i \in 1..Len(s) : s[i] \in Place
  BY LenProperties, ElementOfSeq
<1>2. \A i, j \in 1..Len(s) : i < j => s[i] # s[j]
  BY <1>1, EarlierOrders DEF Rising, Falling
<1>3. \A i, j \in 1..Len(s) : i < j \/ j < i \/ i = j
  BY <1>1
<1>4. \A i, j \in 1..Len(s) : s[i] = s[j] => i = j
  BY <1>2, <1>3
<1> QED BY <1>4, RangeOfDistinct

\* Turned round, a rising sequence falls and a falling one rises.
LEMMA ReverseFalls ==
  ASSUME NEW s \in Seq(Place)
  PROVE  (Rising(s) => Falling(Reverse(s))) /\ (Falling(s) => Rising(Reverse(s)))
<1> DEFINE n == Len(s)
           r == Reverse(s)
<1>1. n \in Nat /\ Len(r) = n /\ \A i \in 1..n : r[i] = s[n - i + 1] /\ n - i + 1 \in 1..n
  BY ReverseIs, LenProperties
<1> HIDE DEF r, n
<1>2. \A i, j \in 1..n : i < j => n - j + 1 < n - i + 1
  BY <1>1
<1>3. ASSUME Rising(s) PROVE Falling(r)
  <2> SUFFICES ASSUME NEW i \in 1..n, NEW j \in 1..n, i < j PROVE Earlier(r[j], r[i])
    BY <1>1 DEF Falling
  <2> DEFINE k == n - i + 1
             l == n - j + 1
  <2>1. k \in 1..n /\ l \in 1..n /\ l < k /\ r[i] = s[k] /\ r[j] = s[l]
    BY <1>1, <1>2
  <2> HIDE DEF k, l
  <2> QED BY <1>3, <2>1 DEF Rising, n
<1>4. ASSUME Falling(s) PROVE Rising(r)
  <2> SUFFICES ASSUME NEW i \in 1..n, NEW j \in 1..n, i < j PROVE Earlier(r[i], r[j])
    BY <1>1 DEF Rising
  <2> DEFINE k == n - i + 1
             l == n - j + 1
  <2>1. k \in 1..n /\ l \in 1..n /\ l < k /\ r[i] = s[k] /\ r[j] = s[l]
    BY <1>1, <1>2
  <2> HIDE DEF k, l
  <2> QED BY <1>4, <2>1 DEF Falling, n
<1> QED BY <1>3, <1>4 DEF r

\* What is taken of them is ordered as they are.
LEMMA AmongOrdered ==
  ASSUME NEW s \in Seq(Place), NEW W
  PROVE  (Rising(s) => Rising(Among(s, W))) /\ (Falling(s) => Falling(Among(s, W)))
<1>1. \A m, n \in 1..Len(Among(s, W)) : m < n =>
         \E i, j \in 1..Len(s) : i < j /\ Among(s, W)[m] = s[i] /\ Among(s, W)[n] = s[j]
  BY AmongIs
<1> QED BY <1>1 DEF Rising, Falling

\* The places of a set, newest first.
LEMMA NewestOf ==
  ASSUME NEW chain \in Seq(Seq(Transactions)), NEW W
  PROVE  /\ NewestFirst(Among(Places(chain), W)) \in Seq(Place)
         /\ Falling(NewestFirst(Among(Places(chain), W)))
         /\ \A p : p \in Range(NewestFirst(Among(Places(chain), W))) <=> p \in Everywhere(chain) /\ p \in W
<1> DEFINE t == Among(Places(chain), W)
<1>1. Places(chain) \in Seq(Place) /\ Rising(Places(chain)) /\ Range(Places(chain)) = Everywhere(chain)
  BY PlacesAre
<1>2. t \in Seq(Place) /\ \A p : p \in Range(t) <=> p \in Range(Places(chain)) /\ p \in W
  BY <1>1, AmongIs
<1>3. Rising(t)
  BY <1>1, AmongOrdered
<1> HIDE DEF t
<1>4. Reverse(t) \in Seq(Place) /\ Range(Reverse(t)) = Range(t) /\ Falling(Reverse(t))
  BY <1>2, <1>3, ReverseIs, ReverseFalls
<1> QED BY <1>1, <1>2, <1>4 DEF NewestFirst, t

\* A node lists of an account what it takes part in.
LEMMA ListsTakesPart ==
  ASSUME NEW tx \in Transactions, NEW a
  PROVE  Lists(tx, a) <=> TakesPart(tx, a)
<1>1. tx.parts \in Seq(Parts)
  BY DEF Transactions
<1>2. \A s \in Range(tx.parts) : s.kind \in Calls \cup {"Transfer"}
  <2>1. \A s \in Parts : s.kind \in Calls \cup {"Transfer"}
    BY DEF Parts
  <2>2. Range(tx.parts) \subseteq Parts
    BY <1>1, RangeOf
  <2> QED BY <2>1, <2>2
<1>3. Touches(tx, Calls \cup {"Transfer"}, a) <=> \E s \in Range(tx.parts) : s.to = a
  BY <1>2 DEF Touches
<1> QED BY <1>3 DEF Lists, TakesPart

\* What the node lists of an account is every transaction it takes part in, newest first.
LEMMA IndexedIs ==
  ASSUME NEW chain \in Seq(Seq(Transactions)), NEW a
  PROVE  /\ Indexed(chain, a) \in Seq(Place) /\ Falling(Indexed(chain, a))
         /\ Range(Indexed(chain, a)) = PartOf(chain, a)
         /\ Cardinality(PartOf(chain, a)) = Len(Indexed(chain, a))
<1> DEFINE W == Listed(chain, a)
           r == NewestFirst(Among(Places(chain), W))
<1>1. /\ r \in Seq(Place) /\ Falling(r)
      /\ \A p : p \in Range(r) <=> p \in Everywhere(chain) /\ p \in W
  BY NewestOf
<1>2. \A p \in Everywhere(chain) : Tx(chain, p) \in Transactions
  BY EverywhereIs
<1>3. \A p \in Everywhere(chain) : Lists(Tx(chain, p), a) <=> TakesPart(Tx(chain, p), a)
  BY <1>2, ListsTakesPart
<1>4. \A p : p \in W <=> p \in Everywhere(chain) /\ Lists(Tx(chain, p), a)
  BY PlacesAre DEF Listed
<1>5. \A p : p \in Range(r) <=> p \in PartOf(chain, a)
  BY <1>1, <1>3, <1>4 DEF PartOf
<1> HIDE DEF r, W
<1>6. Range(r) = PartOf(chain, a)
  BY <1>5
<1>7. Cardinality(Range(r)) = Len(r)
  BY <1>1, RisingDistinct
<1>8. Indexed(chain, a) = r
  BY DEF Indexed, r, W
<1> QED BY <1>1, <1>6, <1>7, <1>8

-----------------------------------------------------------------------------
\* The caps, each by its name.
LEMMA Caps ==
  /\ PageSize \in Nat \ {0} /\ PageCap \in Nat \ {0} /\ DeployerCap \in Nat \ {0}
  /\ BlockCap \in Nat \ {0} /\ CandidateCap \in Nat \ {0}
BY SearchAssumption

\* Every row is on a page, and a page has nothing else.
LEMMA PageHas ==
  ASSUME NEW rows \in Seq(Place), NEW q \in Nat \ {0}
  PROVE  /\ \A j \in 1..Len(rows) : (q - 1) * PageSize < j /\ j <= q * PageSize =>
              \E i \in DOMAIN Page(rows, q) : Page(rows, q)[i] = rows[j]
         /\ \A i \in DOMAIN Page(rows, q) : \E j \in 1..Len(rows) : Page(rows, q)[i] = rows[j] /\ j <= q * PageSize
<1> DEFINE a == (q - 1) * PageSize
           n == Len(rows)
           b == q * PageSize
           e == Min({q * PageSize, Len(rows)})
           page == Page(rows, q)
<1>1. n \in Nat /\ a \in Nat /\ b \in Nat
  BY LenProperties, Products, Caps
<1>2. e = IF b <= n THEN b ELSE n
  BY <1>1, MinOfTwo
<1>3. page = SubSeq(rows, a + 1, e)
  BY DEF Page
<1>4. \A i \in 1..n : rows[i] \in Place
  BY ElementOfSeq
<1> HIDE DEF a, b, n, e, page
<1>5. a + 1 \in Int /\ e \in Int /\ \A i \in (a + 1)..e : i \in 1..n
  BY <1>1, <1>2
<1>6. \A i \in (a + 1)..e : rows[i] \in Place
  BY <1>4, <1>5
<1>7. /\ page \in Seq(Place) /\ Len(page) = (IF a + 1 <= e THEN e - (a + 1) + 1 ELSE 0)
      /\ \A i \in 1..(e - (a + 1) + 1) : page[i] = rows[a + 1 + i - 1]
  BY <1>3, <1>5, <1>6, SubSeqProperties
<1>8. DOMAIN page = 1..Len(page) /\ Len(page) \in Nat
  BY <1>7, LenProperties
<1>9. ASSUME NEW j \in 1..n, a < j, j <= b PROVE \E i \in DOMAIN page : page[i] = rows[j]
  <2> DEFINE i == j - a
  <2>1. i \in 1..Len(page) /\ i \in 1..(e - (a + 1) + 1) /\ a + 1 + i - 1 = j
    BY <1>1, <1>2, <1>7, <1>9
  <2> HIDE DEF i
  <2>2. page[i] = rows[j]
    BY <1>7, <2>1
  <2> QED BY <1>8, <2>1, <2>2
<1>10. ASSUME NEW i \in DOMAIN page PROVE \E j \in 1..n : page[i] = rows[j] /\ j <= b
  <2> DEFINE j == a + 1 + i - 1
  <2>1. i \in 1..(e - (a + 1) + 1) /\ i \in Nat
    BY <1>1, <1>2, <1>7, <1>8
  <2>2. j \in 1..n /\ j <= b
    BY <1>1, <1>2, <2>1
  <2>3. page[i] = rows[j]
    BY <1>7, <2>1
  <2> HIDE DEF j
  <2> QED BY <2>2, <2>3
<1> QED BY <1>9, <1>10 DEF a, b, n, page

\* Up to the last page there are all rows.
LEMMA LastPageIs ==
  ASSUME NEW rows \in Seq(Place)
  PROVE  /\ LastPage(rows) \in Nat \ {0}
         /\ \A r \in Nat : r >= LastPage(rows) => Len(rows) <= r * PageSize
<1> DEFINE n == Len(rows)
           q == (n + PageSize - 1) \div PageSize
<1>1. n \in Nat /\ PageSize \in Nat \ {0}
  BY LenProperties, Caps
<1>2. n + PageSize - 1 \in Nat
  BY <1>1
<1>3. q \in Nat /\ n + PageSize - 1 < (q + 1) * PageSize
  BY <1>1, <1>2, Quotient
<1>4. LastPage(rows) = Max({1, q})
  BY DEF LastPage
<1> HIDE DEF n, q
<1>5. LastPage(rows) = IF 1 >= q THEN 1 ELSE q
  BY <1>3, <1>4, MaxOfTwo
<1>6. LastPage(rows) \in Nat \ {0} /\ q <= LastPage(rows)
  BY <1>3, <1>5
<1>7. (q + 1) * PageSize = q * PageSize + PageSize /\ q * PageSize \in Nat
  BY <1>1, <1>3, Products
<1>8. n <= q * PageSize
  <2> DEFINE x == q * PageSize
             y == (q + 1) * PageSize
  <2>1. x \in Nat /\ y = x + PageSize /\ n + PageSize - 1 < y
    BY <1>3, <1>7
  <2> HIDE DEF x, y
  <2>2. n <= x
    BY <1>1, <2>1
  <2> QED BY <2>2 DEF x
<1>9. ASSUME NEW r \in Nat, r >= LastPage(rows) PROVE n <= r * PageSize
  <2>1. q <= r
    BY <1>3, <1>6, <1>9
  <2>2. q * PageSize <= r * PageSize /\ r * PageSize \in Nat
    BY <1>1, <1>3, <2>1, Products
  <2> DEFINE x == q * PageSize
             y == r * PageSize
  <2>3. x \in Nat /\ y \in Nat /\ x <= y /\ n <= x
    BY <1>7, <1>8, <2>2
  <2> HIDE DEF x, y
  <2>4. n <= y
    BY <1>1, <2>3
  <2> QED BY <2>4 DEF y
<1> QED BY <1>6, <1>9 DEF n

\* Where the reading of the pages ends, and why.
Passed(node, rows, from, q) == q \notin node.badPages /\ ~Below(rows, q, from) /\ q < LastPage(rows)

\* The reading of the pages ends at the cap, or at the first page it does not get past.
LEMMA ReachedIs ==
  ASSUME NEW node, NEW rows \in Seq(Place), NEW from
  PROVE  /\ Reached(node, rows, from) \in 1..PageCap
         /\ \A q \in 1..(Reached(node, rows, from) - 1) : Passed(node, rows, from, q)
         /\ Reached(node, rows, from) # PageCap => ~Passed(node, rows, from, Reached(node, rows, from))
<1> DEFINE H == {p \in 1..PageCap : \A q \in 1..(p - 1) : Passed(node, rows, from, q)}
           r == Reached(node, rows, from)
<1>1. PageCap \in Nat \ {0}
  BY Caps
<1>2. r = Max(H)
  BY DEF Reached, Passed
<1>3. 1 \in H
  BY <1>1
<1>4. H \subseteq 0..PageCap /\ H # {}
  <2>1. \A p \in 1..PageCap : p \in 0..PageCap
    OBVIOUS
  <2>2. \A p \in H : p \in 1..PageCap
    OBVIOUS
  <2> HIDE DEF H
  <2> QED BY <1>3, <2>1, <2>2
<1> HIDE DEF r
<1>5. r \in H /\ \A y \in H : y <= r
  <2> HIDE DEF H
  <2>1. PageCap \in Nat
    BY <1>1
  <2> QED BY <1>2, <1>4, <2>1, MaxIs
<1>6. r \in 1..PageCap /\ \A q \in 1..(r - 1) : Passed(node, rows, from, q)
  BY <1>5
<1>7. ASSUME r # PageCap, Passed(node, rows, from, r) PROVE FALSE
  <2>1. r + 1 \in 1..PageCap
    BY <1>1, <1>6, <1>7
  <2>2. \A q \in 1..(r + 1 - 1) : q \in 1..(r - 1) \/ q = r
    BY <1>1, <1>6
  <2>3. r + 1 \in H
    BY <1>6, <1>7, <2>1, <2>2
  <2>4. ~(r + 1 <= r)
    BY <1>1, <1>6
  <2> QED BY <1>5, <2>3, <2>4
<1> QED BY <1>6, <1>7 DEF r

\* The rows of a window: none, or those before which the window begins, or as many as are read
\* at most, all of the window.
Filled(rows, k, from) == k = PageCap * PageSize /\ \A i \in 1..k : rows[i].height >= from
KeptUpTo(rows, kept, k, from) ==
  /\ kept = SubSeq(rows, 1, k)
  /\ Filled(rows, k, from) \/ \A j \in 1..Len(rows) : j > k => rows[j].height < from

\* What the reading keeps is the first rows of the list, and without a failed page it ends where the
\* window or the cap does.
LEMMA KeptIs ==
  ASSUME NEW node, NEW rows \in Seq(Place), Falling(rows), NEW from \in Int, RowsKept(node, rows, from) # <<>>
  PROVE  \E k \in 0..Len(rows) : KeptUpTo(rows, RowsKept(node, rows, from), k, from)
<1> DEFINE n == Len(rows)
           r == Reached(node, rows, from)
           b == r * PageSize
           k == Min({b, n})
           kept == RowsKept(node, rows, from)
           cap == PageCap * PageSize
<1>1. n \in Nat /\ PageSize \in Nat \ {0} /\ PageCap \in Nat \ {0}
  BY LenProperties, Caps
<1>2. /\ r \in 1..PageCap
      /\ \A q \in 1..(r - 1) : Passed(node, rows, from, q)
      /\ r # PageCap => ~Passed(node, rows, from, r)
  BY ReachedIs
<1>3. r \notin node.badPages
  BY DEF RowsKept
<1>4. kept = SubSeq(rows, 1, Min({r * PageSize, Len(rows)}))
  BY <1>3 DEF RowsKept, RowsBeforeFailure
<1>5. r \in Nat \ {0} /\ r <= PageCap
  BY <1>1, <1>2
<1>6. b \in Nat /\ b <= cap /\ cap \in Nat
  <2> HIDE DEF r
  <2> QED BY <1>1, <1>5, Products
<1> HIDE DEF n, r, kept
<1>7. k = (IF b <= n THEN b ELSE n) /\ k \in 0..n
  <2> HIDE DEF b
  <2>1. k = IF b <= n THEN b ELSE n
    BY <1>1, <1>6, MinOfTwo
  <2> QED BY <1>1, <1>6, <2>1
<1>8. kept = SubSeq(rows, 1, k)
  BY <1>4 DEF n
<1> HIDE DEF k
<1>p. \A j \in 1..n : rows[j] \in Place
  BY ElementOfSeq DEF n
<1>9. CASE Below(rows, r, from)
  <2>1. PICK i \in DOMAIN Page(rows, r) : Page(rows, r)[i].height < from
    BY <1>9 DEF Below
  <2>2. PICK j \in 1..n : Page(rows, r)[i] = rows[j] /\ j <= b
    BY <1>5, PageHas DEF n
  <2>3. rows[j].height < from /\ j <= k
    <3> HIDE DEF b
    <3> QED BY <1>1, <1>6, <1>7, <2>1, <2>2
  <2>4. ASSUME NEW l \in 1..n, l > k PROVE rows[l].height < from
    <3>1. j < l
      BY <1>1, <1>7, <2>3, <2>4
    <3>2. Earlier(rows[l], rows[j])
      BY <3>1 DEF Falling, n
    <3>3. rows[l].height <= rows[j].height
      BY <1>p, <3>2 DEF Earlier, Place
    <3>4. rows[l].height \in Int /\ rows[j].height \in Int
      BY <1>p DEF Place
    <3> QED BY <2>3, <3>3, <3>4
  <2> QED BY <1>7, <1>8, <2>4 DEF KeptUpTo, n, kept
<1>10. CASE r >= LastPage(rows)
  <2>1. n <= b
    BY <1>5, <1>10, LastPageIs DEF n
  <2>2. k = n
    <3> HIDE DEF b
    <3> QED BY <1>1, <1>6, <1>7, <2>1
  <2>3. \A l \in 1..n : ~(l > k)
    BY <1>1, <2>2
  <2> QED BY <1>7, <1>8, <2>3 DEF KeptUpTo, n, kept
<1>11. CASE ~Below(rows, r, from) /\ ~(r >= LastPage(rows))
  <2>1. r = PageCap
    <3>1. LastPage(rows) \in Nat
      BY LastPageIs
    <3>2. r < LastPage(rows)
      BY <1>5, <1>11, <3>1
    <3> QED BY <1>2, <1>3, <1>11, <3>2 DEF Passed
  <2>2. ASSUME NEW j \in 1..k PROVE rows[j].height >= from
    <3> DEFINE q == (j - 1) \div PageSize + 1
    <3>1. j - 1 \in Nat /\ j \in 1..n /\ j <= b
      <4> HIDE DEF b
      <4> QED BY <1>1, <1>6, <1>7
    <3>2. (j - 1) \div PageSize \in Nat /\ ((j - 1) \div PageSize) * PageSize <= j - 1
          /\ j - 1 < ((j - 1) \div PageSize + 1) * PageSize
      BY <1>1, <3>1, Quotient
    <3>3. q \in Nat \ {0} /\ q - 1 = (j - 1) \div PageSize
      BY <3>2
    <3>4. (q - 1) * PageSize <= j - 1 /\ j - 1 < q * PageSize
      BY <3>2, <3>3
    <3> HIDE DEF q
    <3>5. (q - 1) * PageSize \in Nat /\ q * PageSize \in Nat
      BY <1>1, <3>3, Products
    <3>6. (q - 1) * PageSize < j /\ j <= q * PageSize
      <4> DEFINE x == (q - 1) * PageSize
                 y == q * PageSize
      <4>1. x \in Nat /\ y \in Nat /\ x <= j - 1 /\ j - 1 < y
        BY <3>4, <3>5
      <4> HIDE DEF x, y
      <4>2. x < j /\ j <= y
        BY <3>1, <4>1
      <4> QED BY <4>2 DEF x, y
    <3>7. q <= r
      <4> SUFFICES ASSUME ~(q <= r) PROVE FALSE
        OBVIOUS
      <4>1. r <= q - 1 /\ q - 1 \in Nat
        BY <1>5, <3>3
      <4>2. r * PageSize <= (q - 1) * PageSize
        BY <1>1, <1>5, <4>1, Products
      <4> DEFINE x == (q - 1) * PageSize
      <4>3. b <= x /\ x < j /\ x \in Nat
        BY <3>5, <3>6, <4>2
      <4> HIDE DEF x, b
      <4> QED BY <1>6, <3>1, <4>3
    <3>8. ~Below(rows, q, from)
      <4>1. q \in 1..(r - 1) \/ q = r
        BY <1>5, <3>3, <3>7
      <4> QED BY <1>2, <1>11, <4>1 DEF Passed
    <3>9. PICK i \in DOMAIN Page(rows, q) : Page(rows, q)[i] = rows[j]
      BY <3>1, <3>3, <3>6, PageHas DEF n
    <3>10. ~(rows[j].height < from)
      BY <3>8, <3>9 DEF Below
    <3>11. rows[j].height \in Int
      BY <1>p, <3>1 DEF Place
    <3> QED BY <3>10, <3>11
  <2>3. CASE b <= n
    <3>1. k = cap
      BY <1>7, <2>1, <2>3
    <3>2. Filled(rows, k, from)
      BY <2>2, <3>1 DEF Filled
    <3> QED BY <1>7, <1>8, <3>2 DEF KeptUpTo, n, kept
  <2>4. CASE ~(b <= n)
    <3>1. k = n
      BY <1>7, <2>4
    <3>2. \A l \in 1..n : ~(l > k)
      BY <1>1, <3>1
    <3> QED BY <1>7, <1>8, <3>2 DEF KeptUpTo, n, kept
  <2> QED BY <2>3, <2>4
<1> QED BY <1>9, <1>10, <1>11

-----------------------------------------------------------------------------
\* The history of an account, as a lookup tells it.
LEMMA NodeIs ==
  ASSUME NEW node \in Nodes
  PROVE  /\ node.chain \in Seq(Seq(Transactions)) /\ node.head \in Int
         /\ \A window \in Nat \ {0} : From(node, window) \in Nat
<1>1. node.chain \in Seq(Seq(Transactions)) /\ node.head \in Int
  BY DEF Nodes
<1>2. ASSUME NEW window \in Nat \ {0} PROVE From(node, window) \in Nat
  <2> DEFINE e == node.head - (window - 1)
  <2>1. e \in Int
    BY <1>1
  <2>2. From(node, window) = Max({0, e})
    BY DEF From
  <2> HIDE DEF e
  <2> QED BY <2>1, <2>2, MaxOfTwo
<1> QED BY <1>1, <1>2

\* Items that show places, one by one.
Shows(items, places) ==
  DOMAIN items = 1..Len(places) /\ \A i \in 1..Len(places) : PlaceOf(items[i]) = places[i]

WithRoles(item, roles) == [item EXCEPT !.roles = roles]

\* A row of the history is at the place of its transaction, whatever roles it gets.
LEMMA ItemAt ==
  ASSUME NEW chain, NEW a, NEW p \in Place, NEW roles
  PROVE  /\ PlaceOf(Item(chain, a, p)) = p
         /\ PlaceOf(WithRoles(Item(chain, a, p), roles)) = p
<1> DEFINE item == Item(chain, a, p)
<1>1. item.height = p.height /\ item.index = p.index
  BY DEF Item
<1>2. DOMAIN item = {"height", "index", "kind", "roles", "failed"}
  BY DEF Item
<1>3. p = [height |-> p.height, index |-> p.index]
  BY DEF Place
<1>4. item = [x \in DOMAIN item |-> item[x]]
  BY DEF Item
<1> HIDE DEF item
<1>5. [item EXCEPT !.roles = roles].height = item.height /\ [item EXCEPT !.roles = roles].index = item.index
  BY <1>2, <1>4
<1>6. PlaceOf(item) = p /\ PlaceOf(WithRoles(item, roles)) = p
  BY <1>1, <1>3, <1>5 DEF PlaceOf, WithRoles
<1> QED BY <1>6 DEF item

\* A scan shows what the account has a role in, of the blocks that are looked at.
LEMMA ScanShows ==
  ASSUME NEW chain \in Seq(Seq(Transactions)), NEW a, NEW heights
  PROVE  \E places \in Seq(Place) :
           /\ Falling(places) /\ Shows(CollectAccountTxHistory(chain, a, heights), places)
           /\ \A p : p \in Range(places) <=>
                /\ p \in Everywhere(chain) /\ p.height \in heights
                /\ RolesForAccountInTx(a, Tx(chain, p)) # {}
<1> DEFINE involved == {p \in Range(Places(chain)) :
                          p.height \in heights /\ RolesForAccountInTx(a, Tx(chain, p)) # {}}
           newest == NewestFirst(Among(Places(chain), involved))
           items == CollectAccountTxHistory(chain, a, heights)
<1>1. \A p : p \in involved <=> /\ p \in Everywhere(chain) /\ p.height \in heights
                                /\ RolesForAccountInTx(a, Tx(chain, p)) # {}
  BY PlacesAre
<1>2. items = [i \in DOMAIN newest |-> Item(chain, a, newest[i])]
  BY DEF CollectAccountTxHistory
<1> HIDE DEF involved, items
<1>3. newest \in Seq(Place) /\ Falling(newest) /\ \A p : p \in Range(newest) <=> p \in Everywhere(chain) /\ p \in involved
  BY NewestOf
<1> HIDE DEF newest
<1>4. DOMAIN newest = 1..Len(newest) /\ \A i \in 1..Len(newest) : newest[i] \in Place
  BY <1>3, LenProperties, ElementOfSeq
<1>5. Shows(items, newest)
  BY <1>2, <1>4, ItemAt DEF Shows
<1> QED BY <1>1, <1>3, <1>5 DEF items

\* From its rows, the node shows those of the window.
LEMMA IndexedShows ==
  ASSUME NEW chain, NEW a, NEW rows \in Seq(Place), Falling(rows), NEW from
  PROVE  \E places \in Seq(Place) :
           /\ Falling(places) /\ Shows(CollectIndexedAccountTxHistory(chain, a, rows, from), places)
           /\ \A p : p \in Range(places) <=> p \in Range(rows) /\ p.height >= from
<1> DEFINE W == {p \in Range(rows) : p.height >= from}
           inside == Among(rows, W)
           items == CollectIndexedAccountTxHistory(chain, a, rows, from)
           shown(p) == LET item == Item(chain, a, p)
                       IN  [item EXCEPT !.roles = IF @ \ {"created", "access_list"} = {} THEN {"contract"}
                                                  ELSE @ \ {"created", "access_list"}]
<1>1. items = [i \in DOMAIN inside |-> shown(inside[i])]
  BY DEF CollectIndexedAccountTxHistory
<1>2. inside \in Seq(Place) /\ \A p : p \in Range(inside) <=> p \in Range(rows) /\ p \in W
  BY AmongIs
<1>3. Falling(inside)
  BY AmongOrdered
<1>4. \A p : p \in Range(inside) <=> p \in Range(rows) /\ p.height >= from
  BY <1>2
<1>5. ASSUME NEW p \in Place PROVE PlaceOf(shown(p)) = p
  <2> DEFINE item == Item(chain, a, p)
             its == item.roles
             told == its \ {"created", "access_list"}
             roles == IF told = {} THEN {"contract"} ELSE told
  <2>1. shown(p) = [item EXCEPT !.roles = roles]
    OBVIOUS
  <2>2. PlaceOf(WithRoles(item, roles)) = p
    <3> HIDE DEF roles
    <3> QED BY ItemAt
  <2>3. shown(p) = WithRoles(item, roles)
    BY <2>1 DEF WithRoles
  <2> HIDE DEF shown, roles, item
  <2> QED BY <2>2, <2>3
<1> HIDE DEF inside, items, shown
<1>6. DOMAIN inside = 1..Len(inside) /\ \A i \in 1..Len(inside) : inside[i] \in Place
  BY <1>2, LenProperties, ElementOfSeq
<1>7. DOMAIN items = 1..Len(inside) /\ \A i \in 1..Len(inside) : items[i] = shown(inside[i])
  BY <1>1, <1>6
<1>8. Shows(items, inside)
  BY <1>5, <1>6, <1>7 DEF Shows
<1> QED BY <1>2, <1>3, <1>4, <1>8 DEF items

\* Who takes part in a transaction has a role in it.
LEMMA TakesRole ==
  ASSUME NEW tx \in Transactions, NEW a, TakesPart(tx, a)
  PROVE  RolesForAccountInTx(a, tx) # {}
<1> DEFINE played == {r \in {"sender", "recipient", "contract", "created"} :
             CASE r = "sender" -> tx.sender = a
               [] r = "recipient" -> Touches(tx, {"Transfer"}, a)
               [] r = "contract" -> Touches(tx, Calls, a)
               [] r = "created" -> Created(tx) = a}
<1>1. RolesForAccountInTx(a, tx) = IF played = {} /\ a \in tx.listed THEN {"access_list"} ELSE played
  BY DEF RolesForAccountInTx
<1>2. tx.sender = a => "sender" \in played
  OBVIOUS
<1>3. Touches(tx, {"Transfer"}, a) => "recipient" \in played
  OBVIOUS
<1>4. Touches(tx, Calls, a) => "contract" \in played
  OBVIOUS
<1> HIDE DEF played
<1>5. Lists(tx, a)
  BY ListsTakesPart
<1>6. Lists(tx, a) => tx.sender = a \/ Touches(tx, {"Transfer"}, a) \/ Touches(tx, Calls, a)
  BY DEF Lists, Touches
<1>7. played # {}
  BY <1>2, <1>3, <1>4, <1>5, <1>6
<1> QED BY <1>1, <1>7

\* What a node that answers may answer.
LEMMA AnswersHistory ==
  ASSUME NEW node, NEW a, NEW window, NEW preferScan \in BOOLEAN, HistoryOf(node, a, window, preferScan) # Absent
  PROVE  LET indexed == FetchIndexedWindow(node, a, From(node, window))
             scanned == CollectAccountTxHistory(node.chain, a, (From(node, window)..node.head) \ node.missing)
             got == HistoryOf(node, a, window, preferScan)
         IN  \/ indexed # <<>> /\ got = [source |-> "indexed", items |-> indexed]
             \/ got = [source |-> "scan", items |-> scanned]
<1> DEFINE indexed == FetchIndexedWindow(node, a, From(node, window))
           scanned == CollectAccountTxHistory(node.chain, a, (From(node, window)..node.head) \ node.missing)
           got == HistoryOf(node, a, window, preferScan)
<1>1. got = CASE node.down -> Absent
          [] ~node.down /\ ~preferScan /\ indexed # <<>> -> [source |-> "indexed", items |-> indexed]
          [] ~node.down /\ (preferScan \/ indexed = <<>>) /\ node.breaks -> Absent
          [] OTHER -> [source |-> "scan", items |-> scanned]
  BY DEF HistoryOf
<1>2. got # Absent
  OBVIOUS
<1> HIDE DEF indexed, scanned, got
<1>3. \/ indexed # <<>> /\ got = [source |-> "indexed", items |-> indexed]
      \/ got = [source |-> "scan", items |-> scanned]
  BY <1>1, <1>2
<1> QED BY <1>3 DEF indexed, scanned, got

\* Falling places that are shown: the items are in their order, and show what they are.
LEMMA ShownAre ==
  ASSUME NEW items, NEW places \in Seq(Place), Falling(places), Shows(items, places)
  PROVE  /\ \A i, j \in DOMAIN items : i < j => Earlier(items[j], items[i])
         /\ {PlaceOf(items[i]) : i \in DOMAIN items} = Range(places)
         /\ Cardinality(Range(places)) = Len(places)
<1>1. DOMAIN items = 1..Len(places) /\ \A i \in 1..Len(places) : PlaceOf(items[i]) = places[i]
  BY DEF Shows
<1>2. \A i \in 1..Len(places) : items[i].height = places[i].height /\ items[i].index = places[i].index
  <2> SUFFICES ASSUME NEW i \in 1..Len(places)
               PROVE  items[i].height = places[i].height /\ items[i].index = places[i].index
    OBVIOUS
  <2>1. PlaceOf(items[i]) = places[i]
    BY <1>1
  <2>2. PlaceOf(items[i]).height = items[i].height /\ PlaceOf(items[i]).index = items[i].index
    BY DEF PlaceOf
  <2> QED BY <2>1, <2>2
<1>3. \A i, j \in DOMAIN items : i < j => Earlier(items[j], items[i])
  BY <1>1, <1>2 DEF Falling, Earlier
<1>4. \A p : p \in {PlaceOf(items[i]) : i \in DOMAIN items} <=> p \in Range(places)
  <2>1. \A p : p \in Range(places) <=> \E i \in 1..Len(places) : places[i] = p
    BY RangeOf
  <2>2. \A p : p \in {PlaceOf(items[i]) : i \in DOMAIN items} <=> \E i \in DOMAIN items : p = PlaceOf(items[i])
    OBVIOUS
  <2> QED BY <1>1, <2>1, <2>2
<1>5. Cardinality(Range(places)) = Len(places)
  BY RisingDistinct
<1> QED BY <1>3, <1>4, <1>5

\* The history is of the window.
LEMMA WindowShown ==
  ASSUME NEW node \in Nodes, NEW a, NEW window \in Nat \ {0}, NEW got,
         lookup = [of |-> "history", node |-> node, account |-> a, window |-> window, got |-> got],
         NEW preferScan \in BOOLEAN, got = HistoryOf(node, a, window, preferScan), got # Absent
  PROVE  HistoryOfTheWindow
<1> DEFINE items == got.items
           chain == node.chain
           shown == {PlaceOf(items[i]) : i \in DOMAIN items}
           taking == PartOf(chain, a)
           seen == InWindow(node, window)
           from == From(node, window)
           cap == PageCap * PageSize
<1>1. lookup.node = node /\ lookup.account = a /\ lookup.window = window /\ lookup.got = got
  OBVIOUS
<1> SUFFICES /\ \A i, j \in DOMAIN items : i < j => Earlier(items[j], items[i])
             /\ got.source = "scan" => taking \cap seen \subseteq shown /\ shown \subseteq seen
             /\ got.source = "indexed" =>
                  /\ shown \subseteq {p \in taking : p.height >= from}
                  /\ \A p \in taking \ shown : p.height < from \/ Cardinality(shown) = cap
  BY <1>1 DEF HistoryOfTheWindow
<1>2. chain \in Seq(Seq(Transactions)) /\ node.head \in Int /\ from \in Nat
  BY NodeIs
<1>3. \/ FetchIndexedWindow(node, a, from) # <<>> /\ got = [source |-> "indexed", items |-> FetchIndexedWindow(node, a, from)]
      \/ got = [source |-> "scan", items |-> CollectAccountTxHistory(chain, a, (from..node.head) \ node.missing)]
  BY AnswersHistory
<1>4. \A p \in Everywhere(chain) : p \in Place /\ Tx(chain, p) \in Transactions
  BY <1>2, EverywhereIs
<1> HIDE DEF chain, from
<1>5. CASE got = [source |-> "scan", items |-> CollectAccountTxHistory(chain, a, (from..node.head) \ node.missing)]
  <2> DEFINE heights == (from..node.head) \ node.missing
  <2>1. PICK places \in Seq(Place) :
           /\ Falling(places) /\ Shows(CollectAccountTxHistory(chain, a, heights), places)
           /\ \A p : p \in Range(places) <=>
                /\ p \in Everywhere(chain) /\ p.height \in heights
                /\ RolesForAccountInTx(a, Tx(chain, p)) # {}
    <3> HIDE DEF heights
    <3> QED BY <1>2, ScanShows
  <2>2. items = CollectAccountTxHistory(chain, a, heights) /\ got.source = "scan"
    BY <1>5
  <2>3. \A p : p \in seen <=> p \in Everywhere(chain) /\ p.height \in heights
    BY DEF InWindow, chain, from
  <2>4. \A p \in taking : RolesForAccountInTx(a, Tx(chain, p)) # {} /\ p \in Everywhere(chain)
    BY <1>4, TakesRole DEF PartOf
  <2> HIDE DEF heights, seen, taking, items
  <2>5. (\A i, j \in DOMAIN items : i < j => Earlier(items[j], items[i])) /\ shown = Range(places)
    BY <2>1, <2>2, ShownAre
  <2> HIDE DEF shown
  <2>6. taking \cap seen \subseteq shown
    BY <2>1, <2>3, <2>4, <2>5
  <2>7. shown \subseteq seen
    BY <2>1, <2>3, <2>5
  <2> QED BY <2>2, <2>5, <2>6, <2>7
<1>6. CASE /\ FetchIndexedWindow(node, a, from) # <<>>
           /\ got = [source |-> "indexed", items |-> FetchIndexedWindow(node, a, from)]
  <2> DEFINE rows == Indexed(chain, a)
             kept == RowsKept(node, rows, from)
             n == Len(rows)
  <2>1. rows \in Seq(Place) /\ Falling(rows) /\ Range(rows) = taking
    BY <1>2, IndexedIs
  <2>2. FetchIndexedWindow(node, a, from) = CollectIndexedAccountTxHistory(chain, a, kept, from)
    BY DEF FetchIndexedWindow, chain
  <2>3. kept # <<>>
    <3> SUFFICES ASSUME kept = <<>> PROVE FALSE
      OBVIOUS
    <3> DEFINE none == <<>>
               f == FetchIndexedWindow(node, a, from)
    <3>1. f = CollectIndexedAccountTxHistory(chain, a, none, from)
      BY <2>2
    <3>2. none \in Seq(Place) /\ Falling(none)
      BY DEF Falling
    <3>3. PICK places \in Seq(Place) : Shows(f, places) /\ \A p : p \in Range(places) => p \in Range(none)
      <4> HIDE DEF none, f
      <4> QED BY <3>1, <3>2, IndexedShows
    <3>4. Range(none) = {}
      BY DEF Range
    <3>5. Len(places) = 0
      <4>1. Len(places) \in Nat /\ \A i \in 1..Len(places) : places[i] \in Range(places)
        BY LenProperties, RangeOf
      <4>2. \A i \in 1..Len(places) : FALSE
        BY <3>3, <3>4, <4>1
      <4>3. Len(places) # 0 => 1 \in 1..Len(places)
        BY <4>1
      <4> QED BY <4>2, <4>3
    <3>6. DOMAIN f = {}
      BY <3>3, <3>5 DEF Shows
    <3>7. f = <<>>
      <4>1. f = [i \in DOMAIN f |-> f[i]]
        BY <3>1 DEF CollectIndexedAccountTxHistory
      <4> HIDE DEF f
      <4> QED BY <3>6, <4>1
    <3> QED BY <1>6, <3>7
  <2> HIDE DEF rows, kept, n
  <2>4. PICK k \in 0..n : KeptUpTo(rows, kept, k, from)
    BY <1>2, <2>1, <2>3, KeptIs DEF kept, n
  <2>5. /\ kept = SubSeq(rows, 1, k)
        /\ Filled(rows, k, from) \/ \A j \in 1..n : j > k => rows[j].height < from
    BY <2>4 DEF KeptUpTo, n
  <2>6. kept \in Seq(Place) /\ Len(kept) = k /\ \A i \in 1..k : kept[i] = rows[i] /\ i \in 1..n
    BY <2>1, <2>5, FirstOf DEF n
  <2>7. Falling(kept)
    BY <2>1, <2>6 DEF Falling, n
  <2>8. PICK places \in Seq(Place) :
           /\ Falling(places) /\ Shows(CollectIndexedAccountTxHistory(chain, a, kept, from), places)
           /\ \A p : p \in Range(places) <=> p \in Range(kept) /\ p.height >= from
    BY <2>6, <2>7, IndexedShows
  <2>9. items = CollectIndexedAccountTxHistory(chain, a, kept, from) /\ got.source = "indexed"
    BY <1>6, <2>2
  <2> HIDE DEF items, taking
  <2>10. /\ \A i, j \in DOMAIN items : i < j => Earlier(items[j], items[i])
         /\ shown = Range(places) /\ Cardinality(Range(places)) = Len(places)
    BY <2>8, <2>9, ShownAre
  <2> HIDE DEF shown
  <2>11. \A p : p \in Range(kept) <=> \E i \in 1..k : rows[i] = p
    <3>1. \A p : p \in Range(kept) <=> \E i \in 1..k : kept[i] = p
      BY <2>6, RangeOf
    <3> QED BY <2>6, <3>1
  <2>12. \A p : p \in taking <=> \E i \in 1..n : rows[i] = p
    BY <2>1, RangeOf DEF n
  <2>13. shown \subseteq {p \in taking : p.height >= from}
    BY <2>6, <2>8, <2>10, <2>11, <2>12
  <2>14. ASSUME NEW p \in taking \ shown PROVE p.height < from \/ Cardinality(shown) = cap
    <3>1. PICK j \in 1..n : rows[j] = p
      BY <2>12
    <3>2. p \in Place
      BY <2>1, <3>1, ElementOfSeq DEF n
    <3>3. n \in Nat
      BY <2>1, LenProperties DEF n
    <3>4. CASE Filled(rows, k, from)
      <4>1. k = cap /\ \A i \in 1..k : rows[i].height >= from
        BY <3>4 DEF Filled
      <4>2. Range(places) = Range(kept)
        <5>1. \A q : q \in Range(kept) => q.height >= from
          BY <2>11, <4>1
        <5>2. \A q : q \in Range(places) <=> q \in Range(kept)
          BY <2>8, <5>1
        <5> QED BY <5>2
      <4>3. Cardinality(Range(kept)) = k
        BY <2>6, <2>7, RisingDistinct
      <4> QED BY <2>10, <4>1, <4>2, <4>3
    <3>5. CASE \A i \in 1..n : i > k => rows[i].height < from
      <4>1. CASE j > k
        BY <3>1, <3>5, <4>1
      <4>2. CASE ~(j > k)
        <5>1. j \in 1..k
          BY <3>3, <4>2
        <5>2. p \in Range(kept)
          BY <2>11, <3>1, <5>1
        <5>3. ~(p.height >= from)
          BY <2>8, <2>10, <5>2
        <5>4. p.height \in Int /\ from \in Int
          BY <1>2, <3>2 DEF Place
        <5> QED BY <5>3, <5>4
      <4> QED BY <4>1, <4>2
    <3> QED BY <2>5, <3>4, <3>5
  <2> QED BY <2>9, <2>10, <2>13, <2>14
<1> QED BY <1>3, <1>5, <1>6

-----------------------------------------------------------------------------
\* Nothing found is none of what can be found.
LEMMA AbsentIsNone ==
  /\ Absent # "mint" /\ Absent \notin Place /\ Absent \notin Find
  /\ Absent \notin Seq(Place) /\ Absent \notin Seq(Int) /\ Absent \notin Int
<1>1. Absent \notin Calldata /\ Absent \notin Int
  BY SearchAssumption
<1>2. Absent \notin Place /\ Absent \notin Find /\ Absent \notin Seq(Place) /\ Absent \notin Seq(Int)
  BY SearchAssumption
<1>3. Absent # "mint"
  BY <1>1 DEF Calldata
<1> QED BY <1>1, <1>2, <1>3

\* All rows of an account: some of the newest, and all of them if none fails and they are not
\* too many.
LEMMA AllRowsAre ==
  ASSUME NEW node \in Nodes, NEW a
  PROVE  /\ AllRows(node, a) # Absent =>
              /\ AllRows(node, a) \in Seq(Place) /\ Falling(AllRows(node, a))
              /\ Range(AllRows(node, a)) \subseteq PartOf(node.chain, a)
         /\ ListedWhole(node, a) => AllRows(node, a) # Absent /\ Range(AllRows(node, a)) = PartOf(node.chain, a)
<1> DEFINE rows == Indexed(node.chain, a)
           n == Len(rows)
           ends == {p \in 1..PageCap : p <= LastPage(rows)}
           read == {p \in ends : \A q \in 1..p : q \notin node.badPages}
           k == Min({Max(read) * PageSize, Len(rows)})
<1>1. node.chain \in Seq(Seq(Transactions)) /\ PageCap \in Nat \ {0} /\ PageSize \in Nat \ {0}
  BY NodeIs, Caps
<1>2. rows \in Seq(Place) /\ Falling(rows) /\ Range(rows) = PartOf(node.chain, a)
      /\ Cardinality(PartOf(node.chain, a)) = n
  BY <1>1, IndexedIs
<1>3. AllRows(node, a) = IF read = {} THEN Absent ELSE SubSeq(rows, 1, k)
  BY DEF AllRows
<1>4. n \in Nat
  BY <1>2, LenProperties
<1>e. \A p : p \in read <=> p \in 1..PageCap /\ p <= LastPage(rows) /\ \A q \in 1..p : q \notin node.badPages
  OBVIOUS
<1>l. LastPage(rows) \in Nat \ {0}
  BY <1>2, LastPageIs
<1> DEFINE m == Max(read)
           b == m * PageSize
<1> HIDE DEF rows, n, read
<1>5. ASSUME read # {}
      PROVE  /\ m \in read /\ (\A y \in read : y <= m) /\ b \in Nat
             /\ k = (IF b <= n THEN b ELSE n) /\ k \in 0..n
  <2>1. read \subseteq 0..PageCap
    <3>1. \A p \in 1..PageCap : p \in 0..PageCap
      OBVIOUS
    <3> QED BY <1>e, <3>1
  <2>2. m \in read /\ \A y \in read : y <= m
    <3>1. PageCap \in Nat
      BY <1>1
    <3> QED BY <1>5, <2>1, <3>1, MaxIs
  <2>3. m \in Nat
    BY <1>e, <2>2
  <2> HIDE DEF m
  <2>4. b \in Nat
    BY <1>1, <2>3, Products
  <2>5. k = Min({b, n})
    BY DEF m, n
  <2> HIDE DEF b, k
  <2>6. k = IF b <= n THEN b ELSE n
    BY <1>4, <2>4, <2>5, MinOfTwo
  <2>7. k \in 0..n
    BY <1>4, <2>4, <2>6
  <2> QED BY <2>2, <2>4, <2>6, <2>7
<1> HIDE DEF k
<1>6. ASSUME read # {}
      PROVE  /\ AllRows(node, a) = SubSeq(rows, 1, k) /\ SubSeq(rows, 1, k) \in Seq(Place)
             /\ Falling(SubSeq(rows, 1, k)) /\ Range(SubSeq(rows, 1, k)) \subseteq Range(rows)
  <2> DEFINE s == SubSeq(rows, 1, k)
  <2>1. k \in 0..n
    BY <1>5, <1>6
  <2>2. s \in Seq(Place) /\ Len(s) = k /\ \A i \in 1..k : s[i] = rows[i] /\ i \in 1..n
    BY <1>2, <2>1, FirstOf DEF n
  <2>3. AllRows(node, a) = s
    BY <1>3, <1>6
  <2> HIDE DEF s
  <2>4. Falling(s)
    BY <1>2, <2>2 DEF Falling, n
  <2>5. \A p : p \in Range(s) <=> \E i \in 1..k : s[i] = p
    BY <2>2, RangeOf
  <2>6. \A p : p \in Range(rows) <=> \E i \in 1..n : rows[i] = p
    BY <1>2, RangeOf DEF n
  <2>7. Range(s) \subseteq Range(rows)
    BY <2>2, <2>5, <2>6
  <2> QED BY <2>2, <2>3, <2>4, <2>7 DEF s
<1>7. ASSUME ListedWhole(node, a) PROVE AllRows(node, a) # Absent /\ Range(AllRows(node, a)) = Range(rows)
  <2>1. n <= PageCap * PageSize /\ node.badPages = {}
    BY <1>2, <1>7 DEF ListedWhole
  <2>2. 1 \in read
    BY <1>1, <1>e, <1>l, <2>1
  <2>3. m \in read /\ (\A y \in read : y <= m) /\ k = IF b <= n THEN b ELSE n
    BY <1>5, <2>2
  <2>4. m \in 1..PageCap
    BY <1>e, <2>3
  <2> HIDE DEF m
  <2>5. n <= b
    <3>1. CASE m = PageCap
      BY <2>1, <3>1
    <3>2. CASE m # PageCap
      <4>1. m + 1 \in 1..PageCap /\ ~(m + 1 <= m) /\ m \in Nat
        BY <1>1, <2>4, <3>2
      <4>2. ~(m + 1 <= LastPage(rows))
        BY <1>e, <2>1, <2>3, <4>1
      <4>3. m >= LastPage(rows)
        BY <1>l, <4>1, <4>2
      <4> QED BY <1>2, <4>1, <4>3, LastPageIs DEF n
    <3> QED BY <3>1, <3>2
  <2>6. k = n
    <3>1. b \in Nat
      BY <1>1, <2>4, Products
    <3> HIDE DEF b
    <3> QED BY <1>4, <2>3, <2>5, <3>1
  <2>7. SubSeq(rows, 1, k) = rows
    BY <1>2, <2>6, SubSeqFull DEF n
  <2>8. AllRows(node, a) = rows
    BY <1>6, <2>2, <2>7
  <2> QED BY <1>2, <2>8, AbsentIsNone
<1> QED BY <1>2, <1>3, <1>6, <1>7

\* The deploys of an account that a node lists, newest first.
DeploysOf(chain, a) == {p \in Everywhere(chain) : Deploys(Tx(chain, p)) /\ Tx(chain, p).sender = a}

\* The deployments read of an account are deployments it sent, newest first, and all of them when
\* the list was read whole.
LEMMA DeployRowsAre ==
  ASSUME NEW node \in Nodes, NEW a
  PROVE  /\ DeployRows(node, a) \in Seq(Place) /\ Falling(DeployRows(node, a))
         /\ Range(DeployRows(node, a)) \subseteq DeploysOf(node.chain, a)
         /\ Len(DeployRows(node, a)) = Cardinality(Range(DeployRows(node, a)))
         /\ ListedWhole(node, a) => Range(DeployRows(node, a)) = DeploysOf(node.chain, a)
<1> DEFINE rows == AllRows(node, a)
           W == {p \in Range(rows) : Tx(node.chain, p).sender = a /\ Deploys(Tx(node.chain, p))}
           ds == DeployRows(node, a)
           none == <<>>
<1>1. ds = IF rows = Absent THEN none ELSE Among(rows, W)
  BY DEF DeployRows
<1>2. /\ rows # Absent => rows \in Seq(Place) /\ Falling(rows) /\ Range(rows) \subseteq PartOf(node.chain, a)
      /\ ListedWhole(node, a) => rows # Absent /\ Range(rows) = PartOf(node.chain, a)
  BY AllRowsAre
<1>3. CASE rows = Absent
  <2>1. ds = none /\ none \in Seq(Place) /\ Len(none) = 0 /\ Range(none) = {} /\ Falling(none)
    BY <1>1, <1>3 DEF Range, Falling
  <2>2. Cardinality({}) = 0
    BY FS_EmptySet
  <2> HIDE DEF ds, none, rows
  <2> QED BY <1>2, <1>3, <2>1, <2>2 DEF ds
<1>4. CASE rows # Absent
  <2> HIDE DEF rows
  <2>1. rows \in Seq(Place) /\ Falling(rows) /\ Range(rows) \subseteq PartOf(node.chain, a)
    BY <1>2, <1>4
  <2>2. ds = Among(rows, W)
    BY <1>1, <1>4
  <2>3. \A p : p \in W <=> p \in Range(rows) /\ Tx(node.chain, p).sender = a /\ Deploys(Tx(node.chain, p))
    OBVIOUS
  <2> HIDE DEF ds, W
  <2>4. ds \in Seq(Place) /\ \A p : p \in Range(ds) <=> p \in Range(rows) /\ p \in W
    BY <2>1, <2>2, AmongIs
  <2>5. Falling(ds)
    BY <2>1, <2>2, AmongOrdered
  <2>6. Cardinality(Range(ds)) = Len(ds)
    BY <2>4, <2>5, RisingDistinct
  <2>7. Range(ds) \subseteq DeploysOf(node.chain, a)
    BY <2>1, <2>3, <2>4 DEF DeploysOf, PartOf
  <2>8. ASSUME ListedWhole(node, a) PROVE DeploysOf(node.chain, a) \subseteq Range(ds)
    <3>1. DeploysOf(node.chain, a) \subseteq PartOf(node.chain, a)
      BY DEF DeploysOf, PartOf, TakesPart
    <3> QED BY <1>2, <2>3, <2>4, <2>8, <3>1 DEF DeploysOf
  <2> QED BY <2>4, <2>5, <2>6, <2>7, <2>8 DEF ds
<1> QED BY <1>3, <1>4

\* The calls of a contract that a node lists, newest first.
CallsOf(chain, a) == {p \in Everywhere(chain) : Tx(chain, p).kind \in Calls /\ Tx(chain, p).parts[1].to = a}

\* The calls read of a contract are calls made of it, newest first, and all of them when the list
\* was read whole.
LEMMA CallsAre ==
  ASSUME NEW node \in Nodes, NEW a, AllRows(node, a) # Absent
  PROVE  /\ CallsTo(node, AllRows(node, a), a) \in Seq(Place) /\ Falling(CallsTo(node, AllRows(node, a), a))
         /\ Range(CallsTo(node, AllRows(node, a), a)) \subseteq CallsOf(node.chain, a)
         /\ ListedWhole(node, a) => Range(CallsTo(node, AllRows(node, a), a)) = CallsOf(node.chain, a)
<1> DEFINE rows == AllRows(node, a)
           chain == node.chain
           W == {p \in Range(rows) : LET tx == Tx(node.chain, p) IN tx.kind \in Calls /\ tx.parts[1].to = a}
           cs == CallsTo(node, rows, a)
<1>1. rows \in Seq(Place) /\ Falling(rows) /\ Range(rows) \subseteq PartOf(chain, a)
      /\ (ListedWhole(node, a) => Range(rows) = PartOf(chain, a))
  BY AllRowsAre
<1>2. cs = Among(rows, W)
  BY DEF CallsTo
<1>3. \A p : p \in W <=> p \in Range(rows) /\ Tx(chain, p).kind \in Calls /\ Tx(chain, p).parts[1].to = a
  OBVIOUS
<1>4. \A p \in Everywhere(chain) : Tx(chain, p) \in Transactions
  BY NodeIs, EverywhereIs
<1>5. ASSUME NEW tx \in Transactions, tx.kind \in Calls, tx.parts[1].to = a PROVE TakesPart(tx, a)
  <2>1. tx.parts \in Seq(Parts) /\ tx.parts # <<>>
    BY <1>5 DEF Transactions
  <2>2. Len(tx.parts) \in Nat \ {0}
    BY <2>1, EmptySeq
  <2>3. 1 \in 1..Len(tx.parts)
    BY <2>2
  <2>4. tx.parts[1] \in Range(tx.parts)
    BY <2>1, <2>3, RangeOf
  <2> QED BY <1>5, <2>4 DEF TakesPart
<1> HIDE DEF rows, cs, W, chain
<1>6. cs \in Seq(Place) /\ \A p : p \in Range(cs) <=> p \in Range(rows) /\ p \in W
  BY <1>1, <1>2, AmongIs
<1>7. Falling(cs)
  BY <1>1, <1>2, AmongOrdered
<1>8. Range(cs) \subseteq CallsOf(chain, a)
  BY <1>1, <1>3, <1>6 DEF CallsOf, PartOf
<1>9. ASSUME ListedWhole(node, a) PROVE CallsOf(chain, a) \subseteq Range(cs)
  <2>1. CallsOf(chain, a) \subseteq PartOf(chain, a)
    BY <1>4, <1>5 DEF CallsOf, PartOf
  <2> QED BY <1>1, <1>3, <1>6, <1>9, <2>1 DEF CallsOf
<1> QED BY <1>6, <1>7, <1>8, <1>9 DEF rows, cs, chain

-----------------------------------------------------------------------------
\* What is done step by step is done.
Goes(f, start, step, n) == f[0] = start /\ \A k \in 1..n : f[k] = step[k][f[k - 1]]

\* A walk of m steps from a start has a value after each of them.
LEMMA StepByStep ==
  ASSUME NEW S, NEW start \in S, NEW m \in Nat, NEW step \in [1..m -> [S -> S]]
  PROVE  \E f \in [0..m -> S] : Goes(f, start, step, m)
<1> DEFINE T == {n \in Nat : n <= m => \E f \in [0..n -> S] : Goes(f, start, step, n)}
<1>1. 0 \in T
  <2> DEFINE f == [i \in 0..0 |-> start]
  <2>1. f \in [0..0 -> S] /\ f[0] = start
    OBVIOUS
  <2>2. 1..0 = {}
    OBVIOUS
  <2> HIDE DEF f
  <2>3. Goes(f, start, step, 0)
    BY <2>1, <2>2 DEF Goes
  <2> QED BY <2>1, <2>3
<1>2. ASSUME NEW n \in T PROVE n + 1 \in T
  <2>1. CASE ~(n + 1 <= m)
    BY <2>1
  <2>2. CASE n + 1 <= m
    <3>1. n \in Nat /\ n <= m /\ n + 1 \in 1..m
      BY <2>2
    <3>2. PICK f \in [0..n -> S] : Goes(f, start, step, n)
      BY <3>1
    <3> DEFINE last == step[n + 1][f[n]]
               g == [i \in 0..(n + 1) |-> IF i <= n THEN f[i] ELSE last]
    <3>3. f[n] \in S /\ last \in S
      <4>1. f[n] \in S /\ step[n + 1] \in [S -> S]
        BY <3>1
      <4> QED BY <4>1
    <3>4. \A i \in 0..n : f[i] \in S
      OBVIOUS
    <3> HIDE DEF last
    <3>5. g \in [0..(n + 1) -> S]
      BY <3>1, <3>3, <3>4
    <3>6. \A i \in 0..n : g[i] = f[i]
      BY <3>1
    <3>7. g[n + 1] = last
      BY <3>1
    <3> HIDE DEF g
    <3>8. ASSUME NEW i \in 1..(n + 1) PROVE g[i] = step[i][g[i - 1]]
      <4>1. CASE i <= n
        <5>1. i \in 0..n /\ i - 1 \in 0..n /\ i \in 1..n
          BY <3>1, <4>1
        <5> QED BY <3>2, <3>6, <5>1 DEF Goes
      <4>2. CASE ~(i <= n)
        <5>1. i = n + 1 /\ n \in 0..n /\ i - 1 = n
          BY <3>1, <4>2
        <5> QED BY <3>6, <3>7, <5>1 DEF last
      <4> QED BY <4>1, <4>2
    <3>9. g[0] = start
      BY <3>1, <3>2, <3>6 DEF Goes
    <3>10. Goes(g, start, step, n + 1)
      BY <3>8, <3>9 DEF Goes
    <3> QED BY <3>1, <3>5, <3>10
  <2> QED BY <2>1, <2>2
<1>3. T = Nat
  <2> HIDE DEF T
  <2>1. T \subseteq Nat
    BY DEF T
  <2> QED BY <1>1, <1>2, <2>1, Successors
<1>4. m \in T /\ m <= m
  BY <1>3
<1> QED BY <1>4

\* What a look at one deploy makes of what was found so far.
Founds == [fetched: SUBSET Nat, cut: SUBSET Int, found: Find \cup {Absent}]
Looks == [deployer: Int, at: Place]
FindOf(node, look) ==
  [deployer |-> look.deployer, height |-> look.at.height, index |-> look.at.index, code |-> Tx(node.chain, look.at).code]
Unfound == [fetched |-> {}, cut |-> {}, found |-> Absent]
Genuine(node, look) == look \in Looks /\ look.at \in DeploysOf(node.chain, look.deployer)
Hits(node, target, look) == Predicted(Tx(node.chain, look.at)) = target
With(heights, look) == heights \cup {look.at.height}
Same(one, other) == one = other
Free(node, acc) ==
  acc.found = Absent /\ acc.cut = {} /\ ~(Cardinality(acc.fetched) >= BlockCap) /\ node.badBlocks = {}
Looked(node, target, acc, look) == LookAt(node, target, acc, look.deployer, look.at)

\* A place the search looks at gives a find.
LEMMA FindIs ==
  ASSUME NEW node \in Nodes, NEW look, Genuine(node, look)
  PROVE  FindOf(node, look) \in Find /\ FindOf(node, look) # Absent
<1>1. look.deployer \in Int /\ look.at \in Place /\ look.at \in Everywhere(node.chain)
  BY DEF Genuine, Looks, DeploysOf
<1>2. Tx(node.chain, look.at) \in Transactions
  BY <1>1, NodeIs, EverywhereIs
<1>3. Tx(node.chain, look.at).code \in Int
  BY <1>2 DEF Transactions
<1>4. look.at.height \in Nat /\ look.at.index \in Nat
  BY <1>1 DEF Place
<1>5. FindOf(node, look) \in Find
  BY <1>1, <1>3, <1>4 DEF FindOf, Find
<1> QED BY <1>5, AbsentIsNone

\* One look of the search: a find stays; a hit that may be read is found; what is no hit is only
\* counted as read.
LEMMA LookedIs ==
  ASSUME NEW node \in Nodes, NEW target, NEW acc \in Founds, NEW look, Genuine(node, look),
         NEW next, next = Looked(node, target, acc, look)
  PROVE  /\ next \in Founds
         /\ acc.found # Absent => Same(next, acc)
         /\ acc.found = Absent /\ next.found # Absent => next.found = FindOf(node, look) /\ Hits(node, target, look)
         /\ Free(node, acc) /\ Hits(node, target, look) => next.found # Absent
         /\ Free(node, acc) /\ ~Hits(node, target, look) =>
              Same(next.cut, acc.cut) /\ Same(next.fetched, With(acc.fetched, look))
<1> DEFINE d == look.deployer
           p == look.at
           known == p.height \in acc.fetched
           find == FindOf(node, look)
           hit == p.height \notin node.badBlocks /\ Hits(node, target, look)
           stopped == [acc EXCEPT !.cut = @ \cup {d}]
           gone == [acc EXCEPT !.fetched = @ \cup {p.height}, !.found = IF hit THEN find ELSE @]
<1>1. next = IF acc.found # Absent \/ d \in acc.cut THEN acc
             ELSE IF ~known /\ Cardinality(acc.fetched) >= BlockCap THEN stopped ELSE gone
  BY DEF Looked, LookAt, Hits, FindOf
<1>2. d \in Int /\ p \in Place /\ p.height \in Nat
  BY DEF Genuine, Looks, Place
<1>3. find \in Find /\ find # Absent
  BY FindIs
<1>4. acc.fetched \in SUBSET Nat /\ acc.cut \in SUBSET Int /\ acc.found \in Find \cup {Absent}
      /\ acc = [fetched |-> acc.fetched, cut |-> acc.cut, found |-> acc.found]
  BY DEF Founds
<1> HIDE DEF find, d, known, hit
<1>5. stopped \in Founds /\ stopped.found = acc.found
  BY <1>2, <1>4 DEF Founds
<1>6. gone \in Founds /\ gone.found = (IF hit THEN find ELSE acc.found) /\ gone.cut = acc.cut
      /\ gone.fetched = acc.fetched \cup {p.height}
  BY <1>2, <1>3, <1>4 DEF Founds
<1> HIDE DEF stopped, gone, p
<1>7. next \in Founds
  BY <1>1, <1>5, <1>6
<1>8. acc.found # Absent => next = acc
  BY <1>1
<1>9. ASSUME acc.found = Absent, next.found # Absent PROVE next.found = find /\ Hits(node, target, look)
  BY <1>1, <1>5, <1>6, <1>9 DEF hit
<1>10. ASSUME Free(node, acc)
       PROVE  /\ Hits(node, target, look) => next.found # Absent
              /\ ~Hits(node, target, look) => next.cut = acc.cut /\ next.fetched = acc.fetched \cup {p.height}
  <2>1. next = gone
    BY <1>1, <1>10 DEF Free
  <2>2. hit <=> Hits(node, target, look)
    BY <1>10 DEF hit, Free
  <2> QED BY <1>3, <1>6, <2>1, <2>2
<1> QED BY <1>7, <1>8, <1>9, <1>10 DEF find, p, Same, With

\* A search looks at one deploy after the other.
Searching(f, node, target, looks) ==
  /\ f \in [0..Len(looks) -> Founds]
  /\ f[0] = Unfound
  /\ \A k \in 1..Len(looks) : f[k] = Looked(node, target, f[k - 1], looks[k])

\* The search over a list of places is a walk, one look after the other.
LEMMA LookingRuns ==
  ASSUME NEW node \in Nodes, NEW target, NEW looks \in Seq(Looks),
         \A k \in 1..Len(looks) : Genuine(node, looks[k])
  PROVE  \E f : Searching(f, node, target, looks) /\ Looking(node, target, looks) = f[Len(looks)]
<1> DEFINE m == Len(looks)
           step == [k \in 1..m |-> [acc \in Founds |-> Looked(node, target, acc, looks[k])]]
           F == CHOOSE h : h = [k \in 0..Len(looks) |->
                   IF k = 0 THEN [fetched |-> {}, cut |-> {}, found |-> Absent]
                   ELSE LookAt(node, target, h[k - 1], looks[k].deployer, looks[k].at)]
<1>1. m \in Nat
  BY LenProperties
<1>2. Looking(node, target, looks) = F[Len(looks)]
  BY DEF Looking
<1>3. Unfound \in Founds
  BY DEF Unfound, Founds
<1>4. \A k \in 1..m : \A acc \in Founds : Looked(node, target, acc, looks[k]) \in Founds
  BY LookedIs
<1>5. step \in [1..m -> [Founds -> Founds]]
  <2> SUFFICES ASSUME NEW k \in 1..m PROVE [acc \in Founds |-> Looked(node, target, acc, looks[k])] \in [Founds -> Founds]
    OBVIOUS
  <2>1. \A acc \in Founds : Looked(node, target, acc, looks[k]) \in Founds
    BY <1>4
  <2> QED BY <2>1
<1>6. \A k \in 1..m : \A acc \in Founds : step[k][acc] = Looked(node, target, acc, looks[k])
  OBVIOUS
<1> HIDE DEF step, F, m
<1>7. PICK f \in [0..m -> Founds] : Goes(f, Unfound, step, m)
  BY <1>1, <1>3, <1>5, StepByStep
<1>8. f[0] = Unfound /\ \A k \in 1..m : f[k] = Looked(node, target, f[k - 1], looks[k])
  <2>1. \A k \in 1..m : k - 1 \in 0..m
    BY <1>1
  <2> QED BY <1>6, <1>7, <2>1 DEF Goes
<1>9. Searching(f, node, target, looks)
  BY <1>8 DEF Searching, m
<1>10. F[m] = f[m]
  <2>1. \A k \in 0..m : f[k] = IF k = 0 THEN [fetched |-> {}, cut |-> {}, found |-> Absent]
                               ELSE LookAt(node, target, f[k - 1], looks[k].deployer, looks[k].at)
    <3> SUFFICES ASSUME NEW k \in 0..m
                 PROVE  f[k] = IF k = 0 THEN Unfound
                               ELSE LookAt(node, target, f[k - 1], looks[k].deployer, looks[k].at)
      BY DEF Unfound
    <3>1. k # 0 => k \in 1..m
      BY <1>1
    <3> QED BY <1>8, <3>1 DEF Looked
  <2>2. f = [k \in 0..m |-> f[k]]
    OBVIOUS
  <2>3. f = [k \in 0..Len(looks) |->
                   IF k = 0 THEN [fetched |-> {}, cut |-> {}, found |-> Absent]
                   ELSE LookAt(node, target, f[k - 1], looks[k].deployer, looks[k].at)]
    BY <2>1, <2>2 DEF m
  <2>4. F = [k \in 0..Len(looks) |->
                   IF k = 0 THEN [fetched |-> {}, cut |-> {}, found |-> Absent]
                   ELSE LookAt(node, target, F[k - 1], looks[k].deployer, looks[k].at)]
    BY <2>3 DEF F
  <2>5. \A k \in 0..m : F[k] = IF k = 0 THEN Unfound
                   ELSE Looked(node, target, F[k - 1], looks[k])
    BY <2>4 DEF Unfound, Looked, m
  <2> DEFINE T == {n \in Nat : n <= m => F[n] = f[n]}
  <2>6. 0 \in T
    <3>1. 0 \in 0..m
      BY <1>1
    <3> QED BY <1>8, <2>5, <3>1
  <2>7. ASSUME NEW n \in T PROVE n + 1 \in T
    <3>1. CASE ~(n + 1 <= m)
      BY <3>1
    <3>2. CASE n + 1 <= m
      <4> DEFINE k == n + 1
      <4>1. k \in 1..m /\ k \in 0..m /\ k # 0 /\ k - 1 = n /\ n <= m
        BY <1>1, <3>2
      <4> HIDE DEF k
      <4>2. F[n] = f[n]
        BY <4>1
      <4>3. F[k] = f[k]
        BY <1>8, <2>5, <4>1, <4>2
      <4> QED BY <4>3 DEF k
    <3> QED BY <3>1, <3>2
  <2>8. T = Nat
    <3> HIDE DEF T
    <3>1. T \subseteq Nat
      BY DEF T
    <3> QED BY <2>6, <2>7, <3>1, Successors
  <2>9. m \in T /\ m <= m
    BY <1>1, <2>8
  <2> QED BY <2>9
<1> QED BY <1>2, <1>9, <1>10 DEF m

\* What it finds is one of the deploys it looks at, and it finds the first that made the contract
\* if that is within the budget and nothing fails.
LEMMA LookingFinds ==
  ASSUME NEW node \in Nodes, NEW target, NEW looks \in Seq(Looks),
         \A k \in 1..Len(looks) : Genuine(node, looks[k])
  PROVE  LET found == Looking(node, target, looks).found
         IN  /\ found # Absent => \E k \in 1..Len(looks) : found = FindOf(node, looks[k]) /\ Hits(node, target, looks[k])
             /\ (/\ node.badBlocks = {}
                 /\ \E i \in 1..Len(looks) : i <= BlockCap /\ Hits(node, target, looks[i])) => found # Absent
<1> DEFINE m == Len(looks)
<1>1. m \in Nat
  BY LenProperties
<1>2. PICK f : Searching(f, node, target, looks) /\ Looking(node, target, looks) = f[m]
  BY LookingRuns
<1>3. /\ f \in [0..m -> Founds] /\ f[0] = Unfound
      /\ \A k \in 1..m : f[k] = Looked(node, target, f[k - 1], looks[k])
  BY <1>2 DEF Searching
<1>4. \A k \in 1..m : Genuine(node, looks[k])
  OBVIOUS
<1> HIDE DEF m
<1>5. ASSUME NEW n \in Nat, n + 1 <= m
      PROVE  /\ n + 1 \in 1..m /\ n <= m /\ f[n] \in Founds /\ f[n + 1] = Looked(node, target, f[n], looks[n + 1])
             /\ Genuine(node, looks[n + 1])
  <2> DEFINE k == n + 1
  <2>1. k \in 1..m /\ k - 1 = n /\ n \in 0..m /\ n <= m
    BY <1>1, <1>5
  <2> HIDE DEF k
  <2>2. f[n] \in Founds /\ f[k] = Looked(node, target, f[n], looks[k]) /\ Genuine(node, looks[k])
    BY <1>3, <1>4, <2>1
  <2> QED BY <2>1, <2>2 DEF k
<1>s. ASSUME NEW n \in Nat, n + 1 <= m
      PROVE  /\ f[n].found # Absent => f[n + 1] = f[n]
             /\ f[n].found = Absent /\ f[n + 1].found # Absent =>
                  f[n + 1].found = FindOf(node, looks[n + 1]) /\ Hits(node, target, looks[n + 1])
             /\ Free(node, f[n]) /\ Hits(node, target, looks[n + 1]) => f[n + 1].found # Absent
             /\ Free(node, f[n]) /\ ~Hits(node, target, looks[n + 1]) =>
                  f[n + 1].cut = f[n].cut /\ f[n + 1].fetched = f[n].fetched \cup {looks[n + 1].at.height}
  <2> DEFINE acc == f[n]
             look == looks[n + 1]
             next == f[n + 1]
  <2>1. acc \in Founds /\ Genuine(node, look) /\ next = Looked(node, target, acc, look)
    BY <1>5, <1>s
  <2> HIDE DEF acc, look, next, Same, With
  <2>a. acc.found # Absent => Same(next, acc)
    BY <2>1, LookedIs
  <2>b. acc.found = Absent /\ next.found # Absent => next.found = FindOf(node, look) /\ Hits(node, target, look)
    BY <2>1, LookedIs
  <2>c. /\ Free(node, acc) /\ Hits(node, target, look) => next.found # Absent
        /\ Free(node, acc) /\ ~Hits(node, target, look) =>
             Same(next.cut, acc.cut) /\ Same(next.fetched, With(acc.fetched, look))
    BY <2>1, LookedIs
  <2> QED BY <2>a, <2>b, <2>c DEF acc, look, next, Same, With
<1>6. ASSUME f[m].found # Absent
      PROVE  \E k \in 1..m : f[m].found = FindOf(node, looks[k]) /\ Hits(node, target, looks[k])
  <2> DEFINE T == {n \in Nat : n <= m /\ f[n].found # Absent =>
                     \E k \in 1..m : f[n].found = FindOf(node, looks[k]) /\ Hits(node, target, looks[k])}
  <2>1. 0 \in T
    BY <1>3 DEF Unfound
  <2>2. ASSUME NEW n \in T PROVE n + 1 \in T
    <3> SUFFICES ASSUME n + 1 <= m, f[n + 1].found # Absent
                 PROVE  \E k \in 1..m : f[n + 1].found = FindOf(node, looks[k]) /\ Hits(node, target, looks[k])
      OBVIOUS
    <3>1. n \in Nat /\ n + 1 <= m
      OBVIOUS
    <3>2. /\ n + 1 \in 1..m /\ n <= m /\ f[n] \in Founds /\ f[n + 1] = Looked(node, target, f[n], looks[n + 1])
          /\ Genuine(node, looks[n + 1])
      BY <1>5, <3>1
    <3>3. /\ f[n].found # Absent => f[n + 1] = f[n]
          /\ f[n].found = Absent =>
               f[n + 1].found = FindOf(node, looks[n + 1]) /\ Hits(node, target, looks[n + 1])
      BY <1>s, <3>1
    <3>4. CASE f[n].found # Absent
      BY <3>2, <3>3, <3>4
    <3>5. CASE f[n].found = Absent
      BY <3>2, <3>3, <3>5
    <3> QED BY <3>4, <3>5
  <2>3. T = Nat
    <3> HIDE DEF T
    <3>1. T \subseteq Nat
      BY DEF T
    <3> QED BY <2>1, <2>2, <3>1, Successors
  <2>4. m \in T /\ m <= m
    BY <1>1, <2>3
  <2> QED BY <1>6, <2>4
<1>7. ASSUME node.badBlocks = {}, NEW i \in 1..m, i <= BlockCap, Hits(node, target, looks[i])
      PROVE  f[m].found # Absent
  <2> DEFINE Going(n) == /\ n < i /\ f[n].cut = {}
                         /\ IsFiniteSet(f[n].fetched) /\ Cardinality(f[n].fetched) <= n
             T == {n \in Nat : n <= m => f[n].found # Absent \/ Going(n)}
  <2>1. 0 \in T
    <3>1. IsFiniteSet({}) /\ Cardinality({}) = 0
      BY FS_EmptySet
    <3>2. 0 < i
      BY <1>1
    <3>3. f[0].cut = {} /\ f[0].fetched = {}
      BY <1>3 DEF Unfound
    <3>4. Going(0)
      BY <3>1, <3>2, <3>3
    <3> HIDE DEF Going
    <3> QED BY <3>4
  <2>2. ASSUME NEW n \in T PROVE n + 1 \in T
    <3> SUFFICES ASSUME n + 1 <= m, f[n + 1].found = Absent PROVE Going(n + 1)
      OBVIOUS
    <3>1. n \in Nat /\ n + 1 <= m
      OBVIOUS
    <3>2. /\ n + 1 \in 1..m /\ n <= m /\ f[n] \in Founds /\ f[n + 1] = Looked(node, target, f[n], looks[n + 1])
          /\ Genuine(node, looks[n + 1])
      BY <1>5, <3>1
    <3>3. f[n].found = Absent
      BY <1>s, <3>1
    <3>4. Going(n)
      BY <3>2, <3>3
    <3> DEFINE c == Cardinality(f[n].fetched)
               h == looks[n + 1].at.height
               more == f[n].fetched \cup {h}
    <3>5. c \in Nat /\ c <= n
      BY <3>4, FS_CardinalityType
    <3>6. IsFiniteSet(more) /\ Cardinality(more) <= c + 1 /\ Cardinality(more) \in Nat
      <4> HIDE DEF h
      <4>1. IsFiniteSet(more) /\ Cardinality(more) = IF h \in f[n].fetched THEN c ELSE c + 1
        BY <3>4, FS_AddElement
      <4> QED BY <3>5, <4>1
    <3>7. ~(c >= BlockCap)
      BY <1>1, <1>7, <3>1, <3>4, <3>5, Caps
    <3>8. /\ Hits(node, target, looks[n + 1]) => f[n + 1].found # Absent
          /\ ~Hits(node, target, looks[n + 1]) => f[n + 1].cut = {} /\ f[n + 1].fetched = more
      BY <1>7, <1>s, <3>1, <3>3, <3>4, <3>7 DEF Free
    <3>9. ~Hits(node, target, looks[n + 1]) /\ f[n + 1].cut = {} /\ f[n + 1].fetched = more
      BY <3>8
    <3>10. n + 1 # i
      BY <1>7, <3>9
    <3>11. n + 1 < i
      BY <1>1, <3>1, <3>4, <3>10
    <3>12. Cardinality(more) <= n + 1
      <4> HIDE DEF more, c
      <4> QED BY <3>1, <3>5, <3>6
    <3> QED BY <3>6, <3>9, <3>11, <3>12
  <2>3. T = Nat
    <3> HIDE DEF T
    <3>1. T \subseteq Nat
      BY DEF T
    <3> QED BY <2>1, <2>2, <3>1, Successors
  <2>4. m \in T /\ m <= m /\ ~(m < i)
    BY <1>1, <2>3
  <2> QED BY <2>4
<1> QED BY <1>2, <1>6, <1>7 DEF m

\* The deploys of the accounts that are tried come in turn.
LEMMA LooksInTurn ==
  ASSUME NEW node \in Nodes, NEW tried \in Seq(Int)
  PROVE  LET looks == FlattenSeq([s \in DOMAIN tried |-> LooksOf(node, tried[s])])
         IN  /\ looks \in Seq(Looks) /\ \A k \in 1..Len(looks) : Genuine(node, looks[k])
             /\ Len(tried) > 0 => \A k \in 1..Len(DeployRows(node, tried[1])) :
                  k \in 1..Len(looks) /\ looks[k].at = DeployRows(node, tried[1])[k]
<1> DEFINE n == Len(tried)
           turns == [s \in DOMAIN tried |-> LooksOf(node, tried[s])]
           looks == FlattenSeq(turns)
<1>1. n \in Nat /\ DOMAIN tried = 1..n /\ \A s \in 1..n : tried[s] \in Int
  BY LenProperties, ElementOfSeq
<1>2. ASSUME NEW a \in Int
      PROVE  /\ LooksOf(node, a) \in Seq(Looks) /\ Len(LooksOf(node, a)) = Len(DeployRows(node, a))
             /\ \A k \in 1..Len(LooksOf(node, a)) :
                  Genuine(node, LooksOf(node, a)[k]) /\ LooksOf(node, a)[k].at = DeployRows(node, a)[k]
  <2> DEFINE ds == DeployRows(node, a)
             l == LooksOf(node, a)
             m == Len(ds)
  <2>1. ds \in Seq(Place) /\ Range(ds) \subseteq DeploysOf(node.chain, a)
    BY DeployRowsAre
  <2>2. l = [d \in DOMAIN ds |-> [deployer |-> a, at |-> ds[d]]]
    BY DEF LooksOf
  <2> HIDE DEF ds, l
  <2>3. m \in Nat /\ DOMAIN ds = 1..m /\ \A d \in 1..m : ds[d] \in Place /\ ds[d] \in DeploysOf(node.chain, a)
    <3>1. m \in Nat /\ DOMAIN ds = 1..m /\ \A d \in 1..m : ds[d] \in Place
      BY <2>1, LenProperties, ElementOfSeq
    <3>2. \A d \in 1..m : ds[d] \in Range(ds)
      BY <2>1, RangeOf
    <3> QED BY <2>1, <3>1, <3>2
  <2> HIDE DEF m
  <2>4. DOMAIN l = 1..m /\ \A d \in 1..m : l[d] = [deployer |-> a, at |-> ds[d]]
    BY <2>2, <2>3
  <2>5. \A d \in 1..m : l[d] \in Looks /\ l[d].at = ds[d] /\ l[d].deployer = a
    BY <2>3, <2>4 DEF Looks
  <2>6. l \in [1..m -> Looks]
    BY <2>2, <2>3, <2>5
  <2>7. l \in Seq(Looks) /\ Len(l) = m
    BY <2>3, <2>6, LenIs
  <2>8. \A d \in 1..m : Genuine(node, l[d])
    BY <2>3, <2>5 DEF Genuine
  <2> QED BY <2>5, <2>7, <2>8 DEF ds, l, m
<1> HIDE DEF n
<1>3. DOMAIN turns = 1..n /\ \A s \in 1..n : turns[s] = LooksOf(node, tried[s])
  BY <1>1
<1>4. turns \in [1..n -> Seq(Looks)]
  BY <1>1, <1>2
<1>5. turns \in Seq(Seq(Looks)) /\ Len(turns) = n
  BY <1>1, <1>4, LenIs
<1> HIDE DEF turns
<1>6. looks \in Seq(Looks) /\ InTurn(looks, turns, n)
  BY <1>5, FlattenInTurn
<1> HIDE DEF looks
<1>7. \A k \in 1..Len(looks) : Genuine(node, looks[k])
  <2> SUFFICES ASSUME NEW k \in 1..Len(looks) PROVE Genuine(node, looks[k])
    OBVIOUS
  <2>1. PICK g \in 1..n : \E d \in 1..Len(turns[g]) : looks[k] = turns[g][d]
    BY <1>6 DEF InTurn
  <2>2. PICK d \in 1..Len(turns[g]) : looks[k] = turns[g][d]
    BY <2>1
  <2> DEFINE a == tried[g]
             l == LooksOf(node, a)
  <2>3. a \in Int /\ turns[g] = l
    BY <1>1, <1>3
  <2>4. \A e \in 1..Len(l) : Genuine(node, l[e])
    <3>1. a \in Int
      BY <2>3
    <3> HIDE DEF a
    <3> QED BY <1>2, <3>1
  <2> HIDE DEF l
  <2> QED BY <2>2, <2>3, <2>4
<1>8. ASSUME n > 0
      PROVE  \A k \in 1..Len(DeployRows(node, tried[1])) :
               k \in 1..Len(looks) /\ looks[k].at = DeployRows(node, tried[1])[k]
  <2>1. 1 \in 1..n /\ tried[1] \in Int
    BY <1>1, <1>8
  <2>2. Len(turns[1]) <= Len(looks) /\ \A k \in 1..Len(turns[1]) : looks[k] = turns[1][k]
    BY <1>6, <1>8 DEF InTurn
  <2>3. /\ Len(turns[1]) = Len(DeployRows(node, tried[1]))
        /\ \A k \in 1..Len(turns[1]) : turns[1][k].at = DeployRows(node, tried[1])[k]
    BY <1>2, <1>3, <2>1
  <2>4. Len(looks) \in Nat
    BY <1>6, LenProperties
  <2>5. \A k \in 1..Len(turns[1]) : k \in 1..Len(looks)
    BY <2>2, <2>4
  <2> QED BY <2>2, <2>3, <2>5
<1> QED BY <1>6, <1>7, <1>8 DEF looks, turns, n

\* The first caller is the sender of the oldest call.
LEMMA FirstCaller ==
  ASSUME NEW node \in Nodes, NEW calls \in Seq(Place), Falling(calls), Range(calls) \subseteq Everywhere(node.chain),
         NEW extra \in Seq(Int)
  PROVE  /\ Distinct(Callers(node, calls) \o extra) \in Seq(Int)
         /\ \A c \in Range(calls) : (\A d \in Range(calls) : ~Earlier(d, c)) =>
              /\ Len(Distinct(Callers(node, calls) \o extra)) > 0
              /\ Distinct(Callers(node, calls) \o extra)[1] = Tx(node.chain, c).sender
<1> DEFINE m == Len(calls)
           newest == [i \in DOMAIN calls |-> Tx(node.chain, calls[i]).sender]
           callers == Callers(node, calls)
           all == callers \o extra
<1>1. m \in Nat /\ DOMAIN calls = 1..m /\ \A i \in 1..m : calls[i] \in Place /\ calls[i] \in Range(calls)
  <2>1. m \in Nat /\ DOMAIN calls = 1..m /\ \A i \in 1..m : calls[i] \in Place
    BY LenProperties, ElementOfSeq
  <2>2. \A i \in 1..m : calls[i] \in Range(calls)
    BY RangeOf
  <2> QED BY <2>1, <2>2
<1>2. \A p \in Range(calls) : Tx(node.chain, p).sender \in Int
  <2>1. \A p \in Range(calls) : Tx(node.chain, p) \in Transactions
    BY NodeIs, EverywhereIs
  <2> QED BY <2>1 DEF Transactions
<1> HIDE DEF m
<1>3. newest \in [1..m -> Int] /\ \A i \in 1..m : newest[i] = Tx(node.chain, calls[i]).sender
  BY <1>1, <1>2
<1>4. newest \in Seq(Int) /\ Len(newest) = m
  BY <1>1, <1>3, LenIs
<1>5. callers = Reverse(newest)
  BY DEF Callers, CallersNewestFirst
<1> HIDE DEF newest, callers
<1>6. callers \in Seq(Int) /\ Len(callers) = m /\ \A i \in 1..m : callers[i] = newest[m - i + 1]
  BY <1>4, <1>5, ReverseIs
<1>7. all \in Seq(Int) /\ Len(all) = m + Len(extra) /\ Len(extra) \in Nat
      /\ \A i \in 1..(m + Len(extra)) : all[i] = IF i <= m THEN callers[i] ELSE extra[i - m]
  <2>1. Len(extra) \in Nat
    BY LenProperties
  <2> QED BY <1>6, <2>1, ConcatProperties
<1> HIDE DEF all
<1>8. /\ Distinct(all) \in Seq(Int)
      /\ Len(all) > 0 => Len(Distinct(all)) > 0 /\ Distinct(all)[1] = all[1]
  BY <1>7, DistinctIs
<1>9. ASSUME NEW c \in Range(calls), \A d \in Range(calls) : ~Earlier(d, c)
      PROVE  Len(Distinct(all)) > 0 /\ Distinct(all)[1] = Tx(node.chain, c).sender
  <2>1. PICK i \in 1..m : calls[i] = c
    BY RangeOf DEF m
  <2>2. m \in 1..m /\ 1 \in 1..m /\ m - 1 + 1 = m
    BY <1>1
  <2>3. ~(i < m)
    BY <1>1, <1>9, <2>1, <2>2 DEF Falling, m
  <2>4. i = m
    BY <1>1, <2>3
  <2>5. 1 \in 1..(m + Len(extra)) /\ 1 <= m
    BY <1>1, <1>7, <2>2
  <2>6. all[1] = newest[m]
    BY <1>6, <1>7, <2>2, <2>5
  <2>7. Len(all) > 0
    BY <1>1, <1>7, <2>2
  <2> QED BY <1>3, <1>8, <2>1, <2>2, <2>4, <2>6, <2>7
<1> QED BY <1>8, <1>9 DEF all, callers

\* The first of a sequence, at most a number of them.
UpToCap(s, cap) == SubSeq(s, 1, Min({cap, Len(s)}))

\* The first of a sequence, up to a cap, in their order.
LEMMA AtMost ==
  ASSUME NEW S, NEW s \in Seq(S), NEW cap \in Nat \ {0}
  PROVE  /\ UpToCap(s, cap) \in Seq(S) /\ Range(UpToCap(s, cap)) \subseteq Range(s)
         /\ Len(UpToCap(s, cap)) <= cap /\ Len(UpToCap(s, cap)) <= Len(s)
         /\ \A i \in 1..Len(UpToCap(s, cap)) : i \in 1..Len(s) /\ UpToCap(s, cap)[i] = s[i]
         /\ \A i \in 1..Len(s) : i <= cap => i \in 1..Len(UpToCap(s, cap)) /\ UpToCap(s, cap)[i] = s[i]
<1> DEFINE n == Len(s)
           k == Min({cap, n})
           t == UpToCap(s, cap)
<1>1. n \in Nat
  BY LenProperties
<1> HIDE DEF n
<1>2. k = IF cap <= n THEN cap ELSE n
  BY <1>1, MinOfTwo
<1>t. t = SubSeq(s, 1, k)
  BY DEF UpToCap, n
<1> HIDE DEF k
<1>3. k \in 0..n
  BY <1>1, <1>2
<1>4. t \in Seq(S) /\ Len(t) = k /\ \A i \in 1..k : t[i] = s[i] /\ i \in 1..n
  BY <1>3, <1>t, FirstOf DEF n
<1> HIDE DEF t
<1>l. k <= cap /\ k <= n
  BY <1>1, <1>2
<1>5. Range(t) \subseteq Range(s)
  <2>1. \A x : x \in Range(t) <=> \E i \in 1..k : t[i] = x
    BY <1>4, RangeOf
  <2>2. \A x : x \in Range(s) <=> \E i \in 1..n : s[i] = x
    BY RangeOf DEF n
  <2> QED BY <1>4, <2>1, <2>2
<1>6. ASSUME NEW i \in 1..n, i <= cap PROVE i \in 1..Len(t) /\ t[i] = s[i]
  <2>1. i \in 1..k
    BY <1>1, <1>2, <1>6
  <2> QED BY <1>4, <2>1
<1> QED BY <1>3, <1>4, <1>5, <1>6, <1>l DEF n, t

\* The heights of an account's deploys.
Plain(node, ps) == {p \in ps : Tx(node.chain, p).kind = "ContractDeploy"}

\* The blocks in which an account deployed, ascending, with nothing else in them, and all of them
\* when the list was read whole.
LEMMA DeployHeightsAre ==
  ASSUME NEW node \in Nodes, NEW a
  PROVE  LET heights == FetchAccountDeployHeights(node, a)
             plain == {p.height : p \in Plain(node, DeploysOf(node.chain, a))}
         IN  /\ heights \in Seq(Nat) /\ \A i, j \in 1..Len(heights) : i < j => heights[i] < heights[j]
             /\ Range(heights) \subseteq plain
             /\ ListedWhole(node, a) => plain \subseteq Range(heights)
<1> DEFINE rows == DeployRows(node, a)
           heights == FetchAccountDeployHeights(node, a)
           some == {q \in Range(rows) : Tx(node.chain, q).kind = "ContractDeploy"}
           K == {p.height : p \in some}
           plain == {p.height : p \in Plain(node, DeploysOf(node.chain, a))}
<1>1. /\ rows \in Seq(Place) /\ Range(rows) \subseteq DeploysOf(node.chain, a)
      /\ ListedWhole(node, a) => Range(rows) = DeploysOf(node.chain, a)
  BY DeployRowsAre
<1>2. heights = Ascending(K)
  BY DEF FetchAccountDeployHeights
<1>3. IsFiniteSet(Range(rows)) /\ Range(rows) \subseteq Place
  BY <1>1, RangeOf
<1> HIDE DEF rows, heights
<1>4. some \subseteq Range(rows)
  OBVIOUS
<1>5. IsFiniteSet(some)
  BY <1>3, <1>4, FS_Subset
<1>6. \A h : h \in K <=> \E p \in some : h = p.height
  OBVIOUS
<1>7. K \subseteq Nat
  BY <1>3, <1>4, <1>6 DEF Place
<1> DEFINE F == [p \in some |-> p.height]
<1>8. F \in Surjection(some, K)
  <2>1. F \in [some -> K]
    BY <1>6
  <2>2. \A h \in K : \E p \in some : F[p] = h
    BY <1>6
  <2> HIDE DEF F, K, some
  <2> QED BY <2>1, <2>2 DEF Surjection
<1>9. IsFiniteSet(K)
  BY <1>5, <1>8, FS_Surjection
<1>10. \A h : h \in plain <=> \E p \in Plain(node, DeploysOf(node.chain, a)) : h = p.height
  OBVIOUS
<1>11. \A p : p \in some <=> p \in Range(rows) /\ Tx(node.chain, p).kind = "ContractDeploy"
  OBVIOUS
<1> HIDE DEF K, plain, some
<1>12. /\ heights \in Seq(Nat) /\ Range(heights) = K
       /\ \A i, j \in 1..Len(heights) : i < j => heights[i] < heights[j]
  BY <1>2, <1>7, <1>9, AscendingIs
<1>13. K \subseteq plain
  BY <1>1, <1>6, <1>10, <1>11 DEF Plain
<1>14. ASSUME ListedWhole(node, a) PROVE plain \subseteq K
  BY <1>1, <1>6, <1>10, <1>11, <1>14 DEF Plain
<1> QED BY <1>12, <1>13, <1>14 DEF heights, plain

\* What is found of a contract.
CreationOf(node, target, found) ==
  found # Absent =>
    /\ PlaceOf(found) \in DeploysOf(node.chain, found.deployer)
    /\ Predicted(Tx(node.chain, PlaceOf(found))) = target /\ Tx(node.chain, PlaceOf(found)).code = found.code

\* A hit of the search is the deployment whose predicted address is the contract.
LEMMA FoundIsTheDeploy ==
  ASSUME NEW node \in Nodes, NEW target, NEW look, Genuine(node, look), Hits(node, target, look)
  PROVE  CreationOf(node, target, FindOf(node, look))
<1> DEFINE p == look.at
           d == look.deployer
           code == Tx(node.chain, p).code
           found == FindOf(node, look)
<1>1. p \in Place /\ p \in DeploysOf(node.chain, d) /\ Predicted(Tx(node.chain, p)) = target
  BY DEF Genuine, Looks, Hits
<1>2. found.deployer = d /\ found.height = p.height /\ found.index = p.index /\ found.code = code
  BY DEF FindOf
<1>3. p = [height |-> p.height, index |-> p.index]
  BY <1>1 DEF Place
<1> HIDE DEF found, d, p
<1>4. PlaceOf(found) = p
  BY <1>2, <1>3 DEF PlaceOf
<1> QED BY <1>1, <1>2, <1>4 DEF CreationOf, found

OldestCall(node, target, c) ==
  c \in CallsOf(node.chain, target) /\ \A d \in CallsOf(node.chain, target) : ~Earlier(d, c)

\* What the search finds is the creation, and it finds it when the sender of the oldest call made it
\* and nothing was cut or failed.
LEMMA SearchFinds ==
  ASSUME NEW node \in Nodes, NEW target, NEW extra \in Seq(Int), NEW found,
         found = LookupContractCode(node, target, extra).code
  PROVE  /\ CreationOf(node, target, found)
         /\ \A c : \A a :
              (/\ OldestCall(node, target, c) /\ a = Tx(node.chain, c).sender
               /\ \E p \in DeploysOf(node.chain, a) : Predicted(Tx(node.chain, p)) = target
               /\ ListedWhole(node, target) /\ ListedWhole(node, a)
               /\ Cardinality(DeploysOf(node.chain, a)) <= BlockCap /\ node.badBlocks = {}) => found # Absent
<1> DEFINE rows == AllRows(node, target)
           calls == CallsTo(node, rows, target)
           senders == Distinct(Callers(node, calls) \o extra)
           tried == SubSeq(senders, 1, Min({DeployerCap, Len(senders)}))
           looks == FlattenSeq([s \in DOMAIN tried |-> LooksOf(node, tried[s])])
<1>1. rows = Absent => found = Absent
  BY DEF LookupContractCode
<1>2. rows # Absent => found = Looking(node, target, looks).found
  BY DEF LookupContractCode
<1>3. ListedWhole(node, target) => rows # Absent
  BY AllRowsAre
<1>4. CASE rows = Absent
  BY <1>1, <1>3, <1>4 DEF CreationOf
<1>5. CASE rows # Absent
  <2>1. /\ calls \in Seq(Place) /\ Falling(calls) /\ Range(calls) \subseteq CallsOf(node.chain, target)
        /\ ListedWhole(node, target) => Range(calls) = CallsOf(node.chain, target)
    BY <1>5, CallsAre
  <2>2. Range(calls) \subseteq Everywhere(node.chain)
    BY <2>1 DEF CallsOf
  <2> HIDE DEF calls
  <2>3. /\ senders \in Seq(Int)
        /\ \A c \in Range(calls) : (\A d \in Range(calls) : ~Earlier(d, c)) =>
             Len(senders) > 0 /\ senders[1] = Tx(node.chain, c).sender
    BY <2>1, <2>2, FirstCaller
  <2> HIDE DEF senders
  <2>4. tried \in Seq(Int) /\ \A i \in 1..Len(senders) : i <= DeployerCap => i \in 1..Len(tried) /\ tried[i] = senders[i]
    <3>1. tried = UpToCap(senders, DeployerCap)
      BY DEF UpToCap
    <3> HIDE DEF tried
    <3> QED BY <2>3, <3>1, Caps, AtMost
  <2> HIDE DEF tried
  <2>5. /\ looks \in Seq(Looks) /\ \A k \in 1..Len(looks) : Genuine(node, looks[k])
        /\ Len(tried) > 0 => \A k \in 1..Len(DeployRows(node, tried[1])) :
             k \in 1..Len(looks) /\ looks[k].at = DeployRows(node, tried[1])[k]
    BY <2>4, LooksInTurn
  <2> HIDE DEF looks
  <2>6. /\ found # Absent => \E k \in 1..Len(looks) : found = FindOf(node, looks[k]) /\ Hits(node, target, looks[k])
        /\ (/\ node.badBlocks = {}
            /\ \E i \in 1..Len(looks) : i <= BlockCap /\ Hits(node, target, looks[i])) => found # Absent
    BY <1>2, <1>5, <2>5, LookingFinds
  <2>7. CreationOf(node, target, found)
    <3>1. CASE found = Absent
      BY <3>1 DEF CreationOf
    <3>2. CASE found # Absent
      <4>1. PICK k \in 1..Len(looks) : found = FindOf(node, looks[k]) /\ Hits(node, target, looks[k])
        BY <2>6, <3>2
      <4> DEFINE look == looks[k]
      <4>2. Genuine(node, look) /\ Hits(node, target, look) /\ found = FindOf(node, look)
        BY <2>5, <4>1
      <4> HIDE DEF look
      <4>3. CreationOf(node, target, FindOf(node, look))
        BY <4>2, FoundIsTheDeploy
      <4> QED BY <4>2, <4>3
    <3> QED BY <3>1, <3>2
  <2>8. ASSUME NEW c, NEW a, OldestCall(node, target, c), a = Tx(node.chain, c).sender,
               \E p \in DeploysOf(node.chain, a) : Predicted(Tx(node.chain, p)) = target,
               ListedWhole(node, target), ListedWhole(node, a),
               Cardinality(DeploysOf(node.chain, a)) <= BlockCap, node.badBlocks = {}
        PROVE  found # Absent
    <3>1. c \in Range(calls) /\ \A d \in Range(calls) : ~Earlier(d, c)
      BY <2>1, <2>8 DEF OldestCall
    <3>2. Len(senders) > 0 /\ senders[1] = a
      BY <2>3, <2>8, <3>1
    <3>3. Len(senders) \in Nat /\ 1 \in 1..Len(senders) /\ 1 <= DeployerCap
      BY <2>3, <3>2, Caps, LenProperties
    <3>4. 1 \in 1..Len(tried) /\ tried[1] = a
      BY <2>4, <3>2, <3>3
    <3>5. Len(tried) > 0
      BY <3>4
    <3> DEFINE ds == DeployRows(node, a)
    <3>6. \A k \in 1..Len(ds) : k \in 1..Len(looks) /\ looks[k].at = ds[k]
      BY <2>5, <3>4, <3>5
    <3>7. ds \in Seq(Place) /\ Len(ds) = Cardinality(DeploysOf(node.chain, a)) /\ Range(ds) = DeploysOf(node.chain, a)
      BY <2>8, DeployRowsAre
    <3> HIDE DEF ds
    <3>8. PICK p \in Range(ds) : Predicted(Tx(node.chain, p)) = target
      BY <2>8, <3>7
    <3>9. PICK i \in 1..Len(ds) : ds[i] = p
      BY <3>7, RangeOf
    <3>10. i \in 1..Len(looks) /\ looks[i].at = p
      BY <3>6, <3>9
    <3>11. Hits(node, target, looks[i])
      BY <3>8, <3>10 DEF Hits
    <3>12. i <= BlockCap
      <4>1. Len(ds) \in Nat /\ i \in Nat /\ i <= Len(ds) /\ Len(ds) <= BlockCap
        BY <2>8, <3>7, LenProperties
      <4> QED BY <4>1, Caps
    <3> QED BY <2>6, <2>8, <3>10, <3>11, <3>12
  <2> QED BY <2>7, <2>8
<1> QED BY <1>4, <1>5

\* The mint of a token is a call of it that did not fail.
LEMMA MintIs ==
  ASSUME NEW node \in Nodes, NEW token, NEW minted, minted = ResolveFungibleTotalSupplyFromMintFirst(node, token),
         minted # Absent
  PROVE  /\ minted \in CallsOf(node.chain, token)
         /\ Tx(node.chain, minted).receipt # "failed" /\ Tx(node.chain, minted).parts[1].data = "mint"
<1> DEFINE rows == AllRows(node, token)
           W == {p \in Range(rows) : MintCandidate(node, Tx(node.chain, p), token)}
           none == <<>>
           candidates == IF rows = Absent THEN none ELSE Reverse(Among(rows, W))
           looked == SubSeq(candidates, 1, Min({CandidateCap, Len(candidates)}))
           hits == {i \in DOMAIN looked :
                      looked[i].height \notin node.badBlocks /\ MintedBy(Tx(node.chain, looked[i]), token)}
<1>1. hits # {} /\ minted = looked[Min(hits)]
  BY DEF ResolveFungibleTotalSupplyFromMintFirst
<1>2. \A i : i \in hits => i \in DOMAIN looked /\ MintedBy(Tx(node.chain, looked[i]), token)
  OBVIOUS
<1>3. rows # Absent => rows \in Seq(Place) /\ Range(rows) \subseteq PartOf(node.chain, token)
  BY AllRowsAre
<1> HIDE DEF hits
<1>4. candidates \in Seq(Place) /\ Range(candidates) \subseteq PartOf(node.chain, token)
  <2>1. CASE rows = Absent
    <3>1. none \in Seq(Place) /\ Range(none) = {}
      BY DEF Range
    <3> HIDE DEF none
    <3> QED BY <2>1, <3>1
  <2>2. CASE rows # Absent
    <3> DEFINE some == Among(rows, W)
    <3>1. some \in Seq(Place) /\ \A p : p \in Range(some) <=> p \in Range(rows) /\ p \in W
      BY <1>3, <2>2, AmongIs
    <3>2. candidates = Reverse(some)
      BY <2>2
    <3> HIDE DEF some, W, candidates, rows
    <3>3. Reverse(some) \in Seq(Place) /\ Range(Reverse(some)) = Range(some)
      BY <3>1, ReverseIs
    <3> QED BY <1>3, <2>2, <3>1, <3>2, <3>3
  <2> QED BY <2>1, <2>2
<1> HIDE DEF candidates
<1>5. looked \in Seq(Place) /\ Range(looked) \subseteq Range(candidates)
  <2>1. looked = UpToCap(candidates, CandidateCap)
    BY DEF UpToCap
  <2> HIDE DEF looked
  <2> QED BY <1>4, <2>1, Caps, AtMost
<1> HIDE DEF looked
<1>6. DOMAIN looked = 1..Len(looked) /\ Len(looked) \in Nat
  BY <1>5, LenProperties
<1>7. Min(hits) \in hits
  <2>1. hits \subseteq Nat
    BY <1>2, <1>6
  <2> QED BY <1>1, <2>1, MinIs
<1>8. minted \in Range(looked) /\ MintedBy(Tx(node.chain, minted), token)
  BY <1>1, <1>2, <1>5, <1>6, <1>7, RangeOf
<1>9. minted \in Everywhere(node.chain)
  BY <1>4, <1>5, <1>8 DEF PartOf
<1> QED BY <1>8, <1>9, AbsentIsNone DEF MintedBy, NotFailed, CalldataTo, CallsOf

\* All of it together.
LEMMA FindsHold ==
  ASSUME NEW node \in Nodes, NEW target, NEW extra \in Seq(Int), NEW account, NEW found, NEW heights, NEW minted,
         found = LookupContractCode(node, target, extra).code,
         heights = FetchAccountDeployHeights(node, account),
         minted = ResolveFungibleTotalSupplyFromMintFirst(node, target),
         lookup = [of |-> "deploy", node |-> node, target |-> target, account |-> account,
                   found |-> found, heights |-> heights, minted |-> minted]
  PROVE  FindsAreGenuine
<1>1. /\ lookup.of = "deploy" /\ lookup.node = node /\ lookup.target = target /\ lookup.account = account
      /\ lookup.found = found /\ lookup.heights = heights /\ lookup.minted = minted
  OBVIOUS
<1> DEFINE all == Everywhere(node.chain)
           tx(p) == Tx(node.chain, p)
           calls == {p \in all : tx(p).kind \in Calls /\ tx(p).parts[1].to = target}
           deploys(a) == {p \in all : Deploys(tx(p)) /\ tx(p).sender = a}
           plain == {p.height : p \in {q \in deploys(account) : tx(q).kind = "ContractDeploy"}}
<1>2. found # Absent =>
        LET p == PlaceOf(found) IN
        /\ p \in deploys(found.deployer)
        /\ Predicted(tx(p)) = target /\ tx(p).code = found.code
  BY SearchFinds DEF CreationOf, DeploysOf
<1>3. \A c \in calls :
        LET a == tx(c).sender IN
        (/\ \A d \in calls : ~Earlier(d, c)
         /\ \E p \in deploys(a) : Predicted(tx(p)) = target
         /\ ListedWhole(node, target) /\ ListedWhole(node, a)
         /\ Cardinality(deploys(a)) <= BlockCap /\ node.badBlocks = {}) => found # Absent
  <2> SUFFICES ASSUME NEW c \in calls, NEW a, a = tx(c).sender,
                      \A d \in calls : ~Earlier(d, c),
                      \E p \in deploys(a) : Predicted(tx(p)) = target,
                      ListedWhole(node, target), ListedWhole(node, a),
                      Cardinality(deploys(a)) <= BlockCap, node.badBlocks = {}
               PROVE  found # Absent
    OBVIOUS
  <2>1. calls = CallsOf(node.chain, target) /\ deploys(a) = DeploysOf(node.chain, a)
    BY DEF CallsOf, DeploysOf
  <2> HIDE DEF calls, deploys
  <2>2. OldestCall(node, target, c)
    BY <2>1 DEF OldestCall
  <2>3. \E p \in DeploysOf(node.chain, a) : Predicted(Tx(node.chain, p)) = target
    BY <2>1
  <2>4. Cardinality(DeploysOf(node.chain, a)) <= BlockCap
    BY <2>1
  <2> QED BY <2>2, <2>3, <2>4, SearchFinds
<1>4. /\ heights \in Seq(Nat) /\ \A i, j \in 1..Len(heights) : i < j => heights[i] < heights[j]
      /\ Range(heights) \subseteq plain
      /\ ListedWhole(node, account) => plain \subseteq Range(heights)
  <2> DEFINE mine == {p.height : p \in Plain(node, DeploysOf(node.chain, account))}
  <2>1. plain = mine
    BY DEF Plain, DeploysOf
  <2> HIDE DEF plain
  <2>2. /\ heights \in Seq(Nat) /\ \A i, j \in 1..Len(heights) : i < j => heights[i] < heights[j]
        /\ Range(heights) \subseteq mine
        /\ ListedWhole(node, account) => mine \subseteq Range(heights)
    BY DeployHeightsAre
  <2> QED BY <2>1, <2>2
<1>5. DOMAIN heights = 1..Len(heights)
  BY <1>4, LenProperties
<1>6. minted # Absent => minted \in calls /\ tx(minted).receipt # "failed" /\ tx(minted).parts[1].data = "mint"
  BY MintIs DEF CallsOf
<1>7. \A i, j \in DOMAIN heights : i < j => heights[i] < heights[j]
  BY <1>4, <1>5
<1> HIDE DEF calls, deploys, plain
<1> QED BY <1>1, <1>2, <1>3, <1>4, <1>6, <1>7 DEF FindsAreGenuine, calls, deploys, plain

-----------------------------------------------------------------------------
\* Reading a code leaves, after its last byte, some instructions and nothing begun.
Reads(code, ins, f) ==
  /\ f[0] = [next |-> 1, ins |-> <<>>]
  /\ \A pc \in 1..Len(code) : f[pc] = ReadOp(code, f[pc - 1], pc) /\ f[pc].next \in 1..(Len(code) + 1)
  /\ f[Len(code)] = [next |-> Len(code) + 1, ins |-> ins]
Decodes(code, ins) == code \in Seq(Nat) /\ \E f : Reads(code, ins, f)

\* Then these are what it disassembles to.
LEMMA Disassembled == ASSUME NEW code, NEW ins, Decodes(code, ins) PROVE Disassemble(code) = ins
<1> DEFINE L == Len(code)
           R == CHOOSE r : r = [pc \in 0..Len(code) |->
                   IF pc = 0 THEN [next |-> 1, ins |-> <<>>] ELSE ReadOp(code, r[pc - 1], pc)]
<1>1. PICK f : Reads(code, ins, f)
  BY DEF Decodes
<1>2. L \in Nat
  BY LenProperties DEF Decodes
<1> DEFINE g == [pc \in 0..Len(code) |-> f[pc]]
<1>3. \A pc \in 0..Len(code) : g[pc] = IF pc = 0 THEN [next |-> 1, ins |-> <<>>] ELSE ReadOp(code, g[pc - 1], pc)
  <2> SUFFICES ASSUME NEW pc \in 0..L
               PROVE g[pc] = IF pc = 0 THEN [next |-> 1, ins |-> <<>>] ELSE ReadOp(code, g[pc - 1], pc)
    OBVIOUS
  <2>1. CASE pc = 0
    BY <1>1, <2>1 DEF Reads
  <2>2. CASE pc # 0
    <3>1. pc \in 1..L /\ pc - 1 \in 0..L
      BY <1>2, <2>2
    <3>2. f[pc] = ReadOp(code, f[pc - 1], pc)
      BY <1>1, <3>1 DEF Reads
    <3> QED BY <2>2, <3>1, <3>2
  <2> QED BY <2>1, <2>2
<1> DEFINE first == [next |-> 1, ins |-> <<>>]
<1>4. g = [pc \in 0..Len(code) |-> IF pc = 0 THEN [next |-> 1, ins |-> <<>>] ELSE ReadOp(code, g[pc - 1], pc)]
  <2> DEFINE h == [pc \in 0..Len(code) |-> g[pc]]
  <2>1. g = h
    OBVIOUS
  <2> HIDE DEF g
  <2> QED BY <1>3, <2>1
<1>5. R = [pc \in 0..Len(code) |-> IF pc = 0 THEN [next |-> 1, ins |-> <<>>] ELSE ReadOp(code, R[pc - 1], pc)]
  <2> HIDE DEF g
  <2> QED BY <1>4
<1>6. Disassemble(code) = R[L].ins
  BY DEF Disassemble
<1> HIDE DEF R, g
<1> DEFINE T == {n \in Nat : n <= L => R[n] = f[n]}
<1>7. 0 \in T
  BY <1>1, <1>2, <1>5 DEF Reads
<1>8. ASSUME NEW n \in T PROVE n + 1 \in T
  <2>1. CASE n + 1 <= L
    <3>1. n \in Nat /\ n + 1 \in 1..L /\ n + 1 \in 0..L /\ n + 1 # 0 /\ n + 1 - 1 = n
      BY <1>2, <2>1
    <3>2. R[n] = f[n]
      BY <1>2, <3>1
    <3>3. R[n + 1] = ReadOp(code, R[n], n + 1)
      BY <1>5, <3>1
    <3>4. f[n + 1] = ReadOp(code, f[n], n + 1)
      BY <1>1, <3>1 DEF Reads
    <3> QED BY <3>1, <3>2, <3>3, <3>4
  <2>2. CASE ~(n + 1 <= L)
    BY <2>2
  <2> QED BY <2>1, <2>2
<1>9. T = Nat
  <2> HIDE DEF T
  <2>1. T \subseteq Nat
    BY DEF T
  <2> QED BY <1>7, <1>8, <2>1, Successors
<1>10. R[L] = f[L]
  BY <1>2, <1>9
<1>11. f[L].ins = ins
  BY <1>1 DEF Reads
<1> QED BY <1>6, <1>10, <1>11

ReadAs(acc, pc, k, op, arg) == [next |-> After(pc, k), ins |-> Append(acc.ins, [op |-> op, arg |-> arg])]

Carries(code, pc, k) == SubSeq(code, pc + 1, pc + k)

\* One byte of the reader: operand bytes are passed over, an opcode is read with the operand it
\* carries.
LEMMA ReadOpIs ==
  ASSUME NEW code \in Seq(Nat), NEW acc, NEW pc \in Nat, acc.next \in Nat, NEW op, op = code[pc],
         NEW k \in Nat, k = Carried(op)
  PROVE  /\ pc < acc.next => Same(ReadOp(code, acc, pc), acc)
         /\ ~(pc < acc.next) => Same(ReadOp(code, acc, pc).next, After(pc, k))
         /\ ~(pc < acc.next) /\ pc + k <= Len(code) =>
              Same(ReadOp(code, acc, pc), ReadAs(acc, pc, k, op, Carries(code, pc, k)))
<1>1. ReadOp(code, acc, pc) = IF pc < acc.next THEN acc
                              ELSE ReadAs(acc, pc, k, op, SubSeq(code, pc + 1, Min({pc + k, Len(code)})))
  BY DEF ReadOp, ReadAs
<1>2. \A arg : ReadAs(acc, pc, k, op, arg).next = After(pc, k)
  BY DEF ReadAs
<1>3. pc + k \in Int /\ Len(code) \in Nat
  BY LenProperties
<1> DEFINE e == pc + k
<1>4. e <= Len(code) => Min({e, Len(code)}) = e
  <2> HIDE DEF e
  <2> QED BY <1>3, MinOfTwo DEF e
<1>5. ~(pc < acc.next) => ReadOp(code, acc, pc) = ReadAs(acc, pc, k, op, SubSeq(code, pc + 1, Min({pc + k, Len(code)})))
  BY <1>1
<1>6. ~(pc < acc.next) => ReadOp(code, acc, pc).next = After(pc, k)
  BY <1>2, <1>5
<1>7. pc < acc.next => ReadOp(code, acc, pc) = acc
  BY <1>1
<1>8. ~(pc < acc.next) /\ pc + k <= Len(code) => ReadOp(code, acc, pc) = ReadAs(acc, pc, k, op, Carries(code, pc, k))
  BY <1>4, <1>5 DEF Carries
<1> QED BY <1>6, <1>7, <1>8 DEF Same

\* The operand bytes behind an opcode, in their order.
LEMMA CarriesIs ==
  ASSUME NEW s \in Seq(Nat), NEW a \in Nat, NEW k \in Nat, a + k <= Len(s)
  PROVE  /\ Carries(s, a, k) \in Seq(Nat) /\ Len(Carries(s, a, k)) = k
         /\ \A i \in 1..k : Carries(s, a, k)[i] = s[a + i]
<1> DEFINE b == a + 1
           e == a + k
           t == Carries(s, a, k)
<1>1. Len(s) \in Nat /\ b \in Int /\ e \in Int /\ e - b + 1 = k
  BY LenProperties
<1>2. \A i \in b..e : i \in 1..Len(s)
  BY <1>1
<1>3. \A i \in b..e : s[i] \in Nat
  BY <1>2, ElementOfSeq
<1>d. t = SubSeq(s, b, e)
  BY DEF Carries
<1>6. \A i \in 1..k : b + i - 1 = a + i
  BY <1>1
<1> HIDE DEF b, e, t
<1>4. /\ t \in Seq(Nat) /\ Len(t) = (IF b <= e THEN e - b + 1 ELSE 0)
      /\ \A i \in 1..(e - b + 1) : t[i] = s[b + i - 1]
  BY <1>1, <1>3, <1>d, SubSeqProperties
<1>5. Len(t) = k
  BY <1>1, <1>4
<1>7. \A i \in 1..k : t[i] = s[a + i]
  BY <1>1, <1>4, <1>6
<1> QED BY <1>4, <1>5, <1>7 DEF t

\* No byte, no instruction.
LEMMA DecodesNone == Decodes(<<>>, <<>>)
<1> DEFINE none == <<>>
           f == [pc \in {0} |-> [next |-> 1, ins |-> none]]
<1>1. none \in Seq(Nat) /\ Len(none) = 0
  OBVIOUS
<1>2. f[0] = [next |-> 1, ins |-> none]
  OBVIOUS
<1>3. [next |-> 1, ins |-> none] = [next |-> 0 + 1, ins |-> none]
  OBVIOUS
<1> HIDE DEF f
<1>4. Reads(none, none, f)
  BY <1>1, <1>2 DEF Reads
<1> QED BY <1>1, <1>4 DEF Decodes

\* An instruction with what it carries, behind a code that is read to its end.
Instruction(op, arg) == [op |-> op, arg |-> arg]
Behind(more, code, op, arg) ==
  /\ Len(more) = Len(code) + 1 + Len(arg)
  /\ \A i \in 1..Len(code) : more[i] = code[i]
  /\ more[Len(code) + 1] = op
  /\ \A i \in 1..Len(arg) : more[Len(code) + 1 + i] = arg[i]

\* Code with one instruction behind it decodes to the instructions with that one behind them.
LEMMA DecodesMore ==
  ASSUME NEW code, NEW ins, Decodes(code, ins), NEW op \in Nat, NEW arg \in Seq(Nat), Len(arg) = Carried(op),
         NEW more \in Seq(Nat), Behind(more, code, op, arg)
  PROVE  Decodes(more, Append(ins, Instruction(op, arg)))
<1> DEFINE L == Len(code)
           n == Len(arg)
           M == Len(more)
           last == [next |-> M + 1, ins |-> Append(ins, Instruction(op, arg))]
<1>1. PICK f : Reads(code, ins, f)
  BY DEF Decodes
<1>2. L \in Nat /\ n \in Nat /\ M \in Nat /\ M = L + 1 + n
  BY LenProperties DEF Decodes, Behind
<1> DEFINE g == [pc \in 0..M |-> IF pc <= L THEN f[pc] ELSE last]
<1>r. /\ f[0] = [next |-> 1, ins |-> <<>>]
      /\ \A pc \in 1..L : f[pc] = ReadOp(code, f[pc - 1], pc) /\ f[pc].next \in 1..(L + 1)
      /\ f[L] = [next |-> L + 1, ins |-> ins]
  BY <1>1 DEF Reads
<1>m. /\ \A i \in 1..L : more[i] = code[i]
      /\ more[L + 1] = op
      /\ \A i \in 1..n : more[L + 1 + i] = arg[i]
  BY DEF Behind
<1> HIDE DEF L, M, n
<1>o. \A k : k \in Nat => Carried(k) \in Nat
  BY DEF Carried, OpPush1, OpPush32
<1>b. \A i \in 1..L : code[i] \in Nat
  BY ElementOfSeq DEF Decodes, L
<1>n. \A pc \in 0..L : f[pc].next \in Nat
  <2>1. \A pc \in 1..L : f[pc].next \in 1..(L + 1)
    BY <1>r
  <2>2. f[0].next = 1
    BY <1>r
  <2> QED BY <1>2, <2>1, <2>2
<1>c. code \in Seq(Nat) /\ Len(code) = L /\ Len(more) = M
  BY DEF Decodes, L, M
<1>3. ASSUME NEW pc \in 1..L PROVE ReadOp(more, f[pc - 1], pc) = ReadOp(code, f[pc - 1], pc)
  <2> DEFINE acc == f[pc - 1]
             here == code[pc]
             k == Carried(here)
             a == Carries(code, pc, k)
             b == Carries(more, pc, k)
  <2>1. pc \in Nat /\ here \in Nat /\ more[pc] = here /\ k \in Nat /\ acc.next \in Nat
    BY <1>2, <1>b, <1>m, <1>n, <1>o
  <2>2. ReadOp(code, acc, pc) = f[pc] /\ f[pc].next \in 1..(L + 1) /\ here = code[pc] /\ k = Carried(here)
    BY <1>r
  <2> HIDE DEF acc, here, k
  <2>3. CASE pc < acc.next
    <3>1. Same(ReadOp(code, acc, pc), acc)
      BY <1>c, <2>1, <2>2, <2>3, ReadOpIs
    <3>2. Same(ReadOp(more, acc, pc), acc)
      BY <2>1, <2>2, <2>3, ReadOpIs
    <3>3. ReadOp(code, acc, pc) = acc
      BY <3>1 DEF Same
    <3>4. ReadOp(more, acc, pc) = acc
      BY <3>2 DEF Same
    <3> QED BY <3>3, <3>4 DEF acc
  <2>4. CASE ~(pc < acc.next)
    <3>1. Same(ReadOp(code, acc, pc).next, After(pc, k))
      BY <1>c, <2>1, <2>2, <2>4, ReadOpIs
    <3>2. f[pc].next = pc + 1 + k
      BY <2>2, <3>1 DEF After, Same
    <3>3. pc + k <= L /\ pc + k <= M
      <4>1. pc + 1 + k <= L + 1
        BY <1>2, <2>2, <3>2
      <4> QED BY <1>2, <2>1, <4>1
    <3>4. Same(ReadOp(code, acc, pc), ReadAs(acc, pc, k, here, a))
      BY <1>c, <2>1, <2>2, <2>4, <3>3, ReadOpIs
    <3>5. Same(ReadOp(more, acc, pc), ReadAs(acc, pc, k, here, b))
      BY <1>c, <2>1, <2>2, <2>4, <3>3, ReadOpIs
    <3>6. a = b
      <4>1. a \in Seq(Nat) /\ Len(a) = k /\ \A i \in 1..k : a[i] = code[pc + i]
        BY <1>c, <2>1, <3>3, CarriesIs
      <4>2. b \in Seq(Nat) /\ Len(b) = k /\ \A i \in 1..k : b[i] = more[pc + i]
        BY <1>c, <2>1, <3>3, CarriesIs
      <4> HIDE DEF a, b
      <4>3. \A i \in 1..k : pc + i \in 1..L
        BY <1>2, <2>1, <3>3
      <4>4. \A i \in 1..k : more[pc + i] = code[pc + i]
        BY <1>m, <4>3
      <4>5. \A i \in 1..Len(a) : a[i] = b[i]
        BY <4>1, <4>2, <4>4
      <4> QED BY <4>1, <4>2, <4>5, SeqEqual
    <3> HIDE DEF a, b
    <3>7. Same(ReadAs(acc, pc, k, here, a), ReadAs(acc, pc, k, here, b))
      BY <3>6 DEF Same
    <3>8. \A x, y, z, w : Same(x, z) /\ Same(y, w) /\ Same(z, w) => Same(y, x)
      BY DEF Same
    <3>9. Same(ReadOp(more, acc, pc), ReadOp(code, acc, pc))
      BY <3>4, <3>5, <3>7, <3>8
    <3> QED BY <3>9 DEF Same, acc
  <2> QED BY <2>3, <2>4 DEF acc
<1>4. \A e : e = L + 1 => ReadOp(more, f[L], e) = last /\ last.next = M + 1
  <2> SUFFICES ASSUME NEW e, e = L + 1 PROVE ReadOp(more, f[L], e) = last /\ last.next = M + 1
    OBVIOUS
  <2> DEFINE acc == f[L]
             a == Carries(more, e, n)
  <2>1. acc.next = e /\ acc.ins = ins /\ e \in Nat /\ ~(e < acc.next) /\ more[e] = op
    BY <1>2, <1>m, <1>r
  <2>2. Carried(op) = n /\ e + n <= M /\ After(e, n) = M + 1
    BY <1>2 DEF n, After
  <2> HIDE DEF acc
  <2>4. Same(ReadOp(more, acc, e), ReadAs(acc, e, n, op, a))
    BY <1>2, <1>c, <2>1, <2>2, ReadOpIs
  <2>6. a = arg
    <3>2. a \in Seq(Nat) /\ Len(a) = n /\ \A i \in 1..n : a[i] = more[e + i]
      <4>1. more \in Seq(Nat) /\ e \in Nat /\ n \in Nat /\ e + n <= Len(more)
        BY <1>2, <1>c, <2>1, <2>2
      <4> QED BY ONLY <4>1, CarriesIs
    <3> HIDE DEF a
    <3>3. \A i \in 1..n : more[e + i] = arg[i]
      BY <1>m
    <3>4. \A i \in 1..Len(a) : a[i] = arg[i]
      BY <3>2, <3>3
    <3>5. Len(a) = Len(arg)
      BY <3>2 DEF n
    <3> QED BY <3>2, <3>4, <3>5, SeqEqual
  <2> HIDE DEF a
  <2>7. Same(ReadOp(more, acc, e), ReadAs(acc, e, n, op, arg))
    BY <2>4, <2>6
  <2>8. ReadAs(acc, e, n, op, arg) = last
    BY <2>1, <2>2 DEF ReadAs, Instruction
  <2>9. last.next = M + 1
    OBVIOUS
  <2> HIDE DEF last
  <2> QED BY <2>7, <2>8, <2>9 DEF acc, Same
<1>5. ASSUME NEW pc \in 1..M PROVE g[pc] = ReadOp(more, g[pc - 1], pc) /\ g[pc].next \in 1..(M + 1)
  <2> HIDE DEF last
  <2>0. pc - 1 \in 0..M /\ pc \in 0..M /\ last.next = M + 1 /\ M + 1 \in 1..(M + 1)
    BY <1>2, <1>4
  <2>1. CASE pc <= L
    <3>1. pc \in 1..L /\ pc - 1 <= L
      BY <1>2, <2>1
    <3>2. g[pc] = f[pc] /\ g[pc - 1] = f[pc - 1]
      BY <2>0, <2>1, <3>1
    <3>3. f[pc].next \in 1..(L + 1) /\ f[pc] = ReadOp(code, f[pc - 1], pc)
      BY <1>r, <3>1
    <3>4. f[pc].next \in 1..(M + 1)
      BY <1>2, <3>3
    <3> QED BY <1>3, <3>1, <3>2, <3>3, <3>4
  <2>2. CASE pc = L + 1
    <3>1. g[pc] = last /\ g[pc - 1] = f[L]
      <4>1. pc - 1 = L /\ ~(pc <= L) /\ pc - 1 <= L
        BY <1>2, <2>2
      <4>2. g[pc] = last
        BY <2>0, <4>1
      <4>3. g[pc - 1] = f[pc - 1]
        BY <2>0, <4>1
      <4> QED BY <4>1, <4>2, <4>3
    <3>2. ReadOp(more, f[L], pc) = last
      BY <1>4, <2>2
    <3>3. g[pc] = ReadOp(more, g[pc - 1], pc)
      BY <3>1, <3>2
    <3> QED BY <2>0, <3>1, <3>3
  <2>3. CASE pc > L + 1
    <3>1. g[pc] = last /\ g[pc - 1] = last /\ pc < M + 1
      BY <1>2, <2>0, <2>3
    <3>2. ReadOp(more, last, pc) = last
      BY <2>0, <3>1 DEF ReadOp
    <3> QED BY <2>0, <3>1, <3>2
  <2> QED BY <1>2, <2>1, <2>2, <2>3
<1>6. g[0] = [next |-> 1, ins |-> <<>>] /\ g[M] = last
  BY <1>2, <1>r
<1> HIDE DEF g
<1>7. Reads(more, Append(ins, Instruction(op, arg)), g)
  BY <1>5, <1>6 DEF Reads, M
<1> QED BY <1>7 DEF Decodes

\* A code that adds instructions to whatever was read before.
Instructions == [op: Nat, arg: Seq(Nat)]
Adds(code, ins) ==
  /\ code \in Seq(Nat) /\ ins \in Seq(Instructions)
  /\ \A before, done : done \in Seq(Instructions) /\ Decodes(before, done) => Decodes(before \o code, done \o ins)

\* A sequence of one.
LEMMA OneIs ==
  ASSUME NEW S, NEW x \in S
  PROVE  <<x>> \in Seq(S) /\ Len(<<x>>) = 1 /\ <<x>>[1] = x
OBVIOUS

\* A sequence with one more behind it.
LEMMA EndsWith ==
  ASSUME NEW S, NEW s \in Seq(S), NEW x \in S
  PROVE  /\ s \o <<x>> \in Seq(S) /\ Len(s \o <<x>>) = Len(s) + 1 /\ (s \o <<x>>)[Len(s) + 1] = x
         /\ \A i \in 1..Len(s) : (s \o <<x>>)[i] = s[i]
         /\ s \o <<x>> = Append(s, x)
<1> DEFINE one == <<x>>
           t == s \o one
           n == Len(s)
           u == Append(s, x)
<1>1. one \in Seq(S) /\ Len(one) = 1 /\ one[1] = x
  OBVIOUS
<1>2. n \in Nat
  BY LenProperties
<1>u. u \in Seq(S) /\ Len(u) = n + 1 /\ \A i \in 1..(n + 1) : u[i] = IF i = n + 1 THEN x ELSE s[i]
  OBVIOUS
<1> HIDE DEF one, n, u
<1>3. t \in Seq(S) /\ Len(t) = n + 1 /\ \A i \in 1..(n + 1) : t[i] = IF i <= n THEN s[i] ELSE one[i - n]
  <2>1. /\ t \in Seq(S) /\ Len(t) = Len(s) + Len(one)
        /\ \A i \in 1..Len(s) + Len(one) : t[i] = IF i <= Len(s) THEN s[i] ELSE one[i - Len(s)]
    BY <1>1, ConcatProperties
  <2> HIDE DEF t
  <2>2. Len(s) = n
    BY DEF n
  <2> QED BY <1>1, <1>2, <2>1, <2>2
<1> HIDE DEF t
<1> DEFINE e == n + 1
<1>4. e \in 1..(n + 1) /\ ~(e <= n) /\ e - n = 1
  BY <1>2
<1>5. t[n + 1] = x
  <2> HIDE DEF e
  <2>1. t[e] = x
    BY <1>1, <1>3, <1>4
  <2> QED BY <2>1 DEF e
<1>6. \A i \in 1..n : t[i] = s[i]
  BY <1>2, <1>3
<1>7. \A i \in 1..(n + 1) : t[i] = u[i]
  BY <1>2, <1>u, <1>5, <1>6
<1>8. t = u
  BY <1>3, <1>u, <1>7, SeqEqual
<1> QED BY <1>3, <1>5, <1>6, <1>8 DEF t, n, one, u

\* No code adds no instruction.
LEMMA AddsNone == Adds(<<>>, <<>>)
<1> DEFINE none == <<>>
<1>1. none \in Seq(Nat) /\ none \in Seq(Instructions)
  OBVIOUS
<1>2. ASSUME NEW before, NEW done \in Seq(Instructions), Decodes(before, done)
      PROVE  Decodes(before \o none, done \o none)
  <2>1. before \in Seq(Nat)
    BY <1>2 DEF Decodes
  <2>2. before \o none = before
    BY <2>1, ConcatEmptySeq
  <2>3. done \o none = done
    BY ConcatEmptySeq
  <2> HIDE DEF none
  <2> QED BY <1>2, <2>2, <2>3
<1> HIDE DEF none
<1>3. Adds(none, none)
  BY <1>1, <1>2 DEF Adds
<1> QED BY <1>3 DEF none

\* One opcode with its operand adds its instruction.
LEMMA AddsOne ==
  ASSUME NEW op \in Nat, NEW arg \in Seq(Nat), Len(arg) = Carried(op)
  PROVE  Adds(<<op>> \o arg, <<Instruction(op, arg)>>)
<1> DEFINE one == <<op>>
           c == one \o arg
           n == Len(arg)
           in == Instruction(op, arg)
           ins == <<in>>
<1>1. one \in Seq(Nat) /\ Len(one) = 1 /\ one[1] = op /\ n \in Nat
  BY LenProperties
<1>2. in \in Instructions
  BY DEF Instruction, Instructions
<1> HIDE DEF one, n, in
<1>3. ins \in Seq(Instructions)
  BY <1>2, OneIs
<1>4. c \in Seq(Nat) /\ Len(c) = 1 + n /\ \A i \in 1..(1 + n) : c[i] = IF i <= 1 THEN one[i] ELSE arg[i - 1]
  <2>1. /\ c \in Seq(Nat) /\ Len(c) = Len(one) + Len(arg)
        /\ \A i \in 1..Len(one) + Len(arg) : c[i] = IF i <= Len(one) THEN one[i] ELSE arg[i - Len(one)]
    BY <1>1, ConcatProperties
  <2> HIDE DEF c
  <2>2. Len(arg) = n
    BY DEF n
  <2> QED BY <1>1, <2>1, <2>2
<1> HIDE DEF c
<1>5. c[1] = op /\ \A i \in 1..n : c[1 + i] = arg[i]
  <2>1. 1 \in 1..(1 + n)
    BY <1>1
  <2>2. \A i \in 1..n : 1 + i \in 1..(1 + n) /\ ~(1 + i <= 1) /\ 1 + i - 1 = i
    BY <1>1
  <2> QED BY <1>1, <1>4, <2>1, <2>2
<1>6. ASSUME NEW before, NEW done \in Seq(Instructions), Decodes(before, done)
      PROVE  Decodes(before \o c, done \o ins)
  <2> DEFINE more == before \o c
             b == Len(before)
  <2>1. before \in Seq(Nat) /\ b \in Nat
    <3>1. before \in Seq(Nat)
      BY <1>6 DEF Decodes
    <3> QED BY <3>1, LenProperties
  <2> HIDE DEF b
  <2>2. more \in Seq(Nat) /\ Len(more) = b + (1 + n)
        /\ \A i \in 1..(b + (1 + n)) : more[i] = IF i <= b THEN before[i] ELSE c[i - b]
    BY <1>4, <2>1, ConcatProperties DEF b
  <2> HIDE DEF more
  <2>3. \A i \in 1..b : more[i] = before[i]
    <3>1. \A i \in 1..b : i \in 1..(b + (1 + n)) /\ i <= b
      BY <1>1, <2>1
    <3> QED BY <2>2, <3>1
  <2>4. \A i \in 1..(1 + n) : more[b + i] = c[i]
    <3> SUFFICES ASSUME NEW i \in 1..(1 + n) PROVE more[b + i] = c[i]
      OBVIOUS
    <3> DEFINE j == b + i
    <3>1. j \in 1..(b + (1 + n)) /\ ~(j <= b) /\ j - b = i
      BY <1>1, <2>1
    <3> HIDE DEF j
    <3>2. more[j] = c[i]
      BY <2>2, <3>1
    <3> QED BY <3>2 DEF j
  <2>5. more[b + 1] = op
    <3>1. 1 \in 1..(1 + n)
      BY <1>1
    <3> QED BY <1>5, <2>4, <3>1
  <2>6. \A i \in 1..n : more[b + 1 + i] = arg[i]
    <3> SUFFICES ASSUME NEW i \in 1..n PROVE more[b + 1 + i] = arg[i]
      OBVIOUS
    <3> DEFINE j == 1 + i
    <3>1. j \in 1..(1 + n) /\ b + j = b + 1 + i
      BY <1>1, <2>1
    <3>2. c[j] = arg[i]
      BY <1>5
    <3> HIDE DEF j
    <3>3. more[b + j] = arg[i]
      BY <2>4, <3>1, <3>2
    <3> QED BY <3>1, <3>3
  <2>7. Len(more) = b + 1 + n
    BY <1>1, <2>1, <2>2
  <2>8. Decodes(more, Append(done, Instruction(op, arg)))
    <3>1. Behind(more, before, op, arg)
      BY <2>3, <2>5, <2>6, <2>7 DEF Behind, b, n
    <3> QED BY <1>6, <2>2, <3>1, DecodesMore
  <2>9. done \o ins = Append(done, in)
    BY <1>2, EndsWith
  <2> HIDE DEF ins
  <2> QED BY <2>8, <2>9 DEF more, in
<1>7. Adds(c, ins)
  BY <1>3, <1>4, <1>6 DEF Adds
<1> QED BY <1>7 DEF c, one, in

\* Two pieces of code behind each other add the instructions of both.
LEMMA AddsBoth ==
  ASSUME NEW c, NEW d, NEW i, NEW j, Adds(c, i), Adds(d, j)
  PROVE  Adds(c \o d, i \o j)
<1>1. c \in Seq(Nat) /\ d \in Seq(Nat) /\ i \in Seq(Instructions) /\ j \in Seq(Instructions)
  BY DEF Adds
<1>2. c \o d \in Seq(Nat) /\ i \o j \in Seq(Instructions)
  BY <1>1, ConcatProperties
<1>3. ASSUME NEW before, NEW done \in Seq(Instructions), Decodes(before, done)
      PROVE  Decodes(before \o (c \o d), done \o (i \o j))
  <2>1. before \in Seq(Nat)
    BY <1>3 DEF Decodes
  <2>2. Decodes(before \o c, done \o i)
    BY <1>3 DEF Adds
  <2>3. done \o i \in Seq(Instructions)
    BY <1>1, ConcatProperties
  <2>4. Decodes((before \o c) \o d, (done \o i) \o j)
    BY <2>2, <2>3 DEF Adds
  <2>5. (before \o c) \o d = before \o (c \o d)
    <3>1. before \in Seq(Nat) /\ c \in Seq(Nat) /\ d \in Seq(Nat)
      BY <1>1, <2>1
    <3> DEFINE N == Nat
    <3>2. before \in Seq(N) /\ c \in Seq(N) /\ d \in Seq(N)
      BY <3>1
    <3> HIDE DEF N
    <3> QED BY <3>2, ConcatAssociative
  <2>6. (done \o i) \o j = done \o (i \o j)
    <3> DEFINE I == Instructions
    <3>1. done \in Seq(I) /\ i \in Seq(I) /\ j \in Seq(I)
      BY <1>1, <1>3
    <3> HIDE DEF I
    <3> QED BY <3>1, ConcatAssociative
  <2> QED BY <2>4, <2>5, <2>6
<1> QED BY <1>2, <1>3 DEF Adds

\* So do any number of pieces.
LEMMA AddsAll ==
  ASSUME NEW codes \in Seq(Seq(Nat)), NEW instrs \in Seq(Seq(Instructions)), Len(codes) = Len(instrs),
         \A k \in 1..Len(codes) : Adds(codes[k], instrs[k])
  PROVE  Adds(FlattenSeq(codes), FlattenSeq(instrs))
<1> DEFINE m == Len(codes)
<1>1. m \in Nat
  BY LenProperties
<1>2. PICK f \in [0..Len(codes) -> Seq(Nat)] : Joins(f, codes, Len(codes))
  BY Joined
<1>3. PICK g \in [0..Len(instrs) -> Seq(Instructions)] : Joins(g, instrs, Len(instrs))
  BY Joined
<1>4. FlattenSeq(codes) = f[m] /\ FlattenSeq(instrs) = g[m]
  BY <1>2, <1>3, FlattenIs
<1>5. /\ f[0] = <<>> /\ \A i \in 1..m : f[i] = f[i - 1] \o codes[i]
      /\ g[0] = <<>> /\ \A i \in 1..m : g[i] = g[i - 1] \o instrs[i]
  BY <1>2, <1>3 DEF Joins
<1>6. \A k \in 1..m : Adds(codes[k], instrs[k])
  OBVIOUS
<1> HIDE DEF m
<1> DEFINE T == {n \in Nat : n <= m => Adds(f[n], g[n])}
<1>7. 0 \in T
  BY <1>5, AddsNone
<1>8. ASSUME NEW n \in T PROVE n + 1 \in T
  <2>1. CASE ~(n + 1 <= m)
    BY <2>1
  <2>2. CASE n + 1 <= m
    <3> DEFINE k == n + 1
    <3>1. k \in 1..m /\ k - 1 = n /\ n <= m
      BY <1>1, <2>2
    <3> HIDE DEF k
    <3>2. Adds(f[n], g[n])
      BY <3>1
    <3>3. Adds(f[n] \o codes[k], g[n] \o instrs[k])
      BY <1>6, <3>1, <3>2, AddsBoth
    <3>4. Adds(f[k], g[k])
      BY <1>5, <3>1, <3>3
    <3> QED BY <3>4 DEF k
  <2> QED BY <2>1, <2>2
<1>9. T = Nat
  <2> HIDE DEF T
  <2>1. T \subseteq Nat
    BY DEF T
  <2> QED BY <1>7, <1>8, <2>1, Successors
<1>10. Adds(f[m], g[m])
  <2>1. m \in T
    <3> HIDE DEF T
    <3> QED BY <1>1, <1>9
  <2>2. m <= m
    BY <1>1
  <2> QED BY <2>1, <2>2
<1> QED BY <1>4, <1>10

\* Instructions that push and others.
Push(bytes) == Instruction(OpPush1 + Len(bytes) - 1, bytes)
Plainly(op) == Instruction(op, <<>>)

\* A push of 1 to 32 bytes adds one instruction, with the bytes as its operand.
LEMMA AddsPush ==
  ASSUME NEW bytes \in Seq(Nat), Len(bytes) \in 1..32
  PROVE  Adds(PUSH(bytes), <<Push(bytes)>>) /\ Push(bytes) \in Instructions
<1> DEFINE op == OpPush1 + Len(bytes) - 1
<1>1. op \in Nat /\ Carried(op) = Len(bytes)
  <2> DEFINE n == Len(bytes)
  <2>1. op = 95 + n /\ n \in 1..32
    BY DEF OpPush1
  <2> HIDE DEF n, op
  <2>2. op \in 96..127 /\ op - 96 + 1 = n /\ op \in Nat
    BY <2>1
  <2>3. Carried(op) = n
    BY <2>2 DEF Carried, OpPush1, OpPush32
  <2> QED BY <2>2, <2>3 DEF n
<1>2. PUSH(bytes) = <<op>> \o bytes /\ Push(bytes) = Instruction(op, bytes)
  BY DEF PUSH, Push
<1> HIDE DEF op
<1>3. Adds(<<op>> \o bytes, <<Instruction(op, bytes)>>)
  BY <1>1, AddsOne
<1>4. Instruction(op, bytes) \in Instructions
  BY <1>1 DEF Instruction, Instructions
<1> QED BY <1>2, <1>3, <1>4

\* An opcode that is no push adds one instruction without operand.
LEMMA AddsPlainly ==
  ASSUME NEW op \in Nat, op \notin OpPush1..OpPush32
  PROVE  Adds(<<op>>, <<Plainly(op)>>) /\ Plainly(op) \in Instructions
<1> DEFINE none == <<>>
           one == <<op>>
<1>1. none \in Seq(Nat) /\ Len(none) = 0 /\ one \in Seq(Nat)
  OBVIOUS
<1>2. Carried(op) = 0
  BY DEF Carried
<1> HIDE DEF none
<1>3. one \o none = one
  BY <1>1, ConcatEmptySeq DEF none
<1> HIDE DEF one
<1>4. Adds(<<op>> \o none, <<Instruction(op, none)>>)
  BY <1>1, <1>2, AddsOne
<1>5. Instruction(op, none) \in Instructions
  BY <1>1 DEF Instruction, Instructions
<1> QED BY <1>3, <1>4, <1>5 DEF Plainly, none, one

\* What the pieces of a program are read as.
LoadOf(at) == <<Push(<<at>>)>> \o <<Plainly(OpMload)>>
OperandsOf(b) ==
  CASE b.form = "loadFirst" -> LoadOf(b.at) \o <<Push(<<b.selector>>)>>
    [] b.form = "loadLast" -> <<Push(<<b.selector>>)>> \o LoadOf(b.at)
    [] b.form = "wide" -> LoadOf(b.at) \o <<Push(<<0, b.selector>>)>>
    [] b.form = "tooWide" -> LoadOf(b.at) \o <<Push(<<1, b.selector>>)>>
InsOf(b) ==
  IF b.form = "data" THEN <<Push(b.bytes)>>
  ELSE OperandsOf(b) \o <<Plainly(OpEq)>> \o (IF b.inverted THEN <<Plainly(OpIsZero)>> ELSE <<>>)
         \o <<Push(<<9>>)>> \o <<Plainly(OpJumpi)>>

\* The opcodes of a dispatcher that carry no operand.
LEMMA PlainOps ==
  /\ \A op \in {OpEq, OpIsZero, OpAnd, OpMload, OpMstore, OpJumpi} :
       Adds(<<op>>, <<Plainly(op)>>) /\ Plainly(op) \in Instructions /\ Plainly(op).op = op /\ op \notin OpPush1..OpPush32
<1> SUFFICES ASSUME NEW op \in {OpEq, OpIsZero, OpAnd, OpMload, OpMstore, OpJumpi}
             PROVE  Adds(<<op>>, <<Plainly(op)>>) /\ Plainly(op) \in Instructions /\ Plainly(op).op = op
                    /\ op \notin OpPush1..OpPush32
  OBVIOUS
<1>1. op \in Nat /\ op \notin OpPush1..OpPush32
  BY DEF OpEq, OpIsZero, OpAnd, OpMload, OpMstore, OpJumpi, OpPush1, OpPush32
<1>2. Plainly(op).op = op
  BY DEF Plainly, Instruction
<1> QED BY <1>1, <1>2, AddsPlainly

\* A push of one byte.
LEMMA PushesOne ==
  ASSUME NEW x \in Nat
  PROVE  Adds(PUSH(<<x>>), <<Push(<<x>>)>>) /\ Push(<<x>>) \in Instructions
<1> DEFINE s == <<x>>
<1>1. s \in Seq(Nat) /\ Len(s) \in 1..32
  OBVIOUS
<1> HIDE DEF s
<1>2. Adds(PUSH(s), <<Push(s)>>) /\ Push(s) \in Instructions
  BY <1>1, AddsPush
<1> QED BY <1>2 DEF s

\* A push of two bytes.
LEMMA PushesTwo ==
  ASSUME NEW x \in Nat, NEW y \in Nat
  PROVE  Adds(PUSH(<<x, y>>), <<Push(<<x, y>>)>>) /\ Push(<<x, y>>) \in Instructions
<1> DEFINE s == <<x, y>>
<1>1. s \in Seq(Nat) /\ Len(s) \in 1..32
  OBVIOUS
<1> HIDE DEF s
<1>2. Adds(PUSH(s), <<Push(s)>>) /\ Push(s) \in Instructions
  BY <1>1, AddsPush
<1> QED BY <1>2 DEF s

\* The code that loads the selector adds its two instructions.
LEMMA LoadAdds ==
  ASSUME NEW at \in Nat
  PROVE  Adds(Load(at), LoadOf(at))
<1> DEFINE p == PUSH(<<at>>)
           q == <<Push(<<at>>)>>
           c == <<OpMload>>
           d == <<Plainly(OpMload)>>
<1>1. Adds(p, q)
  BY PushesOne
<1>2. Adds(c, d)
  BY PlainOps
<1>3. Load(at) = p \o c /\ LoadOf(at) = q \o d
  BY DEF Load, LoadOf
<1> HIDE DEF p, q, c, d
<1>4. Adds(p \o c, q \o d)
  BY <1>1, <1>2, AddsBoth
<1> QED BY <1>3, <1>4

\* What a piece of a dispatcher is made of.
LEMMA PieceTypes ==
  ASSUME NEW b \in Pieces
  PROVE  /\ b.form \in Forms \cup {"data"} /\ b.selector \in Nat /\ b.selector \in 0..255 /\ b.inverted \in BOOLEAN
         /\ b.at \in Nat /\ b.at \in 0..255
         /\ b.bytes \in Seq(Nat) /\ Len(b.bytes) \in 1..32
<1>1. b.bytes \in Seq(0..255) /\ Len(b.bytes) \in 1..32
  BY DEF Pieces
<1>2. 0..255 \subseteq Nat
  OBVIOUS
<1>3. b.bytes \in Seq(Nat)
  BY <1>1, <1>2, SeqMonotonic
<1>4. b.selector \in 0..255 /\ b.at \in 0..255 /\ b.inverted \in BOOLEAN /\ b.form \in Forms \cup {"data"}
  BY DEF Pieces
<1> QED BY <1>1, <1>2, <1>3, <1>4

\* The operands of a comparison, in either order.
LEMMA OperandsAdd ==
  ASSUME NEW b \in Pieces, b.form # "data"
  PROVE  Adds(Operands(b), OperandsOf(b))
<1> DEFINE l == Load(b.at)
           k == LoadOf(b.at)
           p == PUSH(<<b.selector>>)
           q == <<Push(<<b.selector>>)>>
           p0 == PUSH(<<0, b.selector>>)
           q0 == <<Push(<<0, b.selector>>)>>
           p1 == PUSH(<<1, b.selector>>)
           q1 == <<Push(<<1, b.selector>>)>>
<1>1. b.selector \in Nat /\ b.at \in Nat /\ b.form \in Forms
  BY PieceTypes
<1>2. Adds(l, k)
  BY <1>1, LoadAdds
<1>3. Adds(p, q) /\ Adds(p0, q0) /\ Adds(p1, q1)
  BY <1>1, PushesOne, PushesTwo
<1>4. Operands(b) = (CASE b.form = "loadFirst" -> l \o p [] b.form = "loadLast" -> p \o l
                       [] b.form = "wide" -> l \o p0 [] b.form = "tooWide" -> l \o p1)
  BY DEF Operands
<1>5. OperandsOf(b) = (CASE b.form = "loadFirst" -> k \o q [] b.form = "loadLast" -> q \o k
                       [] b.form = "wide" -> k \o q0 [] b.form = "tooWide" -> k \o q1)
  BY DEF OperandsOf
<1> HIDE DEF l, k, p, q, p0, q0, p1, q1
<1>6. Adds(l \o p, k \o q) /\ Adds(p \o l, q \o k) /\ Adds(l \o p0, k \o q0) /\ Adds(l \o p1, k \o q1)
  BY <1>2, <1>3, AddsBoth
<1>7. CASE b.form = "loadFirst"
  BY <1>4, <1>5, <1>6, <1>7
<1>8. CASE b.form = "loadLast"
  BY <1>4, <1>5, <1>6, <1>8
<1>9. CASE b.form = "wide"
  BY <1>4, <1>5, <1>6, <1>9
<1>10. CASE b.form = "tooWide"
  BY <1>4, <1>5, <1>6, <1>10
<1> QED BY <1>1, <1>7, <1>8, <1>9, <1>10 DEF Forms

\* The code of a piece adds the instructions of the piece.
LEMMA PieceAdds ==
  ASSUME NEW b \in Pieces
  PROVE  Adds(CodeOf(b), InsOf(b))
<1>1. CASE b.form = "data"
  <2>1. Adds(PUSH(b.bytes), <<Push(b.bytes)>>)
    BY PieceTypes, AddsPush
  <2>2. CodeOf(b) = PUSH(b.bytes)
    BY <1>1 DEF CodeOf
  <2>3. InsOf(b) = <<Push(b.bytes)>>
    BY <1>1 DEF InsOf
  <2> QED BY <2>1, <2>2, <2>3
<1>2. CASE b.form # "data"
  <2> DEFINE o == Operands(b)
             i == OperandsOf(b)
             e == <<OpEq>>
             f == <<Plainly(OpEq)>>
             z == IF b.inverted THEN <<OpIsZero>> ELSE <<>>
             y == IF b.inverted THEN <<Plainly(OpIsZero)>> ELSE <<>>
             p == PUSH(<<9>>)
             q == <<Push(<<9>>)>>
             j == <<OpJumpi>>
             k == <<Plainly(OpJumpi)>>
  <2>1. Adds(o, i)
    BY <1>2, OperandsAdd
  <2>2. Adds(e, f) /\ Adds(j, k) /\ Adds(<<OpIsZero>>, <<Plainly(OpIsZero)>>)
    BY PlainOps
  <2>3. Adds(p, q)
    BY PushesOne
  <2>4. Adds(z, y)
    BY <2>2, AddsNone
  <2>5. CodeOf(b) = (((o \o e) \o z) \o p) \o j
    BY <1>2 DEF CodeOf
  <2>6. InsOf(b) = (((i \o f) \o y) \o q) \o k
    BY <1>2 DEF InsOf
  <2> HIDE DEF o, i, e, f, z, y, p, q, j, k
  <2>7. Adds(o \o e, i \o f)
    BY <2>1, <2>2, AddsBoth
  <2>8. Adds((o \o e) \o z, (i \o f) \o y)
    BY <2>4, <2>7, AddsBoth
  <2>9. Adds(((o \o e) \o z) \o p, ((i \o f) \o y) \o q)
    BY <2>3, <2>8, AddsBoth
  <2>10. Adds((((o \o e) \o z) \o p) \o j, (((i \o f) \o y) \o q) \o k)
    BY <2>2, <2>9, AddsBoth
  <2> QED BY <2>5, <2>6, <2>10
<1> QED BY <1>1, <1>2

\* A comparison, instruction by instruction.
Longer(t, s, x, m) == Len(t) = m /\ t[m] = x /\ \A i \in 1..(m - 1) : t[i] = s[i]

\* A sequence with one more behind it, by its length.
LEMMA EndsAt ==
  ASSUME NEW S, NEW s \in Seq(S), NEW x \in S, NEW m, m = Len(s) + 1, NEW t, t = s \o <<x>>
  PROVE  t \in Seq(S) /\ Longer(t, s, x, m)
<1> DEFINE u == s \o <<x>>
<1>1. /\ u \in Seq(S) /\ Len(u) = Len(s) + 1 /\ u[Len(s) + 1] = x
      /\ \A i \in 1..Len(s) : u[i] = s[i]
  BY EndsWith
<1>2. t = u
  OBVIOUS
<1> HIDE DEF u
<1>3. m - 1 = Len(s)
  BY LenProperties
<1>4. t[m] = x
  BY <1>1, <1>2
<1> QED BY <1>1, <1>2, <1>3, <1>4 DEF Longer

Three(s, x, y, z) == Len(s) = 3 /\ s[1] = x /\ s[2] = y /\ s[3] = z

\* A sequence of three.
LEMMA ThreeIs ==
  ASSUME NEW S, NEW x \in S, NEW y \in S, NEW z \in S, NEW s, s = (<<x>> \o <<y>>) \o <<z>>
  PROVE  s \in Seq(S) /\ Three(s, x, y, z)
<1> DEFINE one == <<x>>
           two == one \o <<y>>
<1>1. one \in Seq(S) /\ Len(one) = 1 /\ one[1] = x /\ 2 = Len(one) + 1
  BY OneIs
<1> HIDE DEF one
<1>2. two \in Seq(S) /\ Longer(two, one, y, 2)
  BY <1>1, EndsAt
<1>3. s = two \o <<z>>
  BY DEF one
<1> HIDE DEF two
<1>4. Len(two) = 2 /\ two[1] = x /\ two[2] = y /\ 3 = Len(two) + 1
  BY <1>1, <1>2 DEF Longer
<1>5. s \in Seq(S) /\ Longer(s, two, z, 3)
  BY <1>2, <1>3, <1>4, EndsAt
<1>6. Len(s) = 3 /\ s[3] = z
  BY ONLY <1>5 DEF Longer
<1>7. s[1] = two[1] /\ s[2] = two[2]
  <2>1. \A i \in 1..(3 - 1) : s[i] = two[i]
    BY ONLY <1>5 DEF Longer
  <2>2. 1 \in 1..(3 - 1) /\ 2 \in 1..(3 - 1)
    OBVIOUS
  <2> QED BY ONLY <2>1, <2>2
<1>8. Len(s) = 3 /\ s[1] = x /\ s[2] = y /\ s[3] = z
  BY ONLY <1>4, <1>6, <1>7
<1>9. Three(s, x, y, z)
  BY ONLY <1>8 DEF Three
<1> QED BY <1>5, <1>9

Compares(t, b) ==
  /\ t \in Seq(Instructions) /\ Len(t) = IF b.inverted THEN 7 ELSE 6
  /\ IF b.form = "loadLast" THEN t[1] = Push(<<b.selector>>) /\ t[2] = Push(<<b.at>>) /\ t[3] = Plainly(OpMload)
     ELSE t[1] = Push(<<b.at>>) /\ t[2] = Plainly(OpMload)
  /\ b.form = "loadFirst" => t[3] = Push(<<b.selector>>)
  /\ b.form = "wide" => t[3] = Push(<<0, b.selector>>)
  /\ b.form = "tooWide" => t[3] = Push(<<1, b.selector>>)
  /\ t[4] = Plainly(OpEq)
  /\ b.inverted => t[5] = Plainly(OpIsZero) /\ t[6] = Push(<<9>>) /\ t[7] = Plainly(OpJumpi)
  /\ ~b.inverted => t[5] = Push(<<9>>) /\ t[6] = Plainly(OpJumpi)

\* The instructions of a comparison: two operands, the EQ, and what tests it.
LEMMA PieceShape ==
  ASSUME NEW b \in Pieces, b.form # "data"
  PROVE  Compares(InsOf(b), b)
<1> DEFINE at == Push(<<b.at>>)
           sel == Push(<<b.selector>>)
           sel0 == Push(<<0, b.selector>>)
           sel1 == Push(<<1, b.selector>>)
           ml == Plainly(OpMload)
           eq == Plainly(OpEq)
           iz == Plainly(OpIsZero)
           nine == Push(<<9>>)
           ji == Plainly(OpJumpi)
           s3 == OperandsOf(b)
           s4 == s3 \o <<eq>>
           y == IF b.inverted THEN <<iz>> ELSE <<>>
           s5 == s4 \o y
           s6 == s5 \o <<nine>>
           s7 == s6 \o <<ji>>
<1>1. b.selector \in Nat /\ b.at \in Nat /\ b.form \in Forms /\ b.inverted \in BOOLEAN
  BY PieceTypes
<1>2. at \in Instructions /\ sel \in Instructions /\ sel0 \in Instructions /\ sel1 \in Instructions /\ nine \in Instructions
  BY <1>1, PushesOne, PushesTwo
<1>3. ml \in Instructions /\ eq \in Instructions /\ iz \in Instructions /\ ji \in Instructions
  BY PlainOps
<1>4. InsOf(b) = s7
  BY DEF InsOf
<1>5. s3 = (CASE b.form = "loadFirst" -> (<<at>> \o <<ml>>) \o <<sel>>
              [] b.form = "loadLast" -> <<sel>> \o (<<at>> \o <<ml>>)
              [] b.form = "wide" -> (<<at>> \o <<ml>>) \o <<sel0>>
              [] b.form = "tooWide" -> (<<at>> \o <<ml>>) \o <<sel1>>)
  BY DEF OperandsOf, LoadOf
<1> HIDE DEF at, sel, sel0, sel1, ml, eq, iz, nine, ji, s3
<1>6. <<sel>> \o (<<at>> \o <<ml>>) = (<<sel>> \o <<at>>) \o <<ml>>
  <2>1. <<sel>> \in Seq(Instructions) /\ <<at>> \in Seq(Instructions) /\ <<ml>> \in Seq(Instructions)
    BY <1>2, <1>3, OneIs
  <2> DEFINE p == <<sel>>
             q == <<at>>
             r == <<ml>>
  <2> HIDE DEF p, q, r
  <2>2. (p \o q) \o r = p \o (q \o r)
    BY <2>1, ConcatAssociative DEF p, q, r
  <2> QED BY <2>2 DEF p, q, r
<1>7. /\ s3 \in Seq(Instructions) /\ Len(s3) = 3
      /\ IF b.form = "loadLast" THEN s3[1] = sel /\ s3[2] = at /\ s3[3] = ml ELSE s3[1] = at /\ s3[2] = ml
      /\ b.form = "loadFirst" => s3[3] = sel
      /\ b.form = "wide" => s3[3] = sel0
      /\ b.form = "tooWide" => s3[3] = sel1
  <2>1. CASE b.form = "loadFirst"
    <3>1. s3 = (<<at>> \o <<ml>>) \o <<sel>>
      BY <1>5, <2>1
    <3>2. s3 \in Seq(Instructions) /\ Three(s3, at, ml, sel)
      BY <1>2, <1>3, <3>1, ThreeIs
    <3> QED BY <2>1, <3>2 DEF Three
  <2>2. CASE b.form = "loadLast"
    <3>1. s3 = (<<sel>> \o <<at>>) \o <<ml>>
      BY <1>5, <1>6, <2>2
    <3>2. s3 \in Seq(Instructions) /\ Three(s3, sel, at, ml)
      <4>1. at \in Instructions /\ ml \in Instructions /\ sel \in Instructions
        BY <1>2, <1>3
      <4> QED BY ONLY <3>1, <4>1, ThreeIs
    <3> QED BY <2>2, <3>2 DEF Three
  <2>3. CASE b.form = "wide"
    <3>1. s3 = (<<at>> \o <<ml>>) \o <<sel0>>
      BY <1>5, <2>3
    <3>2. s3 \in Seq(Instructions) /\ Three(s3, at, ml, sel0)
      <4>1. at \in Instructions /\ ml \in Instructions /\ sel0 \in Instructions
        BY <1>2, <1>3
      <4> QED BY ONLY <3>1, <4>1, ThreeIs
    <3> QED BY <2>3, <3>2 DEF Three
  <2>4. CASE b.form = "tooWide"
    <3>1. s3 = (<<at>> \o <<ml>>) \o <<sel1>>
      BY <1>5, <2>4
    <3>2. s3 \in Seq(Instructions) /\ Three(s3, at, ml, sel1)
      <4>1. at \in Instructions /\ ml \in Instructions /\ sel1 \in Instructions
        BY <1>2, <1>3
      <4> QED BY ONLY <3>1, <4>1, ThreeIs
    <3> QED BY <2>4, <3>2 DEF Three
  <2> QED BY <1>1, <2>1, <2>2, <2>3, <2>4 DEF Forms
<1>8. s4 \in Seq(Instructions) /\ Len(s4) = 4 /\ s4[4] = eq /\ \A i \in 1..3 : s4[i] = s3[i]
  <2>1. 4 = Len(s3) + 1
    BY <1>7
  <2>2. s4 \in Seq(Instructions) /\ Longer(s4, s3, eq, 4)
    BY <1>3, <1>7, <2>1, EndsAt
  <2> HIDE DEF s4
  <2> QED BY <2>2 DEF Longer
<1> HIDE DEF s4
<1>9. /\ b.inverted => s5 \in Seq(Instructions) /\ Len(s5) = 5 /\ s5[5] = iz
      /\ ~b.inverted => s5 \in Seq(Instructions) /\ Len(s5) = 4
      /\ \A i \in 1..4 : s5[i] = s4[i]
  <2>1. CASE b.inverted
    <3>1. s5 = s4 \o <<iz>> /\ 5 = Len(s4) + 1
      BY <1>8, <2>1
    <3> HIDE DEF s5
    <3>2. s5 \in Seq(Instructions) /\ Longer(s5, s4, iz, 5)
      BY <1>3, <1>8, <3>1, EndsAt
    <3> QED BY <2>1, <3>2 DEF Longer
  <2>2. CASE ~b.inverted
    <3>1. s5 = s4 \o <<>>
      BY <2>2
    <3>2. s5 = s4
      BY <1>8, <3>1, ConcatEmptySeq
    <3> HIDE DEF s5
    <3> QED BY <1>8, <2>2, <3>2
  <2> QED BY <2>1, <2>2
<1> HIDE DEF s5
<1>10. s5 \in Seq(Instructions)
  BY <1>9
<1>13. CASE b.inverted
  <2>0. Len(s5) = 5
    BY <1>9, <1>13
  <2>1. 6 = Len(s5) + 1
    BY <2>0
  <2>2. s6 \in Seq(Instructions) /\ Longer(s6, s5, nine, 6)
    BY <1>2, <1>10, <2>1, EndsAt
  <2> HIDE DEF s6
  <2>3. Len(s6) = 6 /\ 7 = Len(s6) + 1
    <3>1. Len(s6) = 6
      BY <2>2 DEF Longer
    <3> QED BY <3>1
  <2>s. s7 = s6 \o <<ji>> /\ ji \in Instructions
    BY <1>3
  <2> HIDE DEF s7
  <2>4. s7 \in Seq(Instructions) /\ Longer(s7, s6, ji, 7)
    <3> DEFINE I == Instructions
    <3>1. s6 \in Seq(I) /\ ji \in I /\ 7 = Len(s6) + 1 /\ s7 = s6 \o <<ji>>
      BY <2>s, <2>2, <2>3
    <3> HIDE DEF I
    <3>2. \A n : n = Len(s6) + 1 => s7 \in Seq(I) /\ Longer(s7, s6, ji, n)
      BY ONLY <3>1, EndsAt
    <3>3. s7 \in Seq(I) /\ Longer(s7, s6, ji, 7)
      BY ONLY <3>1, <3>2
    <3> QED BY <3>3 DEF I
  <2> HIDE DEF s7
  <2>5. Len(s7) = 7 /\ s7[6] = nine /\ s7[7] = ji /\ \A i \in 1..5 : s7[i] = s5[i]
    BY <2>2, <2>4 DEF Longer
  <2>6. s7[1] = s3[1] /\ s7[2] = s3[2] /\ s7[3] = s3[3] /\ s7[4] = eq /\ s7[5] = iz
    BY <1>8, <1>9, <1>13, <2>5
  <2> QED BY <1>4, <1>7, <1>13, <2>4, <2>5, <2>6 DEF Compares, at, sel, sel0, sel1, ml, eq, iz, nine, ji
<1>14. CASE ~b.inverted
  <2>0. Len(s5) = 4
    BY <1>9, <1>14
  <2>1. 5 = Len(s5) + 1
    BY <2>0
  <2>2. s6 \in Seq(Instructions) /\ Longer(s6, s5, nine, 5)
    BY <1>2, <1>10, <2>1, EndsAt
  <2> HIDE DEF s6
  <2>3. Len(s6) = 5 /\ 6 = Len(s6) + 1
    <3>1. Len(s6) = 5
      BY <2>2 DEF Longer
    <3> QED BY <3>1
  <2>s. s7 = s6 \o <<ji>> /\ ji \in Instructions
    BY <1>3
  <2> HIDE DEF s7
  <2>4. s7 \in Seq(Instructions) /\ Longer(s7, s6, ji, 6)
    BY ONLY <2>s, <2>2, <2>3, EndsAt
  <2> HIDE DEF s7
  <2>5. Len(s7) = 6 /\ s7[5] = nine /\ s7[6] = ji /\ \A i \in 1..4 : s7[i] = s5[i]
    BY <2>2, <2>4 DEF Longer
  <2>6. s7[1] = s3[1] /\ s7[2] = s3[2] /\ s7[3] = s3[3] /\ s7[4] = eq
    BY <1>8, <1>9, <1>14, <2>5
  <2> QED BY <1>4, <1>7, <1>14, <2>4, <2>5, <2>6 DEF Compares, at, sel, sel0, sel1, ml, eq, iz, nine, ji
<1> QED BY <1>13, <1>14

\* Where sequences sit in others.
Sits(s, t, off) == off + Len(t) <= Len(s) /\ \A r \in 1..Len(t) : s[off + r] = t[r]
Placed(s, seqs, n) ==
  /\ \A i \in 1..Len(s) : \E g \in 1..n : \E off \in Nat : \E r \in 1..Len(seqs[g]) : i = off + r /\ Sits(s, seqs[g], off)
  /\ \A g \in 1..n : \E off \in Nat : Sits(s, seqs[g], off)

\* A part of a sequence is still a part of it with something put in front or behind.
LEMMA SitsBehind ==
  ASSUME NEW S, NEW p \in Seq(S), NEW s \in Seq(S), NEW t \in Seq(S)
  PROVE  /\ \A off \in Nat : Sits(s, t, off) => Len(p) + off \in Nat /\ Sits(p \o s, t, Len(p) + off)
         /\ \A off \in Nat : Sits(s, t, off) => Sits(s \o p, t, off)
         /\ Sits(p \o s, p, 0) /\ Sits(p \o s, s, Len(p))
<1> DEFINE a == Len(p)
           b == Len(s)
           c == Len(t)
           u == p \o s
           v == s \o p
<1>1. a \in Nat /\ b \in Nat /\ c \in Nat
  BY LenProperties
<1>2. Len(u) = a + b /\ \A i \in 1..(a + b) : u[i] = IF i <= a THEN p[i] ELSE s[i - a]
  BY ConcatProperties
<1>3. Len(v) = b + a /\ \A i \in 1..(b + a) : v[i] = IF i <= b THEN s[i] ELSE p[i - b]
  BY ConcatProperties
<1> HIDE DEF a, b, c, u, v
<1>4. ASSUME NEW off \in Nat, Sits(s, t, off) PROVE a + off \in Nat /\ Sits(u, t, a + off)
  <2>1. off + c <= b /\ \A r \in 1..c : s[off + r] = t[r]
    BY <1>4 DEF Sits, b, c
  <2>2. a + off \in Nat /\ a + off + c <= a + b
    BY <1>1, <2>1
  <2>3. ASSUME NEW r \in 1..c PROVE u[a + off + r] = t[r]
    <3> DEFINE i == a + off + r
               j == off + r
    <3>1. i \in 1..(a + b) /\ ~(i <= a) /\ i - a = j
      BY <1>1, <2>1
    <3>2. s[j] = t[r]
      BY <2>1
    <3> HIDE DEF i, j
    <3>3. u[i] = t[r]
      BY <1>2, <3>1, <3>2
    <3> QED BY <3>3 DEF i
  <2> QED BY <1>2, <2>2, <2>3 DEF Sits, c
<1>5. ASSUME NEW off \in Nat, Sits(s, t, off) PROVE Sits(v, t, off)
  <2>1. off + c <= b /\ \A r \in 1..c : s[off + r] = t[r]
    BY <1>5 DEF Sits, b, c
  <2>2. off + c <= b + a
    BY <1>1, <2>1
  <2>3. ASSUME NEW r \in 1..c PROVE v[off + r] = t[r]
    <3> DEFINE j == off + r
    <3>1. j \in 1..(b + a) /\ j <= b
      BY <1>1, <2>1
    <3>2. s[j] = t[r]
      BY <2>1
    <3> HIDE DEF j
    <3>3. v[j] = t[r]
      BY <1>3, <3>1, <3>2
    <3> QED BY <3>3 DEF j
  <2> QED BY <1>3, <2>2, <2>3 DEF Sits, c
<1>6. Sits(u, p, 0)
  <2>1. \A r \in 1..a : 0 + r = r /\ r \in 1..(a + b) /\ r <= a
    BY <1>1
  <2>2. \A r \in 1..a : u[0 + r] = p[r]
    BY <1>2, <2>1
  <2>3. 0 + a <= a + b
    BY <1>1
  <2> QED BY <1>2, <2>2, <2>3 DEF Sits, a
<1>7. Sits(u, s, a)
  <2>1. ASSUME NEW r \in 1..b PROVE u[a + r] = s[r]
    <3> DEFINE i == a + r
    <3>1. i \in 1..(a + b) /\ ~(i <= a) /\ i - a = r
      BY <1>1
    <3> HIDE DEF i
    <3>2. u[i] = s[r]
      BY <1>2, <3>1
    <3> QED BY <3>2 DEF i
  <2>2. a + b <= a + b
    BY <1>1
  <2> QED BY <1>2, <2>1, <2>2 DEF Sits, b
<1> QED BY <1>4, <1>5, <1>6, <1>7 DEF a, u, v

\* A flattened sequence is made of its parts, each in its place.
LEMMA FlattenPlaced ==
  ASSUME NEW S, NEW seqs \in Seq(Seq(S))
  PROVE  FlattenSeq(seqs) \in Seq(S) /\ Placed(FlattenSeq(seqs), seqs, Len(seqs))
<1> DEFINE m == Len(seqs)
<1>1. m \in Nat
  BY LenProperties
<1>2. PICK f \in [0..Len(seqs) -> Seq(S)] : Joins(f, seqs, Len(seqs))
  BY Joined
<1>3. FlattenSeq(seqs) = f[m]
  BY <1>2, FlattenIs
<1>4. f[0] = <<>> /\ \A i \in 1..m : f[i] = f[i - 1] \o seqs[i]
  BY <1>2 DEF Joins
<1>5. \A i \in 0..m : f[i] \in Seq(S)
  BY <1>2
<1>6. \A i \in 1..m : seqs[i] \in Seq(S)
  BY ElementOfSeq
<1> HIDE DEF m
<1> DEFINE T == {n \in Nat : n <= m => Placed(f[n], seqs, n)}
<1>7. 0 \in T
  <2> DEFINE none == f[0]
  <2>1. Len(none) = 0
    BY <1>4
  <2> HIDE DEF none
  <2>2. Placed(none, seqs, 0)
    BY <2>1 DEF Placed
  <2> QED BY <2>2 DEF none
<1>8. ASSUME NEW n \in T PROVE n + 1 \in T
  <2>1. CASE ~(n + 1 <= m)
    BY <2>1
  <2>2. CASE n + 1 <= m
    <3> DEFINE k == n + 1
               p == f[n]
               s == seqs[k]
               u == f[k]
    <3>1. k \in 1..m /\ k - 1 = n /\ n <= m /\ n \in Nat /\ n \in 0..m /\ k \in 0..m
      BY <1>1, <2>2
    <3> HIDE DEF k
    <3>2. p \in Seq(S) /\ s \in Seq(S) /\ u \in Seq(S) /\ u = p \o s
      BY <1>4, <1>5, <1>6, <3>1
    <3>3. Placed(p, seqs, n)
      BY <3>1
    <3> HIDE DEF p, s, u, T
    <3>4. Len(p) \in Nat /\ Len(s) \in Nat /\ Len(u) = Len(p) + Len(s)
      BY <3>2, LenProperties, ConcatProperties
    <3>5. Sits(u, s, Len(p))
      BY <3>2, SitsBehind
    <3>6. ASSUME NEW g \in 1..n, NEW off \in Nat, Sits(p, seqs[g], off) PROVE Sits(u, seqs[g], off) /\ g \in 1..k
      <4>1. g \in 1..m /\ g \in 1..k
        BY <1>1, <3>1
      <4>2. seqs[g] \in Seq(S)
        BY <1>6, <4>1
      <4> DEFINE t == seqs[g]
      <4> HIDE DEF t
      <4>3. Sits(p \o s, t, off)
        BY <3>2, <3>6, <4>2, SitsBehind DEF t
      <4> QED BY <3>2, <4>1, <4>3 DEF t
    <3>7. ASSUME NEW i \in 1..Len(u)
          PROVE  \E g \in 1..k : \E off \in Nat : \E r \in 1..Len(seqs[g]) : i = off + r /\ Sits(u, seqs[g], off)
      <4>1. CASE i <= Len(p)
        <5>1. i \in 1..Len(p)
          BY <3>4, <4>1
        <5>2. PICK g \in 1..n : \E off \in Nat : \E r \in 1..Len(seqs[g]) : i = off + r /\ Sits(p, seqs[g], off)
          BY <3>3, <5>1 DEF Placed
        <5>3. PICK off \in Nat : \E r \in 1..Len(seqs[g]) : i = off + r /\ Sits(p, seqs[g], off)
          BY <5>2
        <5>4. Sits(u, seqs[g], off) /\ g \in 1..k
          BY <3>6, <5>3
        <5> QED BY <5>3, <5>4
      <4>2. CASE ~(i <= Len(p))
        <5> DEFINE off == Len(p)
                   r == i - off
        <5>1. off \in Nat /\ r \in 1..Len(s) /\ i = off + r
          BY <3>4, <4>2
        <5> HIDE DEF off, r
        <5>2. Sits(u, s, off) /\ k \in 1..k
          BY <3>1, <3>5 DEF off
        <5> QED BY <5>1, <5>2 DEF s
      <4> QED BY <4>1, <4>2
    <3>8. ASSUME NEW g \in 1..k PROVE \E off \in Nat : Sits(u, seqs[g], off)
      <4>1. CASE g = k
        BY <3>4, <3>5, <4>1 DEF s
      <4>2. CASE g # k
        <5>1. g \in 1..n
          BY <3>1, <4>2
        <5>2. PICK off \in Nat : Sits(p, seqs[g], off)
          BY <3>3, <5>1 DEF Placed
        <5> QED BY <3>6, <5>1, <5>2
      <4> QED BY <4>1, <4>2
    <3>9. Placed(u, seqs, k)
      BY <3>7, <3>8 DEF Placed
    <3> QED BY <3>9 DEF k, u, T
  <2> QED BY <2>1, <2>2
<1>9. T = Nat
  <2> HIDE DEF T
  <2>1. T \subseteq Nat
    BY DEF T
  <2> QED BY <1>7, <1>8, <2>1, Successors
<1>10. Placed(f[m], seqs, m)
  <2>1. m \in T
    <3> HIDE DEF T
    <3> QED BY <1>1, <1>9
  <2>2. m <= m
    BY <1>1
  <2> QED BY <2>1, <2>2
<1>11. f[m] \in Seq(S)
  <2>1. m \in 0..m
    BY <1>1
  <2> QED BY <1>5, <2>1
<1> QED BY <1>3, <1>10, <1>11 DEF m

\* What a program begins with, as it is read.
BeginsWith(slot, masked) ==
  IF slot = 0 THEN <<>>
  ELSE LoadOf(0) \o (IF masked THEN <<Push(<<255>>)>> \o <<Plainly(OpAnd)>> ELSE <<>>) \o <<Push(<<slot>>)>> \o <<Plainly(OpMstore)>>

\* The code that keeps the selector adds its instructions.
LEMMA PrologueAdds ==
  ASSUME NEW slot \in Nat, NEW masked \in BOOLEAN
  PROVE  Adds(Prologue(slot, masked), BeginsWith(slot, masked))
<1>1. CASE slot = 0
  BY <1>1, AddsNone DEF Prologue, BeginsWith
<1>2. CASE slot # 0
  <2> DEFINE l == Load(0)
             i == LoadOf(0)
             a == PUSH(<<255>>)
             b == <<Push(<<255>>)>>
             e == <<OpAnd>>
             f == <<Plainly(OpAnd)>>
             z == IF masked THEN a \o e ELSE <<>>
             y == IF masked THEN b \o f ELSE <<>>
             p == PUSH(<<slot>>)
             q == <<Push(<<slot>>)>>
             j == <<OpMstore>>
             k == <<Plainly(OpMstore)>>
  <2>1. Adds(l, i)
    BY LoadAdds
  <2>2. Adds(e, f) /\ Adds(j, k)
    BY PlainOps
  <2>3. Adds(a, b) /\ Adds(p, q)
    BY PushesOne
  <2>5. Prologue(slot, masked) = ((l \o z) \o p) \o j
    BY <1>2 DEF Prologue
  <2>6. BeginsWith(slot, masked) = ((i \o y) \o q) \o k
    BY <1>2 DEF BeginsWith
  <2> HIDE DEF l, i, a, b, e, f, p, q, j, k
  <2>7. Adds(a \o e, b \o f)
    BY <2>2, <2>3, AddsBoth
  <2>4. Adds(z, y)
    BY <2>7, AddsNone
  <2> HIDE DEF z, y
  <2>8. Adds(l \o z, i \o y)
    BY <2>1, <2>4, AddsBoth
  <2>9. Adds((l \o z) \o p, (i \o y) \o q)
    BY <2>3, <2>8, AddsBoth
  <2>10. Adds(((l \o z) \o p) \o j, ((i \o y) \o q) \o k)
    BY <2>2, <2>9, AddsBoth
  <2> QED BY <2>5, <2>6, <2>10
<1> QED BY <1>1, <1>2

\* The instructions of a program.
PartsOf(pieces) == [i \in 1..Len(pieces) |-> InsOf(pieces[i])]
Readable(p) == BeginsWith(p.slot, p.masked) \o FlattenSeq(PartsOf(p.pieces))
IsProgram(p) == p.slot \in 0..255 /\ p.masked \in BOOLEAN /\ p.pieces \in Seq(Pieces)

\* The parts of a program are the instructions of its pieces.
LEMMA PartsAre ==
  ASSUME NEW pieces \in Seq(Pieces)
  PROVE  /\ PartsOf(pieces) \in Seq(Seq(Instructions)) /\ Len(PartsOf(pieces)) = Len(pieces)
         /\ \A i \in 1..Len(pieces) : PartsOf(pieces)[i] = InsOf(pieces[i]) /\ pieces[i] \in Pieces
<1> DEFINE n == Len(pieces)
           s == PartsOf(pieces)
<1>1. n \in Nat
  BY LenProperties
<1>2. \A i \in 1..n : pieces[i] \in Pieces
  BY ElementOfSeq
<1>3. \A i \in 1..n : InsOf(pieces[i]) \in Seq(Instructions)
  BY <1>2, PieceAdds DEF Adds
<1>4. s = [i \in 1..n |-> InsOf(pieces[i])]
  BY DEF PartsOf
<1> HIDE DEF n, s
<1>5. s \in [1..n -> Seq(Instructions)]
  BY <1>3, <1>4
<1>6. s \in Seq(Seq(Instructions)) /\ Len(s) = n
  BY <1>1, <1>5
<1> QED BY <1>2, <1>4, <1>6 DEF n, s

\* The reader of the code gives back the instructions that the program was made of.
LEMMA ProgramReads ==
  ASSUME NEW p, IsProgram(p)
  PROVE  /\ Program(p) # Absent /\ Disassemble(Program(p)) = Readable(p)
         /\ Readable(p) \in Seq(Instructions)
         /\ BeginsWith(p.slot, p.masked) \in Seq(Instructions)
<1> DEFINE pieces == p.pieces
           n == Len(pieces)
           codes == [i \in DOMAIN p.pieces |-> CodeOf(p.pieces[i])]
           instrs == PartsOf(pieces)
           pro == Prologue(p.slot, p.masked)
           beg == BeginsWith(p.slot, p.masked)
           none == <<>>
<1>0. p.slot \in 0..255 /\ p.masked \in BOOLEAN /\ p.pieces \in Seq(Pieces)
  BY DEF IsProgram
<1>1. p.slot \in Nat /\ p.masked \in BOOLEAN /\ pieces \in Seq(Pieces)
  <2>1. 0..255 \subseteq Nat
    OBVIOUS
  <2> HIDE DEF codes, instrs, pro, beg, n, none
  <2>2. p.slot \in Nat
    BY <1>0, <2>1
  <2> QED BY <1>0, <2>2
<1>2. n \in Nat /\ DOMAIN pieces = 1..n
  BY <1>1, LenProperties
<1>3. instrs \in Seq(Seq(Instructions)) /\ Len(instrs) = n
      /\ \A i \in 1..n : instrs[i] = InsOf(pieces[i]) /\ pieces[i] \in Pieces
  BY <1>1, PartsAre
<1>4. \A i \in 1..n : Adds(CodeOf(pieces[i]), InsOf(pieces[i]))
  BY <1>3, PieceAdds
<1>5. codes = [i \in 1..n |-> CodeOf(pieces[i])]
  BY <1>2
<1>6. Program(p) = pro \o FlattenSeq(codes) /\ Readable(p) = beg \o FlattenSeq(instrs)
  BY DEF Program, Readable
<1> HIDE DEF n, codes, instrs
<1>7. codes \in Seq(Seq(Nat)) /\ Len(codes) = n
  <2>1. \A i \in 1..n : CodeOf(pieces[i]) \in Seq(Nat)
    BY <1>4 DEF Adds
  <2>2. codes \in [1..n -> Seq(Nat)]
    BY <1>5, <2>1
  <2> QED BY <1>2, <2>2
<1>8. \A k \in 1..Len(codes) : Adds(codes[k], instrs[k])
  BY <1>3, <1>4, <1>5, <1>7
<1>9. Adds(FlattenSeq(codes), FlattenSeq(instrs))
  BY <1>3, <1>7, <1>8, AddsAll
<1>10. Adds(pro, beg)
  BY <1>1, PrologueAdds
<1> DEFINE c == Program(p)
           r == Readable(p)
<1>11. Adds(c, r)
  BY <1>6, <1>9, <1>10, AddsBoth
<1> HIDE DEF c, r, pro, beg
<1>12. Decodes(none \o c, none \o r)
  <2>1. Decodes(none, none)
    BY DecodesNone
  <2>2. none \in Seq(Instructions)
    OBVIOUS
  <2> HIDE DEF none
  <2> QED BY <1>11, <2>1, <2>2 DEF Adds
<1>13. c \in Seq(Nat) /\ r \in Seq(Instructions)
  BY <1>11 DEF Adds
<1>14. none \o c = c /\ none \o r = r
  BY <1>13, ConcatEmptySeq
<1> HIDE DEF none
<1>15. Decodes(c, r)
  BY <1>12, <1>14
<1>16. Disassemble(c) = r
  BY <1>15, Disassembled
<1>17. c # Absent
  <2>1. Nat \subseteq Int
    OBVIOUS
  <2>2. c \in Seq(Int)
    BY <1>13, <2>1, SeqMonotonic
  <2> QED BY <2>2, SearchAssumption DEF SearchAssumption
<1>18. beg \in Seq(Instructions)
  BY <1>10 DEF Adds
<1> QED BY <1>13, <1>16, <1>17, <1>18 DEF c, r, beg

\* Which memory holds the selector and what it is compared with, part by part.
MaskedAt(ins, i) == IsPush(ins, i + 2) /\ ByteValues(ins[i + 2].arg) = {255} /\ Is(ins, i + 3, OpAnd)
StoredAt(ins, i) == IF MaskedAt(ins, i) THEN i + 4 ELSE i + 2
FoundAt(ins) ==
  {i \in 1..(Len(ins) - 3) :
     /\ IsPush(ins, i) /\ Value(ins[i].arg) = <<>> /\ Is(ins, i + 1, OpMload)
     /\ IsPush(ins, StoredAt(ins, i)) /\ Is(ins, StoredAt(ins, i) + 1, OpMstore)}
LoadsAt(ins, slots, k) == Is(ins, k, OpMload) /\ IsPush(ins, k - 1) /\ Value(ins[k - 1].arg) \in slots
TargetOf(ins, i) == IF Is(ins, i + 1, OpIsZero) THEN i + 2 ELSE i + 1
TestsIn(ins) ==
  {i \in 2..(Len(ins) - 2) :
     Is(ins, i, OpEq) /\ IsPush(ins, TargetOf(ins, i)) /\ Is(ins, TargetOf(ins, i) + 1, OpJumpi)}
ComparedAt(ins, slots, i) ==
  IF IsPush(ins, i - 1) /\ LoadsAt(ins, slots, i - 2) THEN ByteValues(ins[i - 1].arg)
  ELSE IF LoadsAt(ins, slots, i - 1) /\ IsPush(ins, i - 3) THEN ByteValues(ins[i - 3].arg)
  ELSE {}

\* They are what the slots and the selectors are made of.
LEMMA ComparedIs ==
  ASSUME NEW ins, NEW slots
  PROVE  /\ \A x : x \in SelectorSlots(ins) <=> x = <<>> \/ \E i \in FoundAt(ins) : x = Value(ins[StoredAt(ins, i)].arg)
         /\ \A x : x \in Compared(ins, slots) <=> \E i \in TestsIn(ins) : x \in ComparedAt(ins, slots, i)
<1>1. SelectorSlots(ins) = {<<>>} \cup {Value(ins[StoredAt(ins, i)].arg) : i \in FoundAt(ins)}
  BY DEF SelectorSlots, StoredAt, FoundAt, MaskedAt
<1>2. Compared(ins, slots) = UNION {ComparedAt(ins, slots, i) : i \in TestsIn(ins)}
  BY DEF Compared, ComparedAt, TestsIn, LoadsAt, TargetOf
<1>3. \A x : x \in {Value(ins[StoredAt(ins, i)].arg) : i \in FoundAt(ins)} <=> \E i \in FoundAt(ins) : x = Value(ins[StoredAt(ins, i)].arg)
  OBVIOUS
<1>4. \A x : x \in UNION {ComparedAt(ins, slots, i) : i \in TestsIn(ins)} <=> \E i \in TestsIn(ins) : x \in ComparedAt(ins, slots, i)
  OBVIOUS
<1>5. \A x : x \in {<<>>} <=> x = <<>>
  OBVIOUS
<1>6. \A x : x \in SelectorSlots(ins) <=> x \in {<<>>} \/ x \in {Value(ins[StoredAt(ins, i)].arg) : i \in FoundAt(ins)}
  BY <1>1
<1> QED BY <1>2, <1>3, <1>4, <1>5, <1>6

\* A byte as a value.
LEMMA ValueOfOne ==
  ASSUME NEW x \in Nat
  PROVE  /\ x = 0 => Value(<<x>>) = <<>>
         /\ x # 0 => Len(Value(<<x>>)) = 1 /\ Value(<<x>>)[1] = x
<1> DEFINE s == <<x>>
           D == {i \in DOMAIN s : s[i] # 0}
<1>1. s \in Seq(Nat) /\ Len(s) = 1 /\ s[1] = x /\ DOMAIN s = {1}
  OBVIOUS
<1>2. Value(s) = IF D = {} THEN <<>> ELSE SubSeq(s, Min(D), Len(s))
  BY DEF Value
<1> HIDE DEF s
<1>3. CASE x = 0
  <2>1. D = {}
    BY <1>1, <1>3
  <2> HIDE DEF D
  <2>2. Value(s) = <<>>
    BY <1>2, <2>1
  <2> QED BY <1>3, <2>2 DEF s
<1>4. CASE x # 0
  <2>1. D = {1}
    BY <1>1, <1>4
  <2> HIDE DEF D
  <2>2. Min(D) = 1
    <3>1. Min({1, 1}) = 1
      BY MinOfTwo
    <3>2. {1, 1} = {1}
      OBVIOUS
    <3> QED BY <2>1, <3>1, <3>2
  <2>3. Value(s) = SubSeq(s, 1, 1)
    BY <1>1, <1>2, <2>1, <2>2
  <2> DEFINE t == SubSeq(s, 1, 1)
             a == 1
  <2>4. Len(t) = 1 /\ t[1] = x
    <3>1. a \in Int /\ a - a + 1 = 1 /\ \A i \in a..a : s[i] \in Nat
      BY <1>1
    <3>2. /\ SubSeq(s, a, a) \in Seq(Nat) /\ Len(SubSeq(s, a, a)) = (IF a <= a THEN a - a + 1 ELSE 0)
          /\ \A i \in 1..(a - a + 1) : SubSeq(s, a, a)[i] = s[a + i - 1]
      <4> HIDE DEF a
      <4> QED BY <1>1, <3>1, SubSeqProperties
    <3> QED BY <1>1, <3>2
  <2> HIDE DEF t
  <2> QED BY <1>4, <2>3, <2>4 DEF t, s
<1> QED BY <1>3, <1>4

\* The empty value and that of a byte are the selector's exactly if the byte is zero or the slot.
LEMMA ValuesOf ==
  ASSUME NEW x \in Nat, NEW y \in Nat
  PROVE  (Value(<<x>>) = <<>> \/ Value(<<x>>) = Value(<<y>>)) <=> (x = 0 \/ x = y)
<1> DEFINE a == Value(<<x>>)
           b == Value(<<y>>)
           none == <<>>
<1>1. /\ x = 0 => a = none
      /\ x # 0 => Len(a) = 1 /\ a[1] = x
      /\ y = 0 => b = none
      /\ y # 0 => Len(b) = 1 /\ b[1] = y
  BY ValueOfOne
<1>2. Len(none) = 0
  OBVIOUS
<1>3. x = y => a = b
  OBVIOUS
<1> HIDE DEF a, b, none
<1>4. (a = none \/ a = b) <=> (x = 0 \/ x = y)
  BY <1>1, <1>2, <1>3
<1> QED BY <1>4 DEF a, b, none

\* What a comparison is with.
LEMMA ByteOf ==
  ASSUME NEW x \in Nat
  PROVE  ByteValues(<<x>>) = {x} /\ ByteValues(<<0, x>>) = {x} /\ ByteValues(<<1, x>>) = {}
<1>1. Last(<<x>>) = x /\ Last(<<0, x>>) = x
  BY DEF Last
<1>2. ByteValues(<<x>>) = {x}
  <2>1. <<x>> # <<>> /\ \A i \in 1..(Len(<<x>>) - 1) : <<x>>[i] = 0
    OBVIOUS
  <2> QED BY <1>1, <2>1 DEF ByteValues
<1>3. ByteValues(<<0, x>>) = {x}
  <2>1. <<0, x>> # <<>> /\ \A i \in 1..(Len(<<0, x>>) - 1) : <<0, x>>[i] = 0
    OBVIOUS
  <2> QED BY <1>1, <2>1 DEF ByteValues
<1>4. ByteValues(<<1, x>>) = {}
  <2>1. Len(<<1, x>>) = 2 /\ <<1, x>>[1] = 1
    OBVIOUS
  <2>2. ~ \A i \in 1..(Len(<<1, x>>) - 1) : <<1, x>>[i] = 0
    BY <2>1
  <2> QED BY <2>2 DEF ByteValues
<1> QED BY <1>2, <1>3, <1>4

\* What is pushed and what is not.
LEMMA PushIs ==
  ASSUME NEW s \in Seq(Nat), Len(s) \in 1..32
  PROVE  Push(s).op \in OpPush1..OpPush32 /\ Push(s).arg = s
         /\ \A op \in {OpEq, OpIsZero, OpAnd, OpMload, OpMstore, OpJumpi} : Push(s).op # op
<1> DEFINE n == Len(s)
<1>1. Push(s).op = OpPush1 + n - 1 /\ Push(s).arg = s
  BY DEF Push, Instruction
<1> HIDE DEF n
<1>2. n \in 1..32
  BY DEF n
<1>3. OpPush1 + n - 1 \in 96..127
  BY <1>2 DEF OpPush1
<1>4. Push(s).op \in OpPush1..OpPush32
  BY <1>1, <1>3 DEF OpPush1, OpPush32
<1>5. \A op \in {OpEq, OpIsZero, OpAnd, OpMload, OpMstore, OpJumpi} : Push(s).op # op
  BY <1>4, PlainOps
<1> QED BY <1>1, <1>4, <1>5

\* What stands around a comparison, and what it tells.
LoadsWith(ins, slots, k, j) == Is(ins, k, OpMload) /\ IsPush(ins, j) /\ Value(ins[j].arg) \in slots
ComparedWith(ins, slots, j1, j2, j3) ==
  IF IsPush(ins, j3) /\ LoadsWith(ins, slots, j2, j1) THEN ByteValues(ins[j3].arg)
  ELSE IF LoadsWith(ins, slots, j3, j2) /\ IsPush(ins, j1) THEN ByteValues(ins[j1].arg)
  ELSE {}
TestedWith(ins, j5, j6, j7) ==
  IF Is(ins, j5, OpIsZero) THEN IsPush(ins, j6) /\ Is(ins, j7, OpJumpi) ELSE IsPush(ins, j5) /\ Is(ins, j6, OpJumpi)

\* What an EQ compares and whether it is tested depends on the three instructions before and behind
\* it.
LEMMA AroundIs ==
  ASSUME NEW ins, NEW slots, NEW i \in Int, NEW j1, NEW j2, NEW j3, NEW j5, NEW j6, NEW j7,
         j1 = i - 3, j2 = i - 2, j3 = i - 1, j5 = i + 1, j6 = i + 2, j7 = i + 3
  PROVE  /\ Same(ComparedAt(ins, slots, i), ComparedWith(ins, slots, j1, j2, j3))
         /\ i \in TestsIn(ins) <=> i \in 2..(Len(ins) - 2) /\ Is(ins, i, OpEq) /\ TestedWith(ins, j5, j6, j7)
<1> DEFINE c == ByteValues(ins[j3].arg)
           d == ByteValues(ins[j1].arg)
<1>1. j2 - 1 = j1 /\ j3 - 1 = j2 /\ j5 + 1 = j6 /\ j6 + 1 = j7
  OBVIOUS
<1>2. LoadsAt(ins, slots, j2) <=> LoadsWith(ins, slots, j2, j1)
  BY <1>1 DEF LoadsAt, LoadsWith
<1>3. LoadsAt(ins, slots, j3) <=> LoadsWith(ins, slots, j3, j2)
  BY <1>1 DEF LoadsAt, LoadsWith
<1>4. ComparedAt(ins, slots, i) = IF IsPush(ins, j3) /\ LoadsAt(ins, slots, j2) THEN c
                                 ELSE IF LoadsAt(ins, slots, j3) /\ IsPush(ins, j1) THEN d ELSE {}
  BY DEF ComparedAt
<1>5. ComparedWith(ins, slots, j1, j2, j3) = IF IsPush(ins, j3) /\ LoadsWith(ins, slots, j2, j1) THEN c
                                 ELSE IF LoadsWith(ins, slots, j3, j2) /\ IsPush(ins, j1) THEN d ELSE {}
  BY DEF ComparedWith
<1> HIDE DEF c, d
<1>6. ComparedAt(ins, slots, i) = ComparedWith(ins, slots, j1, j2, j3)
  BY <1>2, <1>3, <1>4, <1>5
<1>7. TargetOf(ins, i) = IF Is(ins, j5, OpIsZero) THEN j6 ELSE j5
  BY DEF TargetOf
<1>8. (IsPush(ins, TargetOf(ins, i)) /\ Is(ins, TargetOf(ins, i) + 1, OpJumpi)) <=> TestedWith(ins, j5, j6, j7)
  <2>1. CASE Is(ins, j5, OpIsZero)
    <3>1. TargetOf(ins, i) = j6
      BY <1>7, <2>1
    <3> QED BY <1>1, <2>1, <3>1 DEF TestedWith
  <2>2. CASE ~Is(ins, j5, OpIsZero)
    <3>1. TargetOf(ins, i) = j5
      BY <1>7, <2>2
    <3> QED BY <1>1, <2>2, <3>1 DEF TestedWith
  <2> QED BY <2>1, <2>2
<1>9. i \in TestsIn(ins) <=> i \in 2..(Len(ins) - 2) /\ Is(ins, i, OpEq) /\ IsPush(ins, TargetOf(ins, i)) /\ Is(ins, TargetOf(ins, i) + 1, OpJumpi)
  BY DEF TestsIn
<1> QED BY <1>6, <1>8, <1>9 DEF Same

\* A comparison where it stands is one with its selector if the word it loads is the selector's.
Fourth(i, off) == i = off + 4
Tells(ins, slots, b, i) ==
  /\ i \in TestsIn(ins)
  /\ \A x : x \in ComparedAt(ins, slots, i) <=> b.form # "tooWide" /\ Value(<<b.at>>) \in slots /\ x = b.selector

\* Around the EQ of a piece of the program are the instructions of the piece, and they tell its
\* selector.
LEMMA PieceWindow ==
  ASSUME NEW ins \in Seq(Instructions), NEW b \in Pieces, b.form # "data", NEW off \in Nat,
         Sits(ins, InsOf(b), off), NEW slots, NEW i, Fourth(i, off)
  PROVE  Tells(ins, slots, b, i)
<1> DEFINE t == InsOf(b)
           n == Len(t)
           N == Len(ins)
           at == Push(<<b.at>>)
           sel == Push(<<b.selector>>)
           sel0 == Push(<<0, b.selector>>)
           sel1 == Push(<<1, b.selector>>)
           nine == Push(<<9>>)
           ml == Plainly(OpMload)
           eq == Plainly(OpEq)
           iz == Plainly(OpIsZero)
           ji == Plainly(OpJumpi)
           j1 == off + 1
           j2 == off + 2
           j3 == off + 3
           j4 == off + 4
           j5 == off + 5
           j6 == off + 6
           j7 == off + 7
<1>1. b.form \in Forms /\ b.selector \in Nat /\ b.inverted \in BOOLEAN /\ b.at \in Nat
  BY PieceTypes
<1>2. Compares(t, b)
  BY PieceShape
<1>3. N \in Nat /\ DOMAIN ins = 1..N
  BY LenProperties
<1>4. off + n <= N /\ \A r \in 1..n : ins[off + r] = t[r]
  BY DEF Sits
<1>5. /\ IF b.form = "loadLast" THEN t[1] = sel /\ t[2] = at /\ t[3] = ml ELSE t[1] = at /\ t[2] = ml
      /\ b.form = "loadFirst" => t[3] = sel
      /\ b.form = "wide" => t[3] = sel0
      /\ b.form = "tooWide" => t[3] = sel1
      /\ t[4] = eq
      /\ b.inverted => t[5] = iz /\ t[6] = nine /\ t[7] = ji
      /\ ~b.inverted => t[5] = nine /\ t[6] = ji
      /\ n = IF b.inverted THEN 7 ELSE 6
  BY <1>2 DEF Compares
<1>6. /\ \A p \in {at, sel, sel0, sel1, nine} : p.op \in OpPush1..OpPush32
      /\ at.arg = <<b.at>> /\ sel.arg = <<b.selector>> /\ sel0.arg = <<0, b.selector>> /\ sel1.arg = <<1, b.selector>>
  <2>1. \A x \in Nat : Push(<<x>>).op \in OpPush1..OpPush32 /\ Push(<<x>>).arg = <<x>>
    <3> SUFFICES ASSUME NEW x \in Nat PROVE Push(<<x>>).op \in OpPush1..OpPush32 /\ Push(<<x>>).arg = <<x>>
      OBVIOUS
    <3> DEFINE s == <<x>>
    <3>1. s \in Seq(Nat) /\ Len(s) \in 1..32
      OBVIOUS
    <3> HIDE DEF s
    <3>2. Push(s).op \in OpPush1..OpPush32 /\ Push(s).arg = s
      BY <3>1, PushIs
    <3> QED BY <3>2 DEF s
  <2>2. \A x, y \in Nat : Push(<<x, y>>).op \in OpPush1..OpPush32 /\ Push(<<x, y>>).arg = <<x, y>>
    <3> SUFFICES ASSUME NEW x \in Nat, NEW y \in Nat
                 PROVE  Push(<<x, y>>).op \in OpPush1..OpPush32 /\ Push(<<x, y>>).arg = <<x, y>>
      OBVIOUS
    <3> DEFINE s == <<x, y>>
    <3>1. s \in Seq(Nat) /\ Len(s) \in 1..32
      OBVIOUS
    <3> HIDE DEF s
    <3>2. Push(s).op \in OpPush1..OpPush32 /\ Push(s).arg = s
      BY <3>1, PushIs
    <3> QED BY <3>2 DEF s
  <2> QED BY <1>1, <2>1, <2>2
<1>7. /\ ml.op = OpMload /\ eq.op = OpEq /\ iz.op = OpIsZero /\ ji.op = OpJumpi
      /\ \A op \in {OpEq, OpIsZero, OpMload, OpJumpi} : op \notin OpPush1..OpPush32
  BY PlainOps
<1> HIDE DEF t, n, N, at, sel, sel0, sel1, nine, ml, eq, iz, ji
<1>8. 1 \in 1..n /\ 2 \in 1..n /\ 3 \in 1..n /\ 4 \in 1..n /\ 5 \in 1..n /\ 6 \in 1..n /\ (b.inverted => 7 \in 1..n)
  BY <1>1, <1>5
<1>9. /\ ins[j1] = t[1] /\ ins[j2] = t[2] /\ ins[j3] = t[3] /\ ins[j4] = t[4] /\ ins[j5] = t[5] /\ ins[j6] = t[6]
      /\ b.inverted => ins[j7] = t[7]
  BY <1>4, <1>8
<1>10. /\ j1 \in 1..N /\ j2 \in 1..N /\ j3 \in 1..N /\ j4 \in 1..N /\ j5 \in 1..N /\ j6 \in 1..N
       /\ b.inverted => j7 \in 1..N
       /\ i \in Int /\ i = j4 /\ j1 = i - 3 /\ j2 = i - 2 /\ j3 = i - 1 /\ j5 = i + 1 /\ j6 = i + 2 /\ j7 = i + 3
       /\ i \in 2..(N - 2)
  BY <1>1, <1>3, <1>4, <1>5 DEF Fourth
<1> HIDE DEF j1, j2, j3, j4, j5, j6, j7
<1>11. /\ Same(ComparedAt(ins, slots, i), ComparedWith(ins, slots, j1, j2, j3))
       /\ i \in TestsIn(ins) <=> i \in 2..(Len(ins) - 2) /\ Is(ins, i, OpEq) /\ TestedWith(ins, j5, j6, j7)
  BY <1>10, AroundIs
<1>12. i \in TestsIn(ins)
  <2>1. Is(ins, i, OpEq)
    BY <1>3, <1>5, <1>7, <1>9, <1>10 DEF Is
  <2>2. CASE b.inverted
    <3>1. Is(ins, j5, OpIsZero)
      BY <1>3, <1>5, <1>7, <1>9, <1>10, <2>2 DEF Is
    <3>2. IsPush(ins, j6)
      BY <1>3, <1>5, <1>6, <1>9, <1>10, <2>2 DEF IsPush
    <3>3. Is(ins, j7, OpJumpi)
      BY <1>3, <1>5, <1>7, <1>9, <1>10, <2>2 DEF Is
    <3>4. TestedWith(ins, j5, j6, j7)
      BY <3>1, <3>2, <3>3 DEF TestedWith
    <3> QED BY <1>10, <1>11, <2>1, <3>4 DEF N
  <2>3. CASE ~b.inverted
    <3>1. ~Is(ins, j5, OpIsZero)
      <4>1. ins[j5] = nine
        BY <1>5, <1>9, <2>3
      <4>2. ins[j5].op # OpIsZero
        BY <1>6, <1>7, <4>1
      <4> QED BY <4>2 DEF Is
    <3>2. IsPush(ins, j5)
      BY <1>3, <1>5, <1>6, <1>9, <1>10, <2>3 DEF IsPush
    <3>3. Is(ins, j6, OpJumpi)
      BY <1>3, <1>5, <1>7, <1>9, <1>10, <2>3 DEF Is
    <3>4. TestedWith(ins, j5, j6, j7)
      BY <3>1, <3>2, <3>3 DEF TestedWith
    <3> QED BY <1>10, <1>11, <2>1, <3>4 DEF N
  <2> QED BY <2>2, <2>3
<1>13. ComparedAt(ins, slots, i) = ComparedWith(ins, slots, j1, j2, j3)
  BY <1>11 DEF Same
<1> DEFINE V == Value(<<b.at>>) \in slots
<1>14. CASE b.form = "loadLast"
  <2>1. ins[j1] = sel /\ ins[j2] = at /\ ins[j3] = ml
    BY <1>5, <1>9, <1>14
  <2>2. ~IsPush(ins, j3)
    BY <1>7, <2>1 DEF IsPush
  <2>3. IsPush(ins, j1)
    BY <1>3, <1>6, <1>10, <2>1 DEF IsPush
  <2>4. LoadsWith(ins, slots, j3, j2) <=> V
    <3>1. Is(ins, j3, OpMload)
      BY <1>3, <1>7, <1>10, <2>1 DEF Is
    <3>2. IsPush(ins, j2)
      BY <1>3, <1>6, <1>10, <2>1 DEF IsPush
    <3>3. ins[j2].arg = <<b.at>>
      BY <1>6, <2>1
    <3> QED BY <3>1, <3>2, <3>3 DEF LoadsWith
  <2>5. ByteValues(ins[j1].arg) = {b.selector}
    <3>1. ins[j1].arg = <<b.selector>>
      BY <1>6, <2>1
    <3> QED BY <1>1, <3>1, ByteOf
  <2> HIDE DEF V
  <2>6. ComparedWith(ins, slots, j1, j2, j3) = IF V THEN {b.selector} ELSE {}
    BY <2>2, <2>3, <2>4, <2>5 DEF ComparedWith
  <2>7. b.form # "tooWide"
    BY <1>14
  <2>8. \A x : x \in ComparedAt(ins, slots, i) <=> V /\ x = b.selector
    BY <1>13, <2>6
  <2> QED BY <1>12, <2>7, <2>8 DEF V, Tells
<1>15. CASE b.form # "loadLast"
  <2> DEFINE p == t[3]
             r == ByteValues(p.arg)
  <2>1. ins[j1] = at /\ ins[j2] = ml /\ ins[j3] = p /\ p \in {sel, sel0, sel1}
    BY <1>1, <1>5, <1>9, <1>15 DEF Forms
  <2>2. IsPush(ins, j3)
    BY <1>3, <1>6, <1>10, <2>1 DEF IsPush
  <2>3. LoadsWith(ins, slots, j2, j1) <=> V
    <3>1. Is(ins, j2, OpMload)
      BY <1>3, <1>7, <1>10, <2>1 DEF Is
    <3>2. IsPush(ins, j1)
      BY <1>3, <1>6, <1>10, <2>1 DEF IsPush
    <3>3. ins[j1].arg = <<b.at>>
      BY <1>6, <2>1
    <3> QED BY <3>1, <3>2, <3>3 DEF LoadsWith
  <2>4. ~LoadsWith(ins, slots, j3, j2)
    <3>1. ins[j3].op # OpMload
      BY <1>6, <1>7, <2>1
    <3> QED BY <3>1 DEF LoadsWith, Is
  <2>5. r = IF b.form = "tooWide" THEN {} ELSE {b.selector}
    <3>1. CASE b.form = "loadFirst"
      <4>1. p.arg = <<b.selector>>
        BY <1>5, <1>6, <3>1
      <4> QED BY <1>1, <3>1, <4>1, ByteOf
    <3>2. CASE b.form = "wide"
      <4>1. p.arg = <<0, b.selector>>
        BY <1>5, <1>6, <3>2
      <4> QED BY <1>1, <3>2, <4>1, ByteOf
    <3>3. CASE b.form = "tooWide"
      <4>1. p.arg = <<1, b.selector>>
        BY <1>5, <1>6, <3>3
      <4> QED BY <1>1, <3>3, <4>1, ByteOf
    <3> QED BY <1>1, <1>15, <3>1, <3>2, <3>3 DEF Forms
  <2>6. ByteValues(ins[j3].arg) = r
    BY <2>1
  <2> HIDE DEF V, r, p
  <2>7. ComparedWith(ins, slots, j1, j2, j3) = IF V THEN r ELSE {}
    BY <2>2, <2>3, <2>4, <2>6 DEF ComparedWith
  <2>8. \A x : x \in ComparedAt(ins, slots, i) <=> b.form # "tooWide" /\ V /\ x = b.selector
    BY <1>13, <2>5, <2>7
  <2> QED BY <1>12, <2>8 DEF V, Tells
<1> QED BY <1>14, <1>15

\* Of a piece, only the fourth instruction can compare, and none stores.
LEMMA PieceOps ==
  ASSUME NEW b \in Pieces, NEW r \in 1..Len(InsOf(b))
  PROVE  /\ InsOf(b)[r].op = OpEq => b.form # "data" /\ r = 4
         /\ InsOf(b)[r].op # OpMstore
         /\ b.form # "data" => InsOf(b)[4].op = OpEq /\ 4 \in 1..Len(InsOf(b))
<1> DEFINE t == InsOf(b)
           other == {OpIsZero, OpMload, OpJumpi}
<1>0. \A op \in {OpEq, OpIsZero, OpAnd, OpMload, OpMstore, OpJumpi} : Plainly(op).op = op
  BY PlainOps
<1>1. ASSUME NEW s \in Seq(Nat), Len(s) \in 1..32 PROVE Push(s).op # OpEq /\ Push(s).op # OpMstore
  BY <1>1, PushIs
<1>2. ASSUME NEW x \in Nat, NEW y \in Nat
      PROVE  Push(<<x>>).op # OpEq /\ Push(<<x>>).op # OpMstore /\ Push(<<x, y>>).op # OpEq /\ Push(<<x, y>>).op # OpMstore
  <2> DEFINE s == <<x>>
             u == <<x, y>>
  <2>1. s \in Seq(Nat) /\ Len(s) \in 1..32 /\ u \in Seq(Nat) /\ Len(u) \in 1..32
    OBVIOUS
  <2> HIDE DEF s, u
  <2>2. Push(s).op # OpEq /\ Push(s).op # OpMstore /\ Push(u).op # OpEq /\ Push(u).op # OpMstore
    BY <1>1, <2>1
  <2> QED BY <2>2 DEF s, u
<1>3. CASE b.form = "data"
  <2> DEFINE p == Push(b.bytes)
  <2>1. p.op # OpEq /\ p.op # OpMstore
    BY <1>1, PieceTypes
  <2>2. t = <<p>>
    BY <1>3 DEF InsOf
  <2> HIDE DEF p
  <2>3. Len(t) = 1 /\ t[1] = p
    BY <2>2
  <2>4. r = 1
    BY <2>3
  <2> QED BY <1>3, <2>1, <2>3, <2>4
<1>4. CASE b.form # "data"
  <2> DEFINE at == Push(<<b.at>>)
             sel == Push(<<b.selector>>)
             sel0 == Push(<<0, b.selector>>)
             sel1 == Push(<<1, b.selector>>)
             nine == Push(<<9>>)
  <2>0. b.selector \in Nat /\ b.at \in Nat /\ b.form \in Forms \cup {"data"} /\ b.inverted \in BOOLEAN
    BY ONLY b \in Pieces, PieceTypes
  <2>1. b.selector \in Nat /\ b.at \in Nat /\ b.form \in Forms /\ b.inverted \in BOOLEAN
    BY ONLY <1>4, <2>0
  <2>2. Compares(t, b)
    BY <1>4, PieceShape
  <2>3. \A p \in {at, sel, sel0, sel1, nine} : p.op # OpEq /\ p.op # OpMstore
    BY <1>2, <2>1
  <2>4. \A p \in {Plainly(OpMload), Plainly(OpIsZero), Plainly(OpJumpi)} : p.op # OpEq /\ p.op # OpMstore
    BY <1>0 DEF OpEq, OpIsZero, OpMload, OpMstore, OpJumpi
  <2>5. Plainly(OpEq).op = OpEq /\ OpEq # OpMstore
    BY <1>0 DEF OpEq, OpMstore
  <2> HIDE DEF t
  <2>6. /\ IF b.form = "loadLast" THEN t[1] = sel /\ t[2] = at /\ t[3] = Plainly(OpMload) ELSE t[1] = at /\ t[2] = Plainly(OpMload)
        /\ b.form = "loadFirst" => t[3] = sel
        /\ b.form = "wide" => t[3] = sel0
        /\ b.form = "tooWide" => t[3] = sel1
        /\ t[4] = Plainly(OpEq)
        /\ b.inverted => t[5] = Plainly(OpIsZero) /\ t[6] = nine /\ t[7] = Plainly(OpJumpi)
        /\ ~b.inverted => t[5] = nine /\ t[6] = Plainly(OpJumpi)
        /\ Len(t) = IF b.inverted THEN 7 ELSE 6
    BY <2>2 DEF Compares
  <2> HIDE DEF at, sel, sel0, sel1, nine
  <2> DEFINE good(q) == q.op # OpEq /\ q.op # OpMstore
  <2>7. good(t[1]) /\ good(t[2])
    BY <2>3, <2>4, <2>6
  <2>8. good(t[3])
    BY <2>1, <2>3, <2>4, <2>6 DEF Forms
  <2>9. good(t[5]) /\ good(t[6]) /\ (b.inverted => good(t[7]))
    BY <2>1, <2>3, <2>4, <2>6
  <2>10. r \in 1..6 \/ (b.inverted /\ r = 7)
    BY <2>1, <2>6, t = InsOf(b) DEF t
  <2>11. r # 4 => good(t[r])
    BY <2>7, <2>8, <2>9, <2>10
  <2>12. t[4].op = OpEq /\ t[4].op # OpMstore
    BY <2>5, <2>6
  <2>13. 4 \in 1..Len(t)
    BY <2>1, <2>6
  <2> QED BY <1>4, <2>11, <2>12, <2>13 DEF t
<1> QED BY <1>3, <1>4

\* What a program begins with, instruction by instruction.
Begins(s, slot, masked) ==
  /\ s \in Seq(Instructions)
  /\ slot = 0 => Len(s) = 0
  /\ slot # 0 => s[1] = Push(<<0>>) /\ s[2] = Plainly(OpMload)
  /\ slot # 0 /\ masked => /\ Len(s) = 6 /\ s[3] = Push(<<255>>) /\ s[4] = Plainly(OpAnd)
                           /\ s[5] = Push(<<slot>>) /\ s[6] = Plainly(OpMstore)
  /\ slot # 0 /\ ~masked => Len(s) = 4 /\ s[3] = Push(<<slot>>) /\ s[4] = Plainly(OpMstore)

\* The first instructions of a program: the slot is stored to, and nothing is compared.
LEMMA BeginsShape ==
  ASSUME NEW slot \in Nat, NEW masked \in BOOLEAN
  PROVE  Begins(BeginsWith(slot, masked), slot, masked)
<1>1. CASE slot = 0
  <2> DEFINE none == <<>>
  <2>1. none \in Seq(Instructions) /\ Len(none) = 0
    OBVIOUS
  <2>2. BeginsWith(slot, masked) = none
    BY <1>1 DEF BeginsWith
  <2> HIDE DEF none
  <2> QED BY <1>1, <2>1, <2>2 DEF Begins
<1>2. CASE slot # 0
  <2> DEFINE zero == Push(<<0>>)
             ml == Plainly(OpMload)
             m == Push(<<255>>)
             and == Plainly(OpAnd)
             to == Push(<<slot>>)
             ms == Plainly(OpMstore)
             one == <<zero>>
             two == one \o <<ml>>
             y == IF masked THEN <<m>> \o <<and>> ELSE <<>>
             s == (two \o y) \o <<to>>
             t == s \o <<ms>>
  <2>1. zero \in Instructions /\ m \in Instructions /\ to \in Instructions
    <3>1. \A x \in Nat : Push(<<x>>) \in Instructions
      BY PushesOne
    <3>2. Push(<<0>>) \in Instructions /\ Push(<<255>>) \in Instructions /\ Push(<<slot>>) \in Instructions
      BY ONLY <3>1, slot \in Nat
    <3> QED BY <3>2
  <2>2. ml \in Instructions /\ and \in Instructions /\ ms \in Instructions
    BY PlainOps
  <2>3. BeginsWith(slot, masked) = t
    BY <1>2 DEF BeginsWith, LoadOf
  <2> HIDE DEF zero, ml, m, and, to, ms
  <2>4. one \in Seq(Instructions) /\ Len(one) = 1 /\ one[1] = zero /\ 2 = Len(one) + 1
    BY <2>1, OneIs
  <2> HIDE DEF one
  <2>5. two \in Seq(Instructions) /\ Longer(two, one, ml, 2)
    BY <2>2, <2>4, EndsAt
  <2> HIDE DEF two
  <2>6. Len(two) = 2 /\ two[1] = zero /\ two[2] = ml
    <3>1. Len(two) = 2 /\ two[2] = ml /\ \A i \in 1..(2 - 1) : two[i] = one[i]
      BY ONLY <2>5 DEF Longer
    <3>2. 1 \in 1..(2 - 1)
      OBVIOUS
    <3> QED BY <2>4, <3>1, <3>2
  <2>7. CASE masked
    <3> DEFINE p == <<m>>
               q == <<and>>
               two1 == two \o p
               two2 == two1 \o q
    <3>1. p \in Seq(Instructions) /\ q \in Seq(Instructions)
      BY <2>1, <2>2, OneIs
    <3>2. y = p \o q
      BY <2>7
    <3> HIDE DEF p, q
    <3>3. two \o y = two2
      <4>1. (two \o p) \o q = two \o (p \o q)
        BY ONLY <2>5, <3>1, ConcatAssociative
      <4>2. two \o y = two \o (p \o q)
        BY <3>2
      <4> QED BY <4>1, <4>2
    <3>4. two1 = two \o <<m>> /\ two2 = two1 \o <<and>>
      BY DEF p, q
    <3>5. s = two2 \o <<to>>
      BY <3>3
    <3> HIDE DEF two1, two2, s, y
    <3>6. two1 \in Seq(Instructions) /\ Longer(two1, two, m, 3)
      <4>1. 3 = Len(two) + 1
        BY <2>6
      <4> QED BY ONLY <2>1, <2>5, <3>4, <4>1, EndsAt
    <3>7. two2 \in Seq(Instructions) /\ Longer(two2, two1, and, 4)
      <4>1. 4 = Len(two1) + 1
        <5>1. Len(two1) = 3
          BY ONLY <3>6 DEF Longer
        <5> QED BY <5>1
      <4> QED BY ONLY <2>2, <3>4, <3>6, <4>1, EndsAt
    <3>8. s \in Seq(Instructions) /\ Longer(s, two2, to, 5)
      <4>1. 5 = Len(two2) + 1
        <5>1. Len(two2) = 4
          BY ONLY <3>7 DEF Longer
        <5> QED BY <5>1
      <4> QED BY ONLY <2>1, <3>5, <3>7, <4>1, EndsAt
    <3>t. t = s \o <<ms>>
      OBVIOUS
    <3> HIDE DEF t
    <3>9. t \in Seq(Instructions) /\ Longer(t, s, ms, 6)
      <4>1. 6 = Len(s) + 1
        <5>1. Len(s) = 5
          BY ONLY <3>8 DEF Longer
        <5> QED BY <5>1
      <4> QED BY ONLY <2>2, <3>8, <3>t, <4>1, EndsAt
    <3>10. /\ Len(t) = 6 /\ t[6] = ms /\ s[5] = to /\ two2[4] = and /\ two1[3] = m
           /\ \A i \in 1..(6 - 1) : t[i] = s[i]
           /\ \A i \in 1..(5 - 1) : s[i] = two2[i]
           /\ \A i \in 1..(4 - 1) : two2[i] = two1[i]
           /\ \A i \in 1..(3 - 1) : two1[i] = two[i]
      BY ONLY <3>6, <3>7, <3>8, <3>9 DEF Longer
    <3>11. \A i \in 1..5 : (i \in 1..(6 - 1)) /\ (i # 5 => i \in 1..(5 - 1)) /\ (i < 4 => i \in 1..(4 - 1)) /\ (i < 3 => i \in 1..(3 - 1))
      OBVIOUS
    <3>12. t[1] = zero /\ t[2] = ml /\ t[3] = m /\ t[4] = and /\ t[5] = to
      BY ONLY <2>6, <3>10, <3>11
    <3>13. Begins(t, slot, masked)
      BY <1>2, <2>7, <3>9, <3>10, <3>12 DEF Begins, zero, ml, m, and, to, ms
    <3> QED BY <2>3, <3>13
  <2>8. CASE ~masked
    <3>1. two \o y = two
      <4>1. y = <<>>
        BY <2>8
      <4> QED BY <2>5, <4>1, ConcatEmptySeq
    <3>2. s = two \o <<to>> /\ t = s \o <<ms>>
      BY <3>1
    <3> HIDE DEF s, t, y
    <3>3. s \in Seq(Instructions) /\ Longer(s, two, to, 3)
      <4>1. 3 = Len(two) + 1
        BY <2>6
      <4> QED BY ONLY <2>1, <2>5, <3>2, <4>1, EndsAt
    <3>4. t \in Seq(Instructions) /\ Longer(t, s, ms, 4)
      <4>1. 4 = Len(s) + 1
        <5>1. Len(s) = 3
          BY ONLY <3>3 DEF Longer
        <5> QED BY <5>1
      <4> QED BY ONLY <2>2, <3>2, <3>3, <4>1, EndsAt
    <3>5. /\ Len(t) = 4 /\ t[4] = ms /\ s[3] = to
          /\ \A i \in 1..(4 - 1) : t[i] = s[i]
          /\ \A i \in 1..(3 - 1) : s[i] = two[i]
      BY ONLY <3>3, <3>4 DEF Longer
    <3>6. \A i \in 1..3 : (i \in 1..(4 - 1)) /\ (i < 3 => i \in 1..(3 - 1))
      OBVIOUS
    <3>7. t[1] = zero /\ t[2] = ml /\ t[3] = to
      BY ONLY <2>6, <3>5, <3>6
    <3>8. Begins(t, slot, masked)
      BY <1>2, <2>8, <3>4, <3>5, <3>7 DEF Begins, zero, ml, m, and, to, ms
    <3> QED BY <2>3, <3>8
  <2> QED BY <2>7, <2>8
<1> QED BY <1>1, <1>2

\* Every instruction of a program is of its beginning or of a piece, and every piece is there.
LaidOut(ins, beg, pieces, n) ==
  /\ \A i \in 1..Len(ins) :
       \/ i \in 1..Len(beg)
       \/ \E g \in 1..n : \E off \in Nat : \E r \in 1..Len(InsOf(pieces[g])) :
             i = off + r /\ Sits(ins, InsOf(pieces[g]), off)
  /\ \A g \in 1..n : \E off \in Nat : Sits(ins, InsOf(pieces[g]), off)
  /\ Sits(ins, beg, 0)

\* In the instructions of a program the pieces lie behind the first ones, one after the other.
LEMMA ReadablePlaced ==
  ASSUME NEW p, IsProgram(p), NEW beg, beg = BeginsWith(p.slot, p.masked), NEW ins, ins = Readable(p),
         NEW n, n = Len(p.pieces)
  PROVE  LaidOut(ins, beg, p.pieces, n)
<1> DEFINE seqs == PartsOf(p.pieces)
           flat == FlattenSeq(seqs)
<1>1. p.pieces \in Seq(Pieces) /\ n \in Nat
  <2>1. p.pieces \in Seq(Pieces)
    BY DEF IsProgram
  <2> QED BY <2>1, LenProperties
<1>2. seqs \in Seq(Seq(Instructions)) /\ Len(seqs) = n /\ \A i \in 1..n : seqs[i] = InsOf(p.pieces[i])
  BY <1>1, PartsAre
<1>3. flat \in Seq(Instructions) /\ Placed(flat, seqs, n)
  BY <1>2, FlattenPlaced
<1>4. ins = beg \o flat /\ beg \in Seq(Instructions)
  BY ProgramReads DEF Readable
<1> HIDE DEF seqs, flat
<1>5. Len(beg) \in Nat /\ Len(flat) \in Nat /\ Len(ins) = Len(beg) + Len(flat)
  BY <1>3, <1>4, LenProperties, ConcatProperties
<1>6. Sits(ins, beg, 0)
  BY <1>3, <1>4, SitsBehind
<1>7. ASSUME NEW g \in 1..n, NEW off \in Nat, Sits(flat, seqs[g], off)
      PROVE  Len(beg) + off \in Nat /\ Sits(ins, InsOf(p.pieces[g]), Len(beg) + off)
  <2> DEFINE t == seqs[g]
  <2>1. t \in Seq(Instructions) /\ t = InsOf(p.pieces[g])
    BY <1>2, ElementOfSeq
  <2> HIDE DEF t
  <2>2. Len(beg) + off \in Nat /\ Sits(beg \o flat, t, Len(beg) + off)
    BY <1>3, <1>4, <1>7, <2>1, SitsBehind DEF t
  <2> QED BY <1>4, <2>1, <2>2
<1>8. ASSUME NEW g \in 1..n PROVE \E off \in Nat : Sits(ins, InsOf(p.pieces[g]), off)
  <2>1. PICK off \in Nat : Sits(flat, seqs[g], off)
    BY <1>3 DEF Placed
  <2> QED BY <1>7, <2>1
<1>9. ASSUME NEW i \in 1..Len(ins), i \notin 1..Len(beg)
      PROVE  \E g \in 1..n : \E off \in Nat : \E r \in 1..Len(InsOf(p.pieces[g])) :
                i = off + r /\ Sits(ins, InsOf(p.pieces[g]), off)
  <2> DEFINE k == i - Len(beg)
  <2>1. k \in 1..Len(flat) /\ i = Len(beg) + k
    BY <1>5, <1>9
  <2> HIDE DEF k
  <2>2. PICK g \in 1..n : \E off \in Nat : \E r \in 1..Len(seqs[g]) : k = off + r /\ Sits(flat, seqs[g], off)
    BY <1>3, <2>1 DEF Placed
  <2>3. PICK off \in Nat : \E r \in 1..Len(seqs[g]) : k = off + r /\ Sits(flat, seqs[g], off)
    BY <2>2
  <2>4. PICK r \in 1..Len(seqs[g]) : k = off + r /\ Sits(flat, seqs[g], off)
    BY <2>3
  <2>5. Len(beg) + off \in Nat /\ Sits(ins, InsOf(p.pieces[g]), Len(beg) + off)
    BY <1>7, <2>4
  <2>6. r \in 1..Len(InsOf(p.pieces[g])) /\ i = (Len(beg) + off) + r
    <3>1. r \in Int
      OBVIOUS
    <3> QED BY <1>2, <1>5, <2>1, <2>4, <3>1
  <2> QED BY <2>5, <2>6
<1> QED BY <1>6, <1>8, <1>9 DEF LaidOut

\* The selector is kept where the calldata put it, and where the beginning copies it.
LEMMA SlotsAre ==
  ASSUME NEW p, IsProgram(p), NEW ins, ins = Readable(p)
  PROVE  \A x : x \in SelectorSlots(ins) <=> x = <<>> \/ x = Value(<<p.slot>>)
<1> DEFINE beg == BeginsWith(p.slot, p.masked)
           n == Len(p.pieces)
           k == Len(beg)
           N == Len(ins)
           none == <<>>
           v == Value(<<p.slot>>)
<1>1. p.slot \in Nat /\ p.masked \in BOOLEAN /\ p.pieces \in Seq(Pieces)
  <2>1. p.slot \in 0..255 /\ p.masked \in BOOLEAN /\ p.pieces \in Seq(Pieces)
    BY DEF IsProgram
  <2>2. 0..255 \subseteq Nat
    OBVIOUS
  <2> HIDE DEF beg, v
  <2>3. p.slot \in Nat
    BY <2>1, <2>2
  <2> QED BY <2>1, <2>3
<1>2. Begins(beg, p.slot, p.masked)
  BY <1>1, BeginsShape
<1>3. /\ \A i \in 1..N :
           \/ i \in 1..k
           \/ \E g \in 1..n : \E off \in Nat : \E r \in 1..Len(InsOf(p.pieces[g])) :
                 i = off + r /\ Sits(ins, InsOf(p.pieces[g]), off)
      /\ Sits(ins, beg, 0)
  <2>1. LaidOut(ins, beg, p.pieces, n)
    <3>1. beg = BeginsWith(p.slot, p.masked) /\ n = Len(p.pieces)
      OBVIOUS
    <3> HIDE DEF beg, n
    <3> QED BY <3>1, ReadablePlaced
  <2> HIDE DEF beg, n
  <2> QED BY <2>1 DEF LaidOut
<1>4. ins \in Seq(Instructions) /\ N \in Nat /\ DOMAIN ins = 1..N
  <2>1. ins \in Seq(Instructions)
    BY ProgramReads
  <2> QED BY <2>1, LenProperties
<1>5. \A x : x \in SelectorSlots(ins) <=> x = none \/ \E i \in FoundAt(ins) : x = Value(ins[StoredAt(ins, i)].arg)
  BY ComparedIs
<1>6. \A g \in 1..n : p.pieces[g] \in Pieces
  BY <1>1, ElementOfSeq
<1>7. k <= N /\ \A r \in 1..k : ins[r] = beg[r]
  <2>1. 0 + k <= N /\ \A r \in 1..k : ins[0 + r] = beg[r]
    BY <1>3 DEF Sits
  <2> HIDE DEF k, beg, N
  <2>2. \A r \in 1..k : 0 + r = r
    OBVIOUS
  <2>3. k \in Nat
    BY <1>2, LenProperties DEF Begins, k
  <2> QED BY <1>4, <2>1, <2>2, <2>3
<1> HIDE DEF beg, n, k, N, none, v
<1>8. ASSUME NEW i \in 1..N, ins[i].op = OpMstore PROVE i \in 1..k
  <2> SUFFICES ASSUME i \notin 1..k PROVE FALSE
    OBVIOUS
  <2>1. PICK g \in 1..n : \E off \in Nat : \E r \in 1..Len(InsOf(p.pieces[g])) :
                 i = off + r /\ Sits(ins, InsOf(p.pieces[g]), off)
    BY <1>3
  <2>2. PICK off \in Nat : \E r \in 1..Len(InsOf(p.pieces[g])) : i = off + r /\ Sits(ins, InsOf(p.pieces[g]), off)
    BY <2>1
  <2>3. PICK r \in 1..Len(InsOf(p.pieces[g])) : i = off + r /\ Sits(ins, InsOf(p.pieces[g]), off)
    BY <2>2
  <2>4. ins[i] = InsOf(p.pieces[g])[r]
    BY <2>3 DEF Sits
  <2>5. InsOf(p.pieces[g])[r].op # OpMstore
    BY <1>6, PieceOps
  <2> QED BY <1>8, <2>4, <2>5
<1>9. \A i : StoredAt(ins, i) = IF MaskedAt(ins, i) THEN i + 4 ELSE i + 2
  BY DEF StoredAt
<1>p. /\ \A op \in {OpEq, OpIsZero, OpAnd, OpMload, OpMstore, OpJumpi} : Plainly(op).op = op /\ op \notin OpPush1..OpPush32
      /\ \A x \in Nat : Push(<<x>>).op \in OpPush1..OpPush32 /\ Push(<<x>>).arg = <<x>>
  <2>1. \A op \in {OpEq, OpIsZero, OpAnd, OpMload, OpMstore, OpJumpi} : Plainly(op).op = op /\ op \notin OpPush1..OpPush32
    BY PlainOps
  <2>2. ASSUME NEW x \in Nat PROVE Push(<<x>>).op \in OpPush1..OpPush32 /\ Push(<<x>>).arg = <<x>>
    <3> DEFINE s == <<x>>
    <3>1. s \in Seq(Nat) /\ Len(s) \in 1..32
      OBVIOUS
    <3> HIDE DEF s
    <3>2. Push(s).op \in OpPush1..OpPush32 /\ Push(s).arg = s
      BY <3>1, PushIs
    <3> QED BY <3>2 DEF s
  <2> QED BY <2>1, <2>2
<1>m. OpMload # OpMstore /\ OpAnd # OpMstore
  BY DEF OpMload, OpMstore, OpAnd
<1>10. CASE p.slot = 0
  <2>1. k = 0
    BY <1>2, <1>10 DEF Begins, k
  <2>2. ASSUME NEW i \in FoundAt(ins) PROVE FALSE
    <3> DEFINE j == StoredAt(ins, i) + 1
    <3>1. Is(ins, j, OpMstore)
      BY DEF FoundAt
    <3> HIDE DEF j
    <3>2. j \in 1..N /\ ins[j].op = OpMstore
      BY <1>4, <3>1 DEF Is
    <3> QED BY <1>8, <2>1, <3>2
  <2>3. v = none
    <3>1. Value(<<0>>) = none
      BY ValueOfOne DEF none
    <3> QED BY <1>10, <3>1 DEF v
  <2> QED BY <1>5, <2>2, <2>3 DEF none, v
<1>11. CASE p.slot # 0
  <2> DEFINE to == Push(<<p.slot>>)
             e == k - 1
  <2>1. /\ beg[1] = Push(<<0>>) /\ beg[2] = Plainly(OpMload)
        /\ p.masked => /\ k = 6 /\ beg[3] = Push(<<255>>) /\ beg[4] = Plainly(OpAnd)
                       /\ beg[5] = Push(<<p.slot>>) /\ beg[6] = Plainly(OpMstore)
        /\ ~p.masked => k = 4 /\ beg[3] = Push(<<p.slot>>) /\ beg[4] = Plainly(OpMstore)
    BY <1>2, <1>11 DEF Begins, k
  <2>2. k \in {4, 6} /\ 1 \in 1..k /\ 2 \in 1..k /\ 3 \in 1..k /\ 4 \in 1..k /\ (p.masked => 5 \in 1..k /\ 6 \in 1..k)
        /\ e \in 1..k /\ k \in 1..k /\ e + 1 = k /\ (p.masked => e = 5) /\ (~p.masked => e = 3)
    BY <1>1, <2>1
  <2> HIDE DEF to, e
  <2>3. beg[e] = to /\ beg[k] = Plainly(OpMstore)
    BY <1>1, <2>1, <2>2 DEF to
  <2>4. ins[e] = to /\ ins[k].op = OpMstore
    BY <1>7, <1>p, <2>2, <2>3
  <2>5. to.op \in OpPush1..OpPush32 /\ to.arg = <<p.slot>>
    BY <1>1, <1>p DEF to
  <2>6. \A x \in 1..N : x \in Int
    OBVIOUS
  <2>7. ASSUME NEW j \in 1..N, ins[j].op = OpMstore PROVE j = k
    <3>1. j \in 1..k
      BY <1>8, <2>7
    <3>2. ins[j] = beg[j]
      BY <1>7, <3>1
    <3>3. beg[j].op = OpMstore
      BY <2>7, <3>2
    <3>4. beg[1].op # OpMstore /\ beg[2].op # OpMstore
      BY <1>p, <1>m, <2>1
    <3>5. CASE p.masked
      <4>1. beg[3].op # OpMstore /\ beg[4].op # OpMstore /\ beg[5].op # OpMstore /\ k = 6
        BY <1>1, <1>p, <1>m, <2>1, <3>5
      <4>2. j \in {1, 2, 3, 4, 5, 6}
        BY <3>1, <4>1
      <4> QED BY <3>3, <3>4, <4>1, <4>2
    <3>6. CASE ~p.masked
      <4>1. beg[3].op # OpMstore /\ k = 4
        BY <1>1, <1>p, <1>m, <2>1, <3>6
      <4>2. j \in {1, 2, 3, 4}
        BY <3>1, <4>1
      <4> QED BY <3>3, <3>4, <4>1, <4>2
    <3> QED BY <1>1, <3>5, <3>6
  <2>8. ASSUME NEW i \in FoundAt(ins) PROVE Value(ins[StoredAt(ins, i)].arg) = v
    <3> DEFINE a == StoredAt(ins, i)
               j == a + 1
    <3>1. Is(ins, j, OpMstore) /\ IsPush(ins, a)
      BY DEF FoundAt
    <3> HIDE DEF a, j
    <3>2. j \in 1..N /\ ins[j].op = OpMstore /\ a \in 1..N
      BY <1>4, <3>1 DEF Is, IsPush
    <3>3. j = k
      BY <2>7, <3>2
    <3>4. a = e
      BY <2>2, <3>2, <3>3 DEF j
    <3>5. ins[a].arg = <<p.slot>>
      BY <2>4, <2>5, <3>4
    <3> QED BY <3>5 DEF a, v
  <2>9. /\ IsPush(ins, 1) /\ Value(ins[1].arg) = none /\ Is(ins, 2, OpMload) /\ 1 \in 1..(N - 3)
    <3>1. ins[1] = Push(<<0>>) /\ ins[2] = Plainly(OpMload) /\ 1 \in 1..N /\ 2 \in 1..N
      BY <1>4, <1>7, <2>1, <2>2
    <3>2. IsPush(ins, 1)
      BY <1>4, <1>p, <3>1 DEF IsPush
    <3>3. Is(ins, 2, OpMload)
      BY <1>4, <1>p, <3>1 DEF Is
    <3>4. ins[1].arg = <<0>>
      BY <1>p, <3>1
    <3>5. Value(<<0>>) = none
      BY ValueOfOne DEF none
    <3>6. 1 \in 1..(N - 3)
      BY <1>4, <1>7, <2>2
    <3> QED BY <3>2, <3>3, <3>4, <3>5, <3>6
  <2>10. StoredAt(ins, 1) = e
    <3>0. 1 + 2 = 3 /\ 1 + 3 = 4 /\ 1 + 4 = 5
      OBVIOUS
    <3>1. MaskedAt(ins, 1) <=> IsPush(ins, 3) /\ ByteValues(ins[3].arg) = {255} /\ Is(ins, 4, OpAnd)
      BY <3>0 DEF MaskedAt
    <3>2. CASE p.masked
      <4>1. ins[3] = Push(<<255>>) /\ ins[4] = Plainly(OpAnd) /\ 3 \in 1..N /\ 4 \in 1..N
        BY <1>4, <1>7, <2>1, <2>2, <3>2
      <4>2. IsPush(ins, 3)
        BY <1>4, <1>p, <4>1 DEF IsPush
      <4>3. Is(ins, 4, OpAnd)
        BY <1>4, <1>p, <4>1 DEF Is
      <4>4. ByteValues(ins[3].arg) = {255}
        <5>1. ins[3].arg = <<255>>
          BY <1>p, <4>1
        <5>2. 255 \in Nat
          OBVIOUS
        <5> QED BY <5>1, <5>2, ByteOf
      <4>5. MaskedAt(ins, 1)
        BY <3>1, <4>2, <4>3, <4>4
      <4> QED BY <1>9, <2>2, <3>0, <3>2, <4>5
    <3>3. CASE ~p.masked
      <4>1. ins[4].op = OpMstore
        BY <1>7, <1>p, <2>1, <2>2, <3>3
      <4>2. ~Is(ins, 4, OpAnd)
        BY <1>m, <4>1 DEF Is
      <4>3. ~MaskedAt(ins, 1)
        BY <3>1, <4>2
      <4> QED BY <1>9, <2>2, <3>0, <3>3, <4>3
    <3> QED BY <1>1, <3>2, <3>3
  <2>11. 1 \in FoundAt(ins)
    <3> DEFINE a == StoredAt(ins, 1)
    <3>1. a = e /\ a + 1 = k
      BY <2>2, <2>10
    <3>2. e \in 1..N /\ k \in 1..N
      BY <1>4, <1>7, <2>2
    <3>3. IsPush(ins, e)
      BY <1>4, <2>4, <2>5, <3>2 DEF IsPush
    <3>4. Is(ins, k, OpMstore)
      BY <1>4, <2>4, <3>2 DEF Is
    <3> HIDE DEF a
    <3>5. IsPush(ins, a) /\ Is(ins, a + 1, OpMstore)
      BY <3>1, <3>3, <3>4
    <3>6. 1 + 1 = 2
      OBVIOUS
    <3> QED BY <2>9, <3>5, <3>6 DEF FoundAt, a, none, N
  <2>12. \A x : x \in SelectorSlots(ins) <=> x = none \/ x = v
    BY <1>5, <2>8, <2>11
  <2> QED BY <2>12 DEF none, v
<1> QED BY <1>10, <1>11 DEF none, v

\* What is read out of a program is what it dispatches on.
LEMMA DispatchHolds ==
  ASSUME NEW p \in Programs, lookup.of = "code", lookup.program = p,
         NEW read, read = DecodeDispatchSelectors(Program(p)), lookup.selectors = read
  PROVE  DispatchDecodes
<1> DEFINE ins == Readable(p)
           n == Len(p.pieces)
           slots == SelectorSlots(ins)
           dispatching == {b \in Range(p.pieces) : b.form \notin {"data", "tooWide"} /\ b.at \in {0, p.slot}}
<1>1. IsProgram(p) /\ p.slot \in Nat
  <2>1. p.slot \in 0..255 /\ p.masked \in BOOLEAN /\ p.pieces \in Seq(Pieces)
    BY LookAssumption DEF LookAssumption
  <2>2. 0..255 \subseteq Nat
    OBVIOUS
  <2>3. p.slot \in Nat
    BY <2>1, <2>2
  <2> QED BY <2>1, <2>3 DEF IsProgram
<1>2. ins \in Seq(Instructions) /\ Program(p) # Absent /\ Disassemble(Program(p)) = ins
  BY <1>1, ProgramReads
<1>3. read = Compared(ins, slots)
  BY <1>2 DEF DecodeDispatchSelectors, SelectorsIn
<1>4. \A x : x \in slots <=> x = <<>> \/ x = Value(<<p.slot>>)
  BY <1>1, SlotsAre
<1>5. n \in Nat /\ DOMAIN p.pieces = 1..n /\ \A g \in 1..n : p.pieces[g] \in Pieces
  <2>1. p.pieces \in Seq(Pieces)
    BY <1>1 DEF IsProgram
  <2> QED BY <2>1, LenProperties, ElementOfSeq
<1>6. /\ \A i \in 1..Len(ins) :
           \/ i \in 1..Len(BeginsWith(p.slot, p.masked))
           \/ \E g \in 1..n : \E off \in Nat : \E r \in 1..Len(InsOf(p.pieces[g])) :
                 i = off + r /\ Sits(ins, InsOf(p.pieces[g]), off)
      /\ \A g \in 1..n : \E off \in Nat : Sits(ins, InsOf(p.pieces[g]), off)
      /\ Sits(ins, BeginsWith(p.slot, p.masked), 0)
  <2> DEFINE beg == BeginsWith(p.slot, p.masked)
  <2>1. LaidOut(ins, beg, p.pieces, n)
    <3>1. beg = BeginsWith(p.slot, p.masked) /\ n = Len(p.pieces) /\ ins = Readable(p)
      OBVIOUS
    <3> HIDE DEF beg, n, ins
    <3> QED BY <1>1, <3>1, ReadablePlaced
  <2> HIDE DEF n, ins
  <2> QED BY <2>1 DEF LaidOut
<1>7. ASSUME NEW i \in 1..Len(BeginsWith(p.slot, p.masked)) PROVE ins[i].op # OpEq
  <2> DEFINE beg == BeginsWith(p.slot, p.masked)
  <2>1. Begins(beg, p.slot, p.masked)
    BY <1>1, BeginsShape DEF IsProgram
  <2>2. ins[0 + i] = beg[i] /\ 0 + i = i
    BY <1>6 DEF Sits
  <2> HIDE DEF beg
  <2>3. \A x \in Nat : Push(<<x>>).op # OpEq
    <3> SUFFICES ASSUME NEW x \in Nat PROVE Push(<<x>>).op # OpEq
      OBVIOUS
    <3> DEFINE s == <<x>>
    <3>1. s \in Seq(Nat) /\ Len(s) \in 1..32
      OBVIOUS
    <3> HIDE DEF s
    <3>2. Push(s).op # OpEq
      BY <3>1, PushIs
    <3> QED BY <3>2 DEF s
  <2>4. Plainly(OpMload).op # OpEq /\ Plainly(OpAnd).op # OpEq /\ Plainly(OpMstore).op # OpEq
    BY PlainOps DEF OpMload, OpAnd, OpMstore, OpEq
  <2>5. i \in 1..Len(beg)
    BY DEF beg
  <2>6. p.slot # 0
    BY <2>1, <2>5 DEF Begins
  <2>7. beg[1].op # OpEq /\ beg[2].op # OpEq
    BY <2>1, <2>3, <2>4, <2>6 DEF Begins
  <2>8. CASE p.masked
    <3>1. /\ Len(beg) = 6 /\ beg[3] = Push(<<255>>) /\ beg[4] = Plainly(OpAnd)
          /\ beg[5] = Push(<<p.slot>>) /\ beg[6] = Plainly(OpMstore)
      BY <2>1, <2>6, <2>8 DEF Begins
    <3>2. beg[3].op # OpEq /\ beg[4].op # OpEq /\ beg[5].op # OpEq /\ beg[6].op # OpEq
      BY <1>1, <2>3, <2>4, <3>1
    <3>3. i \in {1, 2, 3, 4, 5, 6}
      BY <2>5, <3>1
    <3> QED BY <2>2, <2>7, <3>2, <3>3
  <2>9. CASE ~p.masked
    <3>1. Len(beg) = 4 /\ beg[3] = Push(<<p.slot>>) /\ beg[4] = Plainly(OpMstore)
      BY <2>1, <2>6, <2>9 DEF Begins
    <3>2. beg[3].op # OpEq /\ beg[4].op # OpEq
      BY <1>1, <2>3, <2>4, <3>1
    <3>3. i \in {1, 2, 3, 4}
      BY <2>5, <3>1
    <3> QED BY <2>2, <2>7, <3>2, <3>3
  <2> QED BY <2>8, <2>9
<1>8. ASSUME NEW b \in Pieces PROVE Value(<<b.at>>) \in slots <=> b.at \in {0, p.slot}
  <2>1. b.at \in Nat
    BY PieceTypes
  <2> DEFINE u == Value(<<b.at>>)
             w == Value(<<p.slot>>)
  <2>2. (u = <<>> \/ u = w) <=> (b.at = 0 \/ b.at = p.slot)
    BY <1>1, <2>1, ValuesOf
  <2>3. u \in slots <=> u = <<>> \/ u = w
    BY <1>4
  <2> HIDE DEF u, w, slots
  <2>4. u \in slots <=> b.at \in {0, p.slot}
    BY <2>2, <2>3
  <2> QED BY <2>4 DEF u
<1>9. ASSUME NEW g \in 1..n, p.pieces[g].form # "data", NEW off \in Nat, Sits(ins, InsOf(p.pieces[g]), off), NEW i, i = off + 4
      PROVE  /\ i \in TestsIn(ins)
             /\ \A x : x \in ComparedAt(ins, slots, i) <=>
                   p.pieces[g].form # "tooWide" /\ p.pieces[g].at \in {0, p.slot} /\ x = p.pieces[g].selector
  <2> DEFINE b == p.pieces[g]
  <2>1. b \in Pieces /\ b.form # "data"
    BY <1>5, <1>9
  <2>2. Sits(ins, InsOf(b), off)
    BY <1>9
  <2>3. Value(<<b.at>>) \in slots <=> b.at \in {0, p.slot}
    BY <1>8, <2>1
  <2> HIDE DEF b, slots, ins
  <2>4. /\ i \in TestsIn(ins)
        /\ \A x : x \in ComparedAt(ins, slots, i) <=> b.form # "tooWide" /\ Value(<<b.at>>) \in slots /\ x = b.selector
    <3>1. ins \in Seq(Instructions) /\ off \in Nat /\ Fourth(i, off)
      BY <1>2, <1>9 DEF Fourth
    <3>2. Tells(ins, slots, b, i)
      BY ONLY <2>1, <2>2, <3>1, PieceWindow
    <3> QED BY <3>2 DEF Tells
  <2> QED BY <2>3, <2>4 DEF b
<1>10. \A x : x \in read <=> \E i \in TestsIn(ins) : x \in ComparedAt(ins, slots, i)
  BY <1>3, ComparedIs
<1> HIDE DEF ins, slots
<1>11. \A x : x \in dispatching <=> (\E g \in 1..n : x = p.pieces[g]) /\ x.form # "data" /\ x.form # "tooWide" /\ x.at \in {0, p.slot}
  <2>1. \A x : x \in Range(p.pieces) <=> \E g \in 1..n : x = p.pieces[g]
    BY <1>5 DEF Range
  <2> QED BY <2>1
<1> HIDE DEF dispatching, n
<1>12. ASSUME NEW x, x \in read PROVE \E b \in dispatching : x = b.selector
  <2>1. PICK i \in TestsIn(ins) : x \in ComparedAt(ins, slots, i)
    BY <1>10, <1>12
  <2>2. Is(ins, i, OpEq)
    BY DEF TestsIn
  <2>3. i \in 1..Len(ins) /\ ins[i].op = OpEq
    BY <1>2, <2>2, LenProperties DEF Is
  <2>4. i \notin 1..Len(BeginsWith(p.slot, p.masked))
    BY <1>7, <2>3
  <2>5. PICK g \in 1..n : \E off \in Nat : \E r \in 1..Len(InsOf(p.pieces[g])) :
                 i = off + r /\ Sits(ins, InsOf(p.pieces[g]), off)
    BY <1>6, <2>3, <2>4
  <2>6. PICK off \in Nat : \E r \in 1..Len(InsOf(p.pieces[g])) : i = off + r /\ Sits(ins, InsOf(p.pieces[g]), off)
    BY <2>5
  <2>7. PICK r \in 1..Len(InsOf(p.pieces[g])) : i = off + r /\ Sits(ins, InsOf(p.pieces[g]), off)
    BY <2>6
  <2>8. ins[i] = InsOf(p.pieces[g])[r]
    BY <2>7 DEF Sits
  <2>9. p.pieces[g].form # "data" /\ r = 4
    <3>1. p.pieces[g] \in Pieces /\ InsOf(p.pieces[g])[r].op = OpEq
      BY <1>5, <2>3, <2>8
    <3> QED BY <3>1, PieceOps
  <2>10. i = off + 4
    BY <2>7, <2>9
  <2>11. p.pieces[g].form # "tooWide" /\ p.pieces[g].at \in {0, p.slot} /\ x = p.pieces[g].selector
    BY <1>9, <2>1, <2>7, <2>9, <2>10
  <2>12. p.pieces[g] \in dispatching
    BY <1>11, <2>9, <2>11
  <2> QED BY <2>11, <2>12
<1>13. ASSUME NEW b \in dispatching PROVE b.selector \in read
  <2>1. PICK g \in 1..n : b = p.pieces[g]
    BY <1>11
  <2>2. b.form # "data" /\ b.form # "tooWide" /\ b.at \in {0, p.slot}
    BY <1>11
  <2>3. PICK off \in Nat : Sits(ins, InsOf(p.pieces[g]), off)
    BY <1>6
  <2> DEFINE i == off + 4
  <2>4. i = off + 4
    OBVIOUS
  <2> HIDE DEF i
  <2>5. i \in TestsIn(ins) /\ b.selector \in ComparedAt(ins, slots, i)
    BY <1>9, <2>1, <2>2, <2>3, <2>4
  <2> QED BY <1>10, <2>5
<1>14. read = {b.selector : b \in dispatching}
  <2>1. \A x : x \in {b.selector : b \in dispatching} <=> \E b \in dispatching : x = b.selector
    OBVIOUS
  <2>2. \A x : x \in read <=> x \in {b.selector : b \in dispatching}
    BY <1>12, <1>13, <2>1
  <2> QED BY <2>2
<1> QED BY <1>14 DEF DispatchDecodes, dispatching

-----------------------------------------------------------------------------
\* Entries of an index: each address has one, and they are ordered.
Entries(E) ==
  /\ IsFiniteSet(E)
  /\ \A e \in E : e.firstSeen \in Int /\ e.address \in Int
  /\ \A e, f \in E : e.address = f.address => e = f
Standing(E, e) == Cardinality({f \in E : f = e \/ Precedes(f, e)})

\* What precedes comes first, and of two one precedes.
LEMMA PrecedesOrders ==
  ASSUME NEW E, Entries(E)
  PROVE  /\ \A e, f \in E : e = f \/ Precedes(e, f) \/ Precedes(f, e)
         /\ \A e, f \in E : Precedes(e, f) => ~Precedes(f, e) /\ e # f
         /\ \A e, f, g \in E : Precedes(e, f) /\ Precedes(f, g) => Precedes(e, g)
<1>1. /\ \A e \in E : e.firstSeen \in Int /\ e.address \in Int
      /\ \A e, f \in E : e.address = f.address => e = f
  BY DEF Entries
<1>2. ASSUME NEW e \in E, NEW f \in E PROVE e = f \/ Precedes(e, f) \/ Precedes(f, e)
  BY <1>1 DEF Precedes
<1>3. ASSUME NEW e \in E, NEW f \in E, Precedes(e, f) PROVE ~Precedes(f, e) /\ e # f
  BY <1>1, <1>3 DEF Precedes
<1>4. ASSUME NEW e \in E, NEW f \in E, NEW g \in E, Precedes(e, f), Precedes(f, g) PROVE Precedes(e, g)
  BY <1>1, <1>4 DEF Precedes
<1> QED BY <1>2, <1>3, <1>4

\* The earlier in the order has the lower standing.
LEMMA Standings ==
  ASSUME NEW E, Entries(E)
  PROVE  /\ \A e \in E : Standing(E, e) \in 1..Cardinality(E)
         /\ \A e, f \in E : Precedes(e, f) => Standing(E, e) < Standing(E, f)
<1>0. IsFiniteSet(E)
  BY DEF Entries
<1>o. /\ \A e, f \in E : Precedes(e, f) => ~Precedes(f, e) /\ e # f
      /\ \A e, f, g \in E : Precedes(e, f) /\ Precedes(f, g) => Precedes(e, g)
  BY PrecedesOrders
<1>1. ASSUME NEW e \in E
      PROVE  /\ IsFiniteSet({f \in E : f = e \/ Precedes(f, e)}) /\ Standing(E, e) \in Nat
             /\ Standing(E, e) <= Cardinality(E) /\ Standing(E, e) # 0
  <2> DEFINE T == {f \in E : f = e \/ Precedes(f, e)}
  <2>1. T \in SUBSET E /\ e \in T
    OBVIOUS
  <2> HIDE DEF T
  <2>2. IsFiniteSet(T) /\ Cardinality(T) <= Cardinality(E)
    BY <1>0, <2>1, FS_Subset
  <2>3. Cardinality(T) \in Nat /\ Cardinality(T) # 0
    BY <2>1, <2>2, FS_CardinalityType, FS_EmptySet
  <2> QED BY <2>2, <2>3 DEF T, Standing
<1>2. ASSUME NEW e \in E, NEW f \in E, Precedes(e, f) PROVE Standing(E, e) < Standing(E, f)
  <2> DEFINE A == {g \in E : g = e \/ Precedes(g, e)}
             B == {g \in E : g = f \/ Precedes(g, f)}
  <2>1. A \in SUBSET B /\ A # B
    <3>1. f \in B /\ f \notin A
      BY <1>o, <1>2
    <3>2. \A g \in E : g = e \/ Precedes(g, e) => g = f \/ Precedes(g, f)
      BY <1>o, <1>2
    <3> QED BY <3>1, <3>2
  <2>2. IsFiniteSet(B) /\ Standing(E, e) = Cardinality(A) /\ Standing(E, f) = Cardinality(B)
    BY <1>1 DEF Standing
  <2> HIDE DEF A, B
  <2>3. Cardinality(A) <= Cardinality(B) /\ Cardinality(A) # Cardinality(B)
    BY <2>1, <2>2, FS_Subset
  <2>4. Standing(E, e) \in Nat /\ Standing(E, f) \in Nat
    BY <1>1
  <2>5. Standing(E, e) <= Standing(E, f) /\ Standing(E, e) # Standing(E, f)
    BY <2>2, <2>3
  <2>6. \A a, b \in Nat : a <= b /\ a # b => a < b
    OBVIOUS
  <2> QED BY <2>4, <2>5, <2>6
<1>3. ASSUME NEW e \in E PROVE Standing(E, e) \in 1..Cardinality(E)
  <2>1. Standing(E, e) \in Nat /\ Standing(E, e) <= Cardinality(E) /\ Standing(E, e) # 0
    BY <1>1
  <2>2. Cardinality(E) \in Nat
    BY <1>0, FS_CardinalityType
  <2>3. \A r, c \in Nat : r <= c /\ r # 0 => r \in 1..c
    OBVIOUS
  <2> QED BY <2>1, <2>2, <2>3
<1> QED BY <1>2, <1>3

\* An index lists its entries, each once, as they are ordered.
LEMMA InOrderIs ==
  ASSUME NEW E, Entries(E)
  PROVE  /\ Len(InOrder(E)) \in Nat /\ DOMAIN InOrder(E) = 1..Len(InOrder(E)) /\ Range(InOrder(E)) = E
         /\ \A i, j \in 1..Len(InOrder(E)) : i < j => Precedes(InOrder(E)[i], InOrder(E)[j])
<1> DEFINE c == Cardinality(E)
           f == [e \in E |-> Standing(E, e)]
           s == InOrder(E)
           at(n) == CHOOSE e \in E : Standing(E, e) = n
<1>0. IsFiniteSet(E)
  BY DEF Entries
<1>1. c \in Nat /\ IsFiniteSet(1..c) /\ Cardinality(1..c) = c
  BY <1>0, FS_CardinalityType, UpTo
<1>s. s = [n \in 1..c |-> at(n)]
  BY DEF InOrder, Standing
<1> HIDE DEF c, s
<1>2. f \in [E -> 1..c]
  BY Standings DEF c
<1>t. \A e \in E : Standing(E, e) \in Nat
  BY <1>2
<1>3. \A e, g \in E : Standing(E, e) = Standing(E, g) => e = g
  <2> SUFFICES ASSUME NEW e \in E, NEW g \in E, Standing(E, e) = Standing(E, g), e # g PROVE FALSE
    OBVIOUS
  <2>1. Precedes(e, g) \/ Precedes(g, e)
    BY PrecedesOrders
  <2>2. Standing(E, e) \in Nat /\ Standing(E, g) \in Nat
    BY <1>t
  <2> QED BY <2>1, <2>2, Standings
<1>4. f \in Injection(E, 1..c)
  BY <1>2, <1>3 DEF Injection, IsInjective
<1>5. f \in Surjection(E, 1..c)
  BY <1>0, <1>1, <1>4, FS_Injection DEF c
<1>6. ASSUME NEW n \in 1..c PROVE at(n) \in E /\ Standing(E, at(n)) = n
  <2>1. \E e \in E : Standing(E, e) = n
    BY <1>5 DEF Surjection
  <2> QED BY <2>1
<1> HIDE DEF at, f
<1>7. \A n \in 1..c : s[n] \in E /\ Standing(E, s[n]) = n
  BY <1>s, <1>6
<1>8. s \in [1..c -> E]
  BY <1>s, <1>6
<1>9. Len(s) = c /\ DOMAIN s = 1..c /\ s \in Seq(E)
  BY <1>1, <1>8, LenIs
<1>10. Range(s) = E
  <2>1. \A x : x \in Range(s) <=> \E n \in 1..c : s[n] = x
    BY <1>9, RangeOf
  <2>2. ASSUME NEW e \in E PROVE \E n \in 1..c : s[n] = e
    <3> DEFINE n == Standing(E, e)
    <3>1. n \in 1..c
      BY Standings DEF c
    <3> HIDE DEF n
    <3>2. s[n] \in E /\ Standing(E, s[n]) = n
      BY <1>7, <3>1
    <3>3. s[n] = e
      BY <1>3, <3>2 DEF n
    <3> QED BY <3>1, <3>3
  <2>3. \A x : x \in Range(s) <=> x \in E
    BY <1>7, <2>1, <2>2
  <2> QED BY <2>3
<1>11. ASSUME NEW i \in 1..c, NEW j \in 1..c, i < j PROVE Precedes(s[i], s[j])
  <2>1. s[i] \in E /\ s[j] \in E /\ Standing(E, s[i]) = i /\ Standing(E, s[j]) = j
    BY <1>7
  <2>2. s[i] # s[j]
    <3>1. i # j
      BY <1>11
    <3> QED BY <2>1, <3>1
  <2>3. ~Precedes(s[j], s[i])
    <3> SUFFICES ASSUME Precedes(s[j], s[i]) PROVE FALSE
      OBVIOUS
    <3>1. j < i
      BY <2>1, Standings
    <3>2. i \in Int /\ j \in Int
      OBVIOUS
    <3> QED BY <1>11, <3>1, <3>2
  <2> QED BY <2>1, <2>2, <2>3, PrecedesOrders
<1> QED BY <1>1, <1>9, <1>10, <1>11 DEF s

\* What a deploy made is one account or none.
LEMMA MadeIs ==
  ASSUME NEW tx \in Transactions
  PROVE  /\ Created(tx) \in Int
         /\ \A a : a \in Made(tx) <=> a = Created(tx) /\ a # Nobody
<1> DEFINE foreseen == Predicted(tx)
<1>1. tx.sender \in Int /\ tx.nonce \in Int /\ tx.salt \in Int /\ tx.code \in Int /\ tx.returned \in Int
  BY DEF Transactions
<1>2. Nobody \in Int /\ Salted(tx.sender, tx.salt, tx.code) \in Int /\ Nonced(tx.sender, tx.nonce) \in Int
  BY <1>1 DEF Nobody, Salted, Nonced
<1>3. foreseen \in {Nobody, Salted(tx.sender, tx.salt, tx.code), Nonced(tx.sender, tx.nonce)}
  <2>1. CASE ~Deploys(tx) \/ tx.code = 0
    BY <2>1 DEF Predicted
  <2>2. CASE Deploys(tx) /\ tx.code # 0 /\ tx.salt # 0
    BY <2>2 DEF Predicted
  <2>3. CASE Deploys(tx) /\ tx.code # 0 /\ tx.salt = 0
    BY <2>3 DEF Predicted
  <2> QED BY <2>1, <2>2, <2>3
<1>4. foreseen \in Int
  BY <1>2, <1>3
<1> HIDE DEF foreseen
<1>5. Created(tx) = IF ~Deploys(tx) \/ tx.receipt = "failed" THEN Nobody
                    ELSE IF tx.returned # Nobody THEN tx.returned ELSE foreseen
  BY DEF Created, foreseen
<1>6. Created(tx) \in Int
  BY <1>1, <1>2, <1>4, <1>5
<1>7. CASE ~Deploys(tx) \/ tx.receipt = "failed"
  <2>1. Made(tx) = {}
    BY <1>7 DEF Made
  <2>2. Created(tx) = Nobody
    BY <1>5, <1>7
  <2> QED BY <1>6, <2>1, <2>2
<1>8. CASE Deploys(tx) /\ tx.receipt # "failed" /\ tx.returned # Nobody
  <2>1. Made(tx) = {tx.returned}
    BY <1>8 DEF Made
  <2>2. Created(tx) = tx.returned
    BY <1>5, <1>8
  <2> QED BY <1>6, <1>8, <2>1, <2>2
<1>9. CASE Deploys(tx) /\ tx.receipt # "failed" /\ tx.returned = Nobody
  <2>1. Made(tx) = {foreseen} \ {Nobody}
    BY <1>9 DEF Made, foreseen
  <2>2. Created(tx) = foreseen
    BY <1>5, <1>9
  <2> QED BY <1>6, <2>1, <2>2
<1> QED BY <1>7, <1>8, <1>9

\* The transactions of some heights that a node has, and those of them that made an account.
SeenIn(node, heights) == {p \in Everywhere(node.chain) : p.height \in heights \ node.missing}
MakersOf(node, heights, a) == {p \in SeenIn(node, heights) : a \in Made(Tx(node.chain, p))}
RowOf(node, p) == DeployRow(p, Tx(node.chain, p))
RowsIn(node) == {RowOf(node, p) : p \in Everywhere(node.chain)}

\* The transactions that made a contract are those of the blocks read that created it.
LEMMA MakersAreSeen ==
  ASSUME NEW node \in Nodes, NEW heights, NEW a
  PROVE  \A p : p \in MakersOf(node, heights, a) <=>
                p \in SeenIn(node, heights) /\ Created(Tx(node.chain, p)) = a /\ a # Nobody
<1>1. \A p \in SeenIn(node, heights) : Tx(node.chain, p) \in Transactions
  BY NodeIs, EverywhereIs DEF SeenIn
<1>2. \A p \in SeenIn(node, heights) : a \in Made(Tx(node.chain, p)) <=> Created(Tx(node.chain, p)) = a /\ a # Nobody
  BY <1>1, MadeIs
<1> QED BY <1>2 DEF MakersOf

\* The rows of the deploys, in the order of the chain.
RowsShow(node, heights, rows, made) ==
  /\ made \in Seq(Place) /\ Rising(made) /\ Len(rows) = Len(made) /\ rows \in Seq(RowsIn(node))
  /\ \A p : p \in Range(made) <=> p \in SeenIn(node, heights) /\ Created(Tx(node.chain, p)) # Nobody
  /\ \A i \in 1..Len(made) : rows[i] = RowOf(node, made[i])

\* The rows of the discovery are the creations in the blocks read, in the order of the blocks.
LEMMA RowsAre ==
  ASSUME NEW node \in Nodes, NEW heights
  PROVE  \E made : RowsShow(node, heights, DeployRowsOf(node, heights), made)
<1> DEFINE chain == node.chain
           all == Places(chain)
           W == {p \in Range(all) : p.height \in heights \ node.missing /\ Created(Tx(chain, p)) # Nobody}
           made == Among(all, W)
           rows == DeployRowsOf(node, heights)
           n == Len(made)
<1>1. chain \in Seq(Seq(Transactions))
  BY NodeIs
<1>2. all \in Seq(Place) /\ Rising(all) /\ Range(all) = Everywhere(chain)
  BY <1>1, PlacesAre
<1>3. rows = [i \in DOMAIN made |-> RowOf(node, made[i])]
  BY DEF DeployRowsOf, RowOf
<1>4. \A p : p \in W <=> p \in Everywhere(chain) /\ p.height \in heights \ node.missing /\ Created(Tx(chain, p)) # Nobody
  BY <1>2
<1> HIDE DEF all, W, rows
<1>5. made \in Seq(Place) /\ \A p : p \in Range(made) <=> p \in Range(all) /\ p \in W
  BY <1>2, AmongIs
<1>6. Rising(made)
  BY <1>2, AmongOrdered
<1> HIDE DEF made
<1>7. n \in Nat /\ DOMAIN made = 1..n /\ \A i \in 1..n : made[i] \in Range(made)
  <2>1. n \in Nat /\ DOMAIN made = 1..n
    BY <1>5, LenProperties
  <2>2. \A i \in 1..n : made[i] \in Range(made)
    BY <1>5, RangeOf
  <2> QED BY <2>1, <2>2
<1>8. \A p : p \in Range(made) <=> p \in SeenIn(node, heights) /\ Created(Tx(node.chain, p)) # Nobody
  BY <1>2, <1>4, <1>5 DEF SeenIn
<1>9. \A i \in 1..n : RowOf(node, made[i]) \in RowsIn(node)
  BY <1>7, <1>8 DEF SeenIn, RowsIn
<1> HIDE DEF n
<1>10. rows = [i \in 1..n |-> RowOf(node, made[i])]
  BY <1>3, <1>7
<1>11. rows \in [1..n -> RowsIn(node)]
  BY <1>9, <1>10
<1>12. rows \in Seq(RowsIn(node)) /\ Len(rows) = n
  BY <1>7, <1>11, LenIs
<1>13. \A i \in 1..n : rows[i] = RowOf(node, made[i])
  BY <1>10
<1>14. RowsShow(node, heights, rows, made)
  BY <1>5, <1>6, <1>8, <1>12, <1>13 DEF RowsShow, n
<1> QED BY <1>14 DEF rows

\* Of an address, the first row is that of the first deploy that made it.
RowsAt(rows, a) == Among(rows, {row \in Range(rows) : row.address = a})
FirstOfAll(p, among) == p \in among /\ \A q \in among : q = p \/ Earlier(p, q)
OwnRows(node, own, makers) ==
  /\ own = <<>> <=> makers = {}
  /\ \A h : h \in {own[i].at.height : i \in DOMAIN own} <=> \E q \in makers : q.height = h
  /\ own # <<>> => FirstOfAll(own[1].at, makers) /\ own[1].deployer = Tx(node.chain, own[1].at).sender

\* A row names the place, the contract created there and the account that sent it.
LEMMA RowIs ==
  ASSUME NEW node, NEW p
  PROVE  RowOf(node, p).at = p /\ RowOf(node, p).address = Created(Tx(node.chain, p)) /\ RowOf(node, p).deployer = Tx(node.chain, p).sender
BY DEF RowOf, DeployRow

\* The rows of one contract are those of the transactions that made it.
LEMMA OwnRowsAre ==
  ASSUME NEW node \in Nodes, NEW heights, NEW rows, rows = DeployRowsOf(node, heights), NEW a \in Int
  PROVE  a # Nobody => OwnRows(node, RowsAt(rows, a), MakersOf(node, heights, a))
<1> DEFINE own == RowsAt(rows, a)
           n == Len(own)
           makers == MakersOf(node, heights, a)
           W == {row \in Range(rows) : row.address = a}
<1> SUFFICES ASSUME a # Nobody PROVE OwnRows(node, own, makers)
  OBVIOUS
<1>1. PICK made : RowsShow(node, heights, rows, made)
  BY RowsAre
<1>2. /\ made \in Seq(Place) /\ Rising(made) /\ Len(rows) = Len(made) /\ rows \in Seq(RowsIn(node))
      /\ \A p : p \in Range(made) <=> p \in SeenIn(node, heights) /\ Created(Tx(node.chain, p)) # Nobody
      /\ \A i \in 1..Len(made) : rows[i] = RowOf(node, made[i])
  BY <1>1 DEF RowsShow
<1>m. \A p : p \in makers <=> p \in SeenIn(node, heights) /\ Created(Tx(node.chain, p)) = a
  BY MakersAreSeen
<1>3. \A row : row \in W <=> row \in Range(rows) /\ row.address = a
  OBVIOUS
<1>4. own = Among(rows, W)
  BY DEF RowsAt
<1> HIDE DEF W, own, makers
<1>5. /\ own \in Seq(RowsIn(node)) /\ n \in Nat
      /\ \A x : x \in Range(own) <=> x \in Range(rows) /\ x \in W
      /\ \A k, l \in 1..n : k < l => \E i, j \in 1..Len(rows) : i < j /\ own[k] = rows[i] /\ own[l] = rows[j]
  <2> DEFINE t == Among(rows, W)
             S == RowsIn(node)
  <2>0. rows \in Seq(S)
    BY <1>2
  <2> HIDE DEF S
  <2>1. /\ t \in Seq(S) /\ Len(t) \in Nat
        /\ \A x : x \in Range(t) <=> x \in Range(rows) /\ x \in W
        /\ \A k, l \in 1..Len(t) : k < l => \E i, j \in 1..Len(rows) : i < j /\ t[k] = rows[i] /\ t[l] = rows[j]
    BY ONLY <2>0, AmongIs
  <2> HIDE DEF t
  <2>2. own = t
    BY <1>4 DEF t
  <2> QED BY <2>1, <2>2 DEF S
<1>6. \A x : x \in Range(own) <=> \E k \in 1..n : own[k] = x
  BY <1>5, RangeOf
<1>7. \A x : x \in Range(rows) <=> \E i \in 1..Len(made) : rows[i] = x
  BY <1>2, RangeOf
<1>8. \A p : p \in Range(made) <=> \E i \in 1..Len(made) : made[i] = p
  BY <1>2, RangeOf
<1>9. ASSUME NEW q \in makers PROVE \E k \in 1..n : own[k] = RowOf(node, q)
  <2>1. q \in Range(made)
    BY <1>2, <1>m
  <2>2. PICK i \in 1..Len(made) : made[i] = q
    BY <1>8, <2>1
  <2>3. rows[i] = RowOf(node, q)
    BY <1>2, <2>2
  <2>4. RowOf(node, q).address = a
    BY <1>m, RowIs
  <2>5. RowOf(node, q) \in Range(own)
    BY <1>3, <1>5, <1>7, <2>3, <2>4
  <2> QED BY <1>6, <2>5
<1>10. ASSUME NEW k \in 1..n
       PROVE  own[k].at \in makers /\ own[k] = RowOf(node, own[k].at)
  <2>1. own[k] \in Range(rows) /\ own[k].address = a
    BY <1>3, <1>5, <1>6
  <2>2. PICK i \in 1..Len(made) : rows[i] = own[k]
    BY <1>7, <2>1
  <2>3. own[k] = RowOf(node, made[i])
    BY <1>2, <2>2
  <2>4. own[k].at = made[i]
    BY <2>3, RowIs
  <2>5. Created(Tx(node.chain, made[i])) = a
    BY <2>1, <2>3, RowIs
  <2>6. made[i] \in makers
    BY <1>2, <1>8, <1>m, <2>5
  <2> QED BY <2>3, <2>4, <2>6
<1>11. DOMAIN own = 1..n
  BY <1>5, LenProperties
<1> HIDE DEF n
<1>12. own = <<>> <=> n = 0
  BY <1>5, EmptySeq DEF n
<1>13. own = <<>> <=> makers = {}
  <2>1. CASE n = 0
    BY <1>9, <1>12, <2>1
  <2>2. CASE n # 0
    <3>1. 1 \in 1..n
      BY <1>5, <2>2
    <3> QED BY <1>10, <1>12, <2>2, <3>1
  <2> QED BY <2>1, <2>2
<1>14. \A h : h \in {own[i].at.height : i \in DOMAIN own} <=> \E q \in makers : q.height = h
  <2>1. \A h : h \in {own[i].at.height : i \in DOMAIN own} <=> \E i \in 1..n : own[i].at.height = h
    BY <1>11
  <2>2. ASSUME NEW q \in makers PROVE \E i \in 1..n : own[i].at.height = q.height
    <3>1. PICK i \in 1..n : own[i] = RowOf(node, q)
      BY <1>9
    <3>2. own[i].at = q
      BY <3>1, RowIs
    <3> QED BY <3>2
  <2>3. \A h : (\E i \in 1..n : own[i].at.height = h) <=> \E q \in makers : q.height = h
    BY <1>10, <2>2
  <2> QED BY <2>1, <2>3
<1>15. ASSUME own # <<>>
       PROVE  FirstOfAll(own[1].at, makers) /\ own[1].deployer = Tx(node.chain, own[1].at).sender
  <2>1. 1 \in 1..n
    BY <1>5, <1>12, <1>15
  <2>2. own[1].at \in makers /\ own[1] = RowOf(node, own[1].at)
    BY <1>10, <2>1
  <2>3. own[1].deployer = Tx(node.chain, own[1].at).sender
    BY <2>2, RowIs
  <2>4. ASSUME NEW q \in makers, q # own[1].at PROVE Earlier(own[1].at, q)
    <3>1. PICK k \in 1..n : own[k] = RowOf(node, q)
      BY <1>9
    <3>2. own[k].at = q
      BY <3>1, RowIs
    <3>3. 1 < k
      BY <2>4, <3>2
    <3>4. PICK i, j \in 1..Len(rows) : i < j /\ own[1] = rows[i] /\ own[k] = rows[j]
      BY <1>5, <2>1, <3>3 DEF n
    <3>5. Earlier(made[i], made[j])
      BY <1>2, <3>4 DEF Rising
    <3>6. own[1].at = made[i] /\ own[k].at = made[j]
      <4>1. rows[i] = RowOf(node, made[i]) /\ rows[j] = RowOf(node, made[j])
        BY <1>2
      <4> QED BY <3>4, <4>1, RowIs
    <3> QED BY <3>2, <3>5, <3>6
  <2> QED BY <2>2, <2>3, <2>4 DEF FirstOfAll
<1> QED BY <1>13, <1>14, <1>15 DEF OwnRows

\* What an entry says of an address, and what is registered of it.
RegisteredIn(R, a) == {d.height : d \in {e \in R : e.token = a}}
HeightsOf(own) == {own[i].at.height : i \in DOMAIN own}
Says(e, a, own, dex) ==
  /\ e.address = a /\ e.firstSeen = Min(dex \cup HeightsOf(own))
  /\ "deploy" \in e.sources => own # <<>>
  /\ e.deployer = IF own = <<>> THEN Nobody ELSE own[1].deployer
  /\ e.deployTx # Absent => own # <<>> /\ e.deployTx = own[1].at

\* An entry joins what the rows and what the registrations say of its contract.
LEMMA EntrySays ==
  ASSUME NEW a, NEW rows, NEW R
  PROVE  Says(Entry(a, rows, R), a, RowsAt(rows, a), RegisteredIn(R, a))
<1> DEFINE own == RowsAt(rows, a)
           dex == RegisteredIn(R, a)
           kinds == Among(own, {row \in Range(own) : InferAssetKind(row.purpose) # "other"})
           named == \E i \in DOMAIN own : own[i].named
           described == Among(own, {row \in Range(own) : row.hash # Absent})
           sources == (IF own = <<>> THEN {} ELSE {"deploy"}) \cup (IF dex = {} THEN {} ELSE {"dex"})
           kind == IF kinds # <<>> THEN InferAssetKind(Last(kinds).purpose) ELSE IF named THEN "fungible" ELSE "other"
           deployer == IF own = <<>> THEN Nobody ELSE own[1].deployer
           first == Min(dex \cup HeightsOf(own))
           deployTx == IF own # <<>> /\ own[1].known THEN own[1].at ELSE Absent
           hash == IF described = <<>> THEN Absent ELSE described[1].hash
           e == Entry(a, rows, R)
<1>1. e = [address |-> a, sources |-> sources, kind |-> kind, deployer |-> deployer, firstSeen |-> first,
           deployTx |-> deployTx, hash |-> hash]
  BY DEF Entry, RowsAt, RegisteredIn, HeightsOf
<1>2. "deploy" \in sources => own # <<>>
  OBVIOUS
<1>3. deployTx # Absent => own # <<>> /\ deployTx = own[1].at
  OBVIOUS
<1> HIDE DEF kind, hash, first, sources, deployTx, own, dex, kinds, named, described, e
<1>4. e.address = a /\ e.sources = sources /\ e.firstSeen = first /\ e.deployTx = deployTx /\ e.deployer = deployer
  BY <1>1
<1>5. Says(e, a, own, dex)
  BY <1>2, <1>3, <1>4 DEF Says, first
<1> QED BY <1>5 DEF e, own, dex

\* That is: it was first seen when it was first made or registered, by whom made it first.
Describes(node, heights, R, e) ==
  LET makers == MakersOf(node, heights, e.address) IN
  /\ e.address \in Int /\ e.firstSeen \in Nat
  /\ makers # {} \/ \E d \in R : d.token = e.address
  /\ "deploy" \in e.sources => makers # {}
  /\ e.deployTx # Absent => e.deployTx \in makers
  /\ makers = {} => e.deployer = Nobody
  /\ makers # {} => \E p \in makers : FirstOfAll(p, makers) /\ e.deployer = Tx(node.chain, p).sender
  /\ \A q \in makers : e.firstSeen <= q.height
  /\ \A d \in R : d.token = e.address => e.firstSeen <= d.height
Registrations == [token: Int, height: Nat]

\* An entry of the index describes a contract as the chain and the registrations do.
LEMMA EntryDescribes ==
  ASSUME NEW node \in Nodes, NEW heights, NEW rows, rows = DeployRowsOf(node, heights),
         NEW R, R \subseteq Registrations, NEW a \in Int,
         MakersOf(node, heights, a) # {} \/ \E d \in R : d.token = a
  PROVE  Entry(a, rows, R).address = a /\ Describes(node, heights, R, Entry(a, rows, R))
<1> DEFINE e == Entry(a, rows, R)
           own == RowsAt(rows, a)
           dex == RegisteredIn(R, a)
           makers == MakersOf(node, heights, a)
           all == dex \cup HeightsOf(own)
<1>1. Says(e, a, own, dex)
  BY EntrySays
<1>2. a # Nobody => OwnRows(node, own, makers)
  BY OwnRowsAre
<1>3. \A p \in makers : p \in Place /\ a # Nobody
  <2>1. \A p \in makers : p \in SeenIn(node, heights) /\ a # Nobody
    BY MakersAreSeen
  <2>2. \A p \in SeenIn(node, heights) : p \in Place
    BY NodeIs, EverywhereIs DEF SeenIn
  <2> QED BY <2>1, <2>2
<1>n. a = Nobody => own = <<>>
  <2> SUFFICES ASSUME a = Nobody PROVE own = <<>>
    OBVIOUS
  <2>1. PICK made : RowsShow(node, heights, rows, made)
    BY RowsAre
  <2>2. /\ made \in Seq(Place) /\ Len(rows) = Len(made) /\ rows \in Seq(RowsIn(node))
        /\ \A p : p \in Range(made) <=> p \in SeenIn(node, heights) /\ Created(Tx(node.chain, p)) # Nobody
        /\ \A i \in 1..Len(made) : rows[i] = RowOf(node, made[i])
    BY <2>1 DEF RowsShow
  <2> DEFINE W == {row \in Range(rows) : row.address = a}
             S == RowsIn(node)
             t == Among(rows, W)
  <2>3. W = {}
    <3>1. ASSUME NEW row \in Range(rows) PROVE row.address # Nobody
      <4>1. PICK i \in 1..Len(rows) : rows[i] = row
        BY <2>2, RangeOf
      <4>2. row = RowOf(node, made[i]) /\ made[i] \in Range(made)
        <5>1. i \in 1..Len(made)
          BY <2>2, <4>1
        <5>2. made[i] \in Range(made)
          BY <2>2, <5>1, RangeOf
        <5> QED BY <2>2, <4>1, <5>1, <5>2
      <4> QED BY <2>2, <4>2, RowIs
    <3> QED BY <3>1
  <2>4. own = t
    BY DEF RowsAt
  <2>5. rows \in Seq(S)
    BY <2>2
  <2> HIDE DEF S, W, t, own
  <2>6. Among(rows, W) \in Seq(S) /\ \A x : x \in Range(Among(rows, W)) <=> x \in Range(rows) /\ x \in W
    BY ONLY <2>5, AmongIs
  <2>7. t \in Seq(S) /\ \A x : x \notin Range(t)
    BY <2>3, <2>6 DEF t
  <2>8. \A i \in 1..Len(t) : t[i] \in Range(t)
    BY <2>7, RangeOf
  <2>9. Len(t) \in Nat
    BY <2>7, LenProperties
  <2>10. Len(t) = 0
    <3> SUFFICES ASSUME Len(t) # 0 PROVE FALSE
      OBVIOUS
    <3>1. 1 \in 1..Len(t)
      BY <2>9
    <3> QED BY <2>7, <2>8, <3>1
  <2>11. t = <<>>
    BY <2>7, <2>10, EmptySeq
  <2> QED BY <2>4, <2>11
<1> HIDE DEF e, own, dex, makers
<1>4. /\ e.address = a /\ e.firstSeen = Min(all)
      /\ "deploy" \in e.sources => own # <<>>
      /\ e.deployer = IF own = <<>> THEN Nobody ELSE own[1].deployer
      /\ e.deployTx # Absent => own # <<>> /\ e.deployTx = own[1].at
  BY <1>1 DEF Says
<1>5. /\ own = <<>> <=> makers = {}
      /\ \A h : h \in HeightsOf(own) <=> \E q \in makers : q.height = h
      /\ own # <<>> => FirstOfAll(own[1].at, makers) /\ own[1].deployer = Tx(node.chain, own[1].at).sender
  <2>1. CASE a = Nobody
    <3>1. own = <<>> /\ makers = {}
      BY <1>3, <1>n, <2>1
    <3>2. HeightsOf(own) = {}
      <4>1. DOMAIN own = {}
        BY <3>1
      <4> QED BY <4>1 DEF HeightsOf
    <3> QED BY <3>1, <3>2
  <2>2. CASE a # Nobody
    <3>1. OwnRows(node, own, makers)
      BY <1>2, <2>2
    <3> QED BY <3>1 DEF OwnRows, HeightsOf
  <2> QED BY <2>1, <2>2
<1>6. \A h : h \in dex <=> \E d \in R : d.token = a /\ d.height = h
  BY DEF dex, RegisteredIn
<1>7. all \subseteq Nat /\ all # {}
  <2>1. \A h \in dex : h \in Nat
    BY <1>6 DEF Registrations
  <2>2. \A h \in HeightsOf(own) : h \in Nat
    BY <1>3, <1>5 DEF Place
  <2>3. (\E h : h \in dex) \/ (\E h : h \in HeightsOf(own))
    BY <1>5, <1>6 DEF makers
  <2> QED BY <2>1, <2>2, <2>3
<1>8. \A h : h \in all <=> h \in dex \/ h \in HeightsOf(own)
  OBVIOUS
<1> HIDE DEF all
<1>9. Min(all) \in all /\ \A h \in all : Min(all) <= h
  BY <1>7, MinIs
<1>10. e.firstSeen \in Nat
  BY <1>4, <1>7, <1>9
<1>11. \A q \in makers : e.firstSeen <= q.height
  BY <1>4, <1>5, <1>8, <1>9
<1>12. \A d \in R : d.token = a => e.firstSeen <= d.height
  BY <1>4, <1>6, <1>8, <1>9
<1>13. makers # {} => \E p \in makers : FirstOfAll(p, makers) /\ e.deployer = Tx(node.chain, p).sender
  BY <1>4, <1>5 DEF FirstOfAll
<1>14. e.deployTx # Absent => e.deployTx \in makers
  BY <1>4, <1>5 DEF FirstOfAll
<1>15. makers # {} \/ \E d \in R : d.token = a
  BY DEF makers
<1>16. Describes(node, heights, R, e)
  BY <1>4, <1>5, <1>10, <1>11, <1>12, <1>13, <1>14, <1>15 DEF Describes, makers
<1> QED BY <1>4, <1>16 DEF e

\* The entries of an index: one for every address that was made or registered, and no other.
AddressesOf(rows, R) == {rows[i].address : i \in DOMAIN rows} \cup {d.token : d \in R}
EntriesOf(rows, R) == {Entry(a, rows, R) : a \in AddressesOf(rows, R)}
Indexes(node, heights, R, E) ==
  /\ Entries(E)
  /\ \A e \in E : Describes(node, heights, R, e)
  /\ \A a : MakersOf(node, heights, a) # {} \/ (\E d \in R : d.token = a) => \E e \in E : e.address = a

\* The image of a finite set is finite.
LEMMA FiniteImage ==
  ASSUME NEW S, IsFiniteSet(S), NEW f, DOMAIN f = S, NEW T, \A y : y \in T <=> \E x \in S : f[x] = y
  PROVE  IsFiniteSet(T)
<1> DEFINE g == [x \in S |-> f[x]]
<1>1. g \in [S -> T]
  OBVIOUS
<1>2. \A y \in T : \E x \in S : g[x] = y
  OBVIOUS
<1> HIDE DEF g
<1>3. g \in Surjection(S, T)
  BY <1>1, <1>2 DEF Surjection
<1> QED BY <1>3, FS_Surjection

\* The entries index every contract that was created in the blocks read or registered, and no other.
LEMMA EntriesAre ==
  ASSUME NEW node \in Nodes, NEW heights, NEW rows, rows = DeployRowsOf(node, heights),
         NEW R, R \subseteq Registrations, IsFiniteSet(R)
  PROVE  Indexes(node, heights, R, EntriesOf(rows, R))
<1> DEFINE A == AddressesOf(rows, R)
           E == EntriesOf(rows, R)
           B == {rows[i].address : i \in DOMAIN rows}
           C == {d.token : d \in R}
<1>1. PICK made : RowsShow(node, heights, rows, made)
  BY RowsAre
<1>2. /\ made \in Seq(Place) /\ Len(rows) = Len(made) /\ rows \in Seq(RowsIn(node))
      /\ \A p : p \in Range(made) <=> p \in SeenIn(node, heights) /\ Created(Tx(node.chain, p)) # Nobody
      /\ \A i \in 1..Len(made) : rows[i] = RowOf(node, made[i])
  BY <1>1 DEF RowsShow
<1>3. Len(rows) \in Nat /\ DOMAIN rows = 1..Len(rows)
  BY <1>2, LenProperties
<1>4. \A i \in DOMAIN rows : made[i] \in Range(made) /\ rows[i].address = Created(Tx(node.chain, made[i]))
  <2>1. \A i \in DOMAIN rows : i \in 1..Len(made)
    BY <1>2, <1>3
  <2>2. \A i \in 1..Len(made) : made[i] \in Range(made)
    BY <1>2, RangeOf
  <2> QED BY <1>2, <2>1, <2>2, RowIs
<1>5. \A p \in SeenIn(node, heights) : Created(Tx(node.chain, p)) \in Int
  <2>1. \A p \in SeenIn(node, heights) : Tx(node.chain, p) \in Transactions
    BY NodeIs, EverywhereIs DEF SeenIn
  <2> QED BY <2>1, MadeIs
<1>6. \A a : a \in B <=> MakersOf(node, heights, a) # {}
  <2>1. ASSUME NEW i \in DOMAIN rows PROVE MakersOf(node, heights, rows[i].address) # {}
    <3>1. made[i] \in SeenIn(node, heights) /\ rows[i].address = Created(Tx(node.chain, made[i])) /\ rows[i].address # Nobody
      BY <1>2, <1>4
    <3> QED BY <3>1, MakersAreSeen
  <2>2. ASSUME NEW a, NEW p \in MakersOf(node, heights, a) PROVE \E i \in DOMAIN rows : rows[i].address = a
    <3>1. p \in SeenIn(node, heights) /\ Created(Tx(node.chain, p)) = a /\ a # Nobody
      BY MakersAreSeen
    <3>2. p \in Range(made)
      BY <1>2, <3>1
    <3>3. PICK i \in 1..Len(made) : made[i] = p
      BY <1>2, <3>2, RangeOf
    <3>4. i \in DOMAIN rows
      BY <1>2, <1>3
    <3> QED BY <1>4, <3>1, <3>3, <3>4
  <2> QED BY <2>1, <2>2
<1>7. \A a : a \in C <=> \E d \in R : d.token = a
  OBVIOUS
<1>8. A = B \cup C
  BY DEF AddressesOf
<1>9. \A a \in A : a \in Int
  <2>1. \A a \in B : a \in Int
    <3>1. ASSUME NEW i \in DOMAIN rows PROVE rows[i].address \in Int
      BY <1>2, <1>4, <1>5
    <3> QED BY <3>1
  <2>2. \A a \in C : a \in Int
    BY DEF Registrations
  <2> QED BY <1>8, <2>1, <2>2
<1>10. IsFiniteSet(A)
  <2>1. IsFiniteSet(B)
    <3> DEFINE f == [i \in DOMAIN rows |-> rows[i].address]
    <3>1. IsFiniteSet(DOMAIN rows)
      BY <1>3, UpTo
    <3>2. DOMAIN f = DOMAIN rows /\ \A y : y \in B <=> \E i \in DOMAIN rows : f[i] = y
      OBVIOUS
    <3> HIDE DEF f, B
    <3> QED BY <3>1, <3>2, FiniteImage
  <2>2. IsFiniteSet(C)
    <3> DEFINE f == [d \in R |-> d.token]
    <3>1. DOMAIN f = R /\ \A y : y \in C <=> \E d \in R : f[d] = y
      OBVIOUS
    <3> HIDE DEF f, C
    <3> QED BY <3>1, FiniteImage
  <2> HIDE DEF B, C
  <2> QED BY <1>8, <2>1, <2>2, FS_Union
<1> HIDE DEF A, B, C
<1>11. \A x : x \in E <=> \E a \in A : x = Entry(a, rows, R)
  BY DEF EntriesOf, A
<1> HIDE DEF E
<1>12. ASSUME NEW a \in A PROVE Entry(a, rows, R).address = a /\ Describes(node, heights, R, Entry(a, rows, R))
  <2>1. MakersOf(node, heights, a) # {} \/ \E d \in R : d.token = a
    BY <1>6, <1>7, <1>8
  <2>2. a \in Int
    BY <1>9
  <2> QED BY <2>1, <2>2, EntryDescribes
<1>13. \A e \in E : Describes(node, heights, R, e)
  BY <1>11, <1>12
<1>14. \A a : MakersOf(node, heights, a) # {} \/ (\E d \in R : d.token = a) => \E e \in E : e.address = a
  BY <1>6, <1>7, <1>8, <1>11, <1>12
<1>15. \A e, f \in E : e.address = f.address => e = f
  BY <1>11, <1>12
<1>16. \A e \in E : e.firstSeen \in Int /\ e.address \in Int
  BY <1>13 DEF Describes
<1>17. IsFiniteSet(E)
  <2> DEFINE f == [a \in A |-> Entry(a, rows, R)]
  <2>1. DOMAIN f = A /\ \A y : y \in E <=> \E a \in A : f[a] = y
    BY <1>11
  <2> HIDE DEF f
  <2> QED BY <1>10, <2>1, FiniteImage
<1>18. Indexes(node, heights, R, E)
  BY <1>13, <1>14, <1>15, <1>16, <1>17 DEF Indexes, Entries
<1> QED BY <1>18 DEF E

\* The index of some heights.
LEMMA IndexIs ==
  ASSUME NEW node \in Nodes, NEW heights, NEW index, index = BuildTokenIndex(node, heights), index # Absent,
         NEW R, R = {d \in node.registered : d.height \in heights}
  PROVE  /\ heights \cap node.badBlocks = {}
         /\ Len(index) \in Nat /\ DOMAIN index = 1..Len(index)
         /\ \A i, j \in 1..Len(index) : i < j => Precedes(index[i], index[j])
         /\ Indexes(node, heights, R, Range(index))
<1> DEFINE rows == DeployRowsOf(node, heights)
           E == EntriesOf(rows, R)
<1>1. index = IF heights \cap node.badBlocks # {} THEN Absent ELSE InOrder(E)
  BY DEF BuildTokenIndex, EntriesOf, AddressesOf
<1>2. node.registered \subseteq Registrations /\ IsFiniteSet(node.registered)
  BY DEF Nodes, Registrations
<1>3. R \subseteq Registrations /\ IsFiniteSet(R)
  <2>1. R \subseteq node.registered
    OBVIOUS
  <2> QED BY <1>2, <2>1, FS_Subset
<1>4. Indexes(node, heights, R, E)
  BY <1>3, EntriesAre
<1> HIDE DEF rows, E
<1>5. heights \cap node.badBlocks = {} /\ index = InOrder(E)
  BY <1>1
<1>6. Entries(E)
  BY <1>4 DEF Indexes
<1>7. /\ Len(index) \in Nat /\ DOMAIN index = 1..Len(index) /\ Range(index) = E
      /\ \A i, j \in 1..Len(index) : i < j => Precedes(index[i], index[j])
  BY <1>5, <1>6, InOrderIs
<1> QED BY <1>4, <1>5, <1>7

-----------------------------------------------------------------------------
\* The older blocks that a profile indexes: all in which there is a plain deploy of the account,
\* if the node lists all of them and they are not too many.
OldDeploys(node, account, from) ==
  LET heights == FetchAccountDeployHeights(node, account) IN
  Among(SubSeq(heights, Max({1, Len(heights) - HeightCap + 1}), Len(heights)), {h \in Range(heights) : h < from})
PlainHeights(node, a) == {p.height : p \in Plain(node, DeploysOf(node.chain, a))}

\* The blocks before the window that are read for deployments, and that all of them are when the
\* list was whole and within the cap.
LEMMA OldDeploysAre ==
  ASSUME NEW node \in Nodes, NEW a, NEW from \in Nat
  PROVE  /\ OldDeploys(node, a, from) \in Seq(Nat)
         /\ ListedWhole(node, a) /\ Cardinality(PlainHeights(node, a)) <= HeightCap =>
              \A h \in PlainHeights(node, a) : h < from => h \in Range(OldDeploys(node, a, from))
<1> DEFINE heights == FetchAccountDeployHeights(node, a)
           n == Len(heights)
           m == Max({1, n - HeightCap + 1})
           W == {h \in Range(heights) : h < from}
           last == SubSeq(heights, m, n)
           P == PlainHeights(node, a)
           old == OldDeploys(node, a, from)
<1>1. /\ heights \in Seq(Nat) /\ \A i, j \in 1..n : i < j => heights[i] < heights[j]
      /\ Range(heights) \subseteq P
      /\ ListedWhole(node, a) => P \subseteq Range(heights)
  BY DeployHeightsAre DEF PlainHeights
<1>2. old = Among(last, W)
  BY DEF OldDeploys
<1>3. \A h : h \in W <=> h \in Range(heights) /\ h < from
  OBVIOUS
<1> HIDE DEF heights, W, P, old
<1>4. n \in Nat /\ \A i \in 1..n : heights[i] \in Nat
  BY <1>1, LenProperties, ElementOfSeq
<1>c. HeightCap \in Nat \ {0}
  BY IndexAssumption
<1> HIDE DEF n
<1>5. n - HeightCap + 1 \in Int /\ 1 \in Int
  BY <1>4, <1>c
<1>6. m = IF 1 >= n - HeightCap + 1 THEN 1 ELSE n - HeightCap + 1
  BY <1>5, MaxOfTwo
<1>7. m \in 1..(n + 1) /\ n \in (m - 1)..n
  BY <1>4, <1>c, <1>6
<1> HIDE DEF m
<1>8. last \in Seq(Nat)
  BY <1>1, <1>7, SubSeqProperties DEF n
<1>9. Among(last, W) \in Seq(Nat) /\ \A x : x \in Range(Among(last, W)) <=> x \in Range(last) /\ x \in W
  <2> HIDE DEF last
  <2> QED BY ONLY <1>8, AmongIs
<1>10. ASSUME ListedWhole(node, a), Cardinality(P) <= HeightCap, NEW h \in P, h < from PROVE h \in Range(old)
  <2>1. Range(heights) = P
    BY <1>1, <1>10
  <2>2. \A i, j \in 1..Len(heights) : heights[i] = heights[j] => i = j
    <3>1. ASSUME NEW i \in 1..n, NEW j \in 1..n, heights[i] = heights[j] PROVE i = j
      <4>1. ~(i < j) /\ ~(j < i)
        BY <1>1, <1>4, <3>1
      <4> QED BY <4>1
    <3> QED BY <3>1 DEF n
  <2>3. Cardinality(P) = n
    BY <1>1, <2>1, <2>2, RangeOfDistinct DEF n
  <2>4. m = 1
    BY <1>4, <1>6, <1>c, <1>10, <2>3
  <2>5. n \in 0..Len(heights)
    BY <1>4 DEF n
  <2>6. Len(last) = n /\ \A i \in 1..n : last[i] = heights[i]
    BY <1>1, <2>4, <2>5, FirstOf
  <2>7. PICK i \in 1..n : heights[i] = h
    BY <1>1, <1>10, <2>1, RangeOf DEF n
  <2>8. h \in Range(last)
    <3>1. last[i] = h /\ i \in 1..Len(last)
      BY <2>6, <2>7
    <3> HIDE DEF last
    <3> QED BY <1>8, <3>1, RangeOf
  <2> HIDE DEF last
  <2>9. h \in W
    BY <1>3, <1>10, <2>1
  <2>10. h \in Range(Among(last, W))
    BY <1>9, <2>8, <2>9
  <2> QED BY <1>2, <2>10
<1>11. old \in Seq(Nat)
  BY <1>2, <1>9
<1> QED BY <1>10, <1>11 DEF old, P

\* What a profile is made of: the index of the window, those of older blocks, and the samples.
Window(node, window) == From(node, window)..node.head
OldIndex(node, h) == BuildTokenIndex(node, {h})
KnownOf(node, account, window, e) ==
  \/ e \in Range(BuildTokenIndex(node, Window(node, window)))
  \/ \E h \in Range(OldDeploys(node, account, From(node, window))) : e \in Range(OldIndex(node, h))
SamplesOf(node, account, window, storage) == Samples(storage, DiscoverTokenIds(node, account, Window(node, window)))
Profiles(node, account, window, storage, got) ==
  /\ got.index = BuildTokenIndex(node, Window(node, window)) /\ got.index # Absent
  /\ \A h \in Range(OldDeploys(node, account, From(node, window))) : OldIndex(node, h) # Absent
  /\ got.samples = SamplesOf(node, account, window, storage)
  /\ \A a : a \in got.deployed <=>
       \E e : KnownOf(node, account, window, e) /\ e.deployer = account /\ e.address = a /\ a # account

\* The assets of an account are made of the index of the window, the storage that was read and the
\* older deployments.
LEMMA ProfileIs ==
  ASSUME NEW node \in Nodes, NEW account, NEW window \in Nat \ {0}, NEW storage,
         NEW got, got = Profile(node, account, window, storage), got # Absent
  PROVE  Profiles(node, account, window, storage, got)
<1> DEFINE from == From(node, window)
           index == BuildTokenIndex(node, Window(node, window))
           older == OldDeploys(node, account, from)
           each == [i \in DOMAIN older |-> OldIndex(node, older[i])]
           all == Range(index) \cup UNION {Range(each[i]) : i \in DOMAIN each}
           samples == SamplesOf(node, account, window, storage)
           kind == {IF samples # <<>> THEN "nft" ELSE e.kind : e \in {f \in Range(index) : f.address = account}}
           deployed == {e.address : e \in {f \in all : f.deployer = account /\ f.address # account}}
           known == [index |-> index, samples |-> samples, kind |-> kind, deployed |-> deployed]
           failed == index = Absent \/ \E i \in DOMAIN each : each[i] = Absent
<1>1. got = IF failed THEN Absent ELSE known
  BY DEF Profile, Window, OldDeploys, OldIndex, SamplesOf
<1>2. ~failed /\ got = known
  BY <1>1
<1>3. got.index = index /\ got.samples = samples /\ got.deployed = deployed
  <2> HIDE DEF index, samples, kind, deployed
  <2> QED BY <1>2
<1>4. older \in Seq(Nat)
  BY NodeIs, OldDeploysAre
<1>5. \A h : h \in Range(older) <=> \E i \in DOMAIN older : older[i] = h
  <2> HIDE DEF older
  <2>1. DOMAIN older = 1..Len(older)
    BY <1>4, LenProperties
  <2> QED BY <1>4, <2>1, RangeOf
<1>6. DOMAIN each = DOMAIN older /\ \A i \in DOMAIN older : each[i] = OldIndex(node, older[i])
  OBVIOUS
<1>7. \A e : e \in all <=> e \in Range(index) \/ \E i \in DOMAIN each : e \in Range(each[i])
  OBVIOUS
<1>8. \A a : a \in deployed <=> \E e : e \in all /\ e.deployer = account /\ e.address = a /\ a # account
  <2> HIDE DEF all
  <2> QED OBVIOUS
<1> HIDE DEF each, all, deployed, known, failed, older, index
<1>9. \A e : e \in all <=> KnownOf(node, account, window, e)
  BY <1>5, <1>6, <1>7 DEF KnownOf, older, index
<1>10. \A h \in Range(older) : OldIndex(node, h) # Absent
  BY <1>2, <1>5, <1>6 DEF failed
<1>11. index # Absent
  BY <1>2 DEF failed
<1> HIDE DEF from, samples, kind
<1>12. \A a : a \in got.deployed <=>
       \E e : KnownOf(node, account, window, e) /\ e.deployer = account /\ e.address = a /\ a # account
  BY <1>3, <1>8, <1>9
<1> QED BY <1>3, <1>10, <1>11, <1>12 DEF Profiles, index, samples, older, from

-----------------------------------------------------------------------------
\* The first that made what it made.
MadeAt(node, p) == Made(Tx(node.chain, p))
FirstToMake(node, p, among) == \A q \in among : Earlier(q, p) => MadeAt(node, q) \cap MadeAt(node, p) = {}

\* One transaction makes at most one account.
LEMMA MakesOne ==
  ASSUME NEW node \in Nodes, NEW heights, NEW p \in SeenIn(node, heights), NEW a, a \in MadeAt(node, p)
  PROVE  /\ p \in Place /\ p \in Everywhere(node.chain) /\ a \in Int
         /\ p \in MakersOf(node, heights, a)
         /\ \A b \in MadeAt(node, p) : b = a
<1>1. p \in Place /\ p \in Everywhere(node.chain) /\ Tx(node.chain, p) \in Transactions
  BY NodeIs, EverywhereIs DEF SeenIn
<1>2. Created(Tx(node.chain, p)) \in Int /\ \A b : b \in MadeAt(node, p) => b = Created(Tx(node.chain, p))
  BY <1>1, MadeIs DEF MadeAt
<1>3. p \in MakersOf(node, heights, a)
  BY DEF MakersOf, MadeAt
<1> QED BY <1>1, <1>2, <1>3

\* Of the makers of an account, the first of all is the first to make it, and the other way.
LEMMA FirstMaker ==
  ASSUME NEW node \in Nodes, NEW heights, NEW a, NEW p, FirstOfAll(p, MakersOf(node, heights, a))
  PROVE  /\ p \in SeenIn(node, heights) /\ a \in MadeAt(node, p) /\ FirstToMake(node, p, SeenIn(node, heights))
         /\ \A q \in SeenIn(node, heights) :
              a \in MadeAt(node, q) /\ FirstToMake(node, q, SeenIn(node, heights)) => q = p
<1>1. p \in MakersOf(node, heights, a) /\ \A q \in MakersOf(node, heights, a) : q = p \/ Earlier(p, q)
  BY DEF FirstOfAll
<1>2. p \in SeenIn(node, heights) /\ a \in MadeAt(node, p)
  BY <1>1 DEF MakersOf, MadeAt
<1>3. p \in Place /\ \A b \in MadeAt(node, p) : b = a
  BY <1>2, MakesOne
<1>4. ASSUME NEW q \in SeenIn(node, heights), Earlier(q, p), NEW b \in MadeAt(node, q), b \in MadeAt(node, p) PROVE FALSE
  <2>1. b = a
    BY <1>3, <1>4
  <2>2. q \in Place /\ q \in MakersOf(node, heights, a)
    BY <1>4, <2>1, MakesOne
  <2>3. q = p \/ Earlier(p, q)
    BY <1>1, <2>2
  <2> QED BY <1>3, <1>4, <2>2, <2>3, EarlierOrders
<1>5. FirstToMake(node, p, SeenIn(node, heights))
  BY <1>4 DEF FirstToMake
<1>6. ASSUME NEW q \in SeenIn(node, heights), a \in MadeAt(node, q), FirstToMake(node, q, SeenIn(node, heights)), q # p
      PROVE  FALSE
  <2>1. q \in MakersOf(node, heights, a)
    BY <1>6, MakesOne
  <2>2. Earlier(p, q)
    BY <1>1, <1>6, <2>1
  <2> QED BY <1>2, <1>6, <2>2 DEF FirstToMake
<1> QED BY <1>2, <1>5, <1>6

\* What an index says of its heights.
Registered(node, heights) == {d \in node.registered : d.height \in heights}
Told(node, heights, R, e) ==
  /\ e.deployTx # Absent => e.deployTx \in SeenIn(node, heights) /\ e.address \in MadeAt(node, e.deployTx)
  /\ "deploy" \in e.sources =>
       \E p \in SeenIn(node, heights) :
         /\ e.address \in MadeAt(node, p) /\ FirstToMake(node, p, SeenIn(node, heights))
         /\ Tx(node.chain, p).sender = e.deployer
  /\ \A p \in SeenIn(node, heights) : e.address \in MadeAt(node, p) => e.firstSeen <= p.height
  /\ \A r \in R : r.token = e.address => e.firstSeen <= r.height

TellsOf(node, heights, R, index) ==
  /\ \A a : (\E e \in Range(index) : e.address = a) <=>
            (\E p \in SeenIn(node, heights) : a \in MadeAt(node, p)) \/ \E r \in R : r.token = a
  /\ \A i, j \in DOMAIN index : i < j =>
       index[i].address # index[j].address /\ index[i].firstSeen >= index[j].firstSeen
  /\ \A e \in Range(index) : Told(node, heights, R, e)
  /\ \A p \in SeenIn(node, heights) : \A a \in MadeAt(node, p) : FirstToMake(node, p, SeenIn(node, heights)) =>
       \E e \in Range(index) : e.address = a /\ e.deployer = Tx(node.chain, p).sender
  /\ \A e \in Range(index) : e.deployer # Nobody =>
       \E p \in SeenIn(node, heights) : e.address \in MadeAt(node, p) /\ Tx(node.chain, p).sender = e.deployer

\* That is: all that was made or registered and no other, in its order, by its first maker.
LEMMA IndexTells ==
  ASSUME NEW node \in Nodes, NEW heights, NEW index, index = BuildTokenIndex(node, heights), index # Absent,
         NEW R, R = Registered(node, heights)
  PROVE  heights \cap node.badBlocks = {} /\ TellsOf(node, heights, R, index)
<1> DEFINE E == Range(index)
           S == SeenIn(node, heights)
<1>1. /\ heights \cap node.badBlocks = {}
      /\ Len(index) \in Nat /\ DOMAIN index = 1..Len(index)
      /\ \A i, j \in 1..Len(index) : i < j => Precedes(index[i], index[j])
      /\ Indexes(node, heights, R, E)
  BY IndexIs DEF Registered
<1>2. \A i \in DOMAIN index : index[i] \in E
  BY DEF Range
<1> HIDE DEF E
<1>3. /\ Entries(E)
      /\ \A e \in E : Describes(node, heights, R, e)
      /\ \A a : MakersOf(node, heights, a) # {} \/ (\E d \in R : d.token = a) => \E e \in E : e.address = a
  BY <1>1 DEF Indexes
<1>4. \A e \in E :
        /\ MakersOf(node, heights, e.address) # {} \/ \E d \in R : d.token = e.address
        /\ "deploy" \in e.sources => MakersOf(node, heights, e.address) # {}
        /\ e.deployTx # Absent => e.deployTx \in MakersOf(node, heights, e.address)
        /\ MakersOf(node, heights, e.address) = {} => e.deployer = Nobody
        /\ MakersOf(node, heights, e.address) # {} =>
             \E p \in MakersOf(node, heights, e.address) :
               FirstOfAll(p, MakersOf(node, heights, e.address)) /\ e.deployer = Tx(node.chain, p).sender
        /\ \A q \in MakersOf(node, heights, e.address) : e.firstSeen <= q.height
        /\ \A d \in R : d.token = e.address => e.firstSeen <= d.height
  BY <1>3 DEF Describes
<1>5. \A a : \A p : p \in MakersOf(node, heights, a) <=> p \in S /\ a \in MadeAt(node, p)
  BY DEF MakersOf, MadeAt
<1>6. \A a : (\E e \in E : e.address = a) <=> (\E p \in S : a \in MadeAt(node, p)) \/ \E r \in R : r.token = a
  BY <1>3, <1>4, <1>5
<1>7. ASSUME NEW i \in DOMAIN index, NEW j \in DOMAIN index, i < j
      PROVE  index[i].address # index[j].address /\ index[i].firstSeen >= index[j].firstSeen
  <2> DEFINE e == index[i]
             f == index[j]
  <2>1. e \in E /\ f \in E /\ Precedes(e, f)
    BY <1>1, <1>2, <1>7
  <2> HIDE DEF e, f
  <2>2. e # f
    BY <1>3, <2>1, PrecedesOrders
  <2>3. e.firstSeen \in Int /\ f.firstSeen \in Int /\ (e.address = f.address => e = f)
    BY <1>3, <2>1 DEF Entries
  <2>4. e.address # f.address
    BY <2>2, <2>3
  <2>5. e.firstSeen >= f.firstSeen
    BY <2>1, <2>3 DEF Precedes
  <2> QED BY <2>4, <2>5 DEF e, f
<1>8. ASSUME NEW e \in E, MakersOf(node, heights, e.address) # {}
      PROVE  \E p \in S : /\ e.address \in MadeAt(node, p) /\ FirstToMake(node, p, S)
                          /\ Tx(node.chain, p).sender = e.deployer
                          /\ \A q \in S : e.address \in MadeAt(node, q) /\ FirstToMake(node, q, S) => q = p
  <2>1. PICK p \in MakersOf(node, heights, e.address) :
          FirstOfAll(p, MakersOf(node, heights, e.address)) /\ e.deployer = Tx(node.chain, p).sender
    BY <1>4, <1>8
  <2> DEFINE a == e.address
  <2>2. FirstOfAll(p, MakersOf(node, heights, a))
    BY <2>1
  <2> HIDE DEF a
  <2>3. p \in S /\ a \in MadeAt(node, p) /\ FirstToMake(node, p, S)
        /\ \A q \in S : a \in MadeAt(node, q) /\ FirstToMake(node, q, S) => q = p
    BY <2>2, FirstMaker
  <2> QED BY <2>1, <2>3 DEF a
<1>9. ASSUME NEW e \in E PROVE Told(node, heights, R, e)
  <2>1. e.deployTx # Absent => e.deployTx \in S /\ e.address \in MadeAt(node, e.deployTx)
    BY <1>4, <1>5
  <2>2. "deploy" \in e.sources =>
          \E p \in S : e.address \in MadeAt(node, p) /\ FirstToMake(node, p, S) /\ Tx(node.chain, p).sender = e.deployer
    BY <1>4, <1>8
  <2>3. \A p \in S : e.address \in MadeAt(node, p) => e.firstSeen <= p.height
    BY <1>4, <1>5
  <2>4. \A r \in R : r.token = e.address => e.firstSeen <= r.height
    BY <1>4
  <2> QED BY <2>1, <2>2, <2>3, <2>4 DEF Told
<1>10. ASSUME NEW p \in S, NEW a \in MadeAt(node, p), FirstToMake(node, p, S)
       PROVE  \E e \in E : e.address = a /\ e.deployer = Tx(node.chain, p).sender
  <2>1. MakersOf(node, heights, a) # {}
    BY <1>5, <1>10
  <2>2. PICK e \in E : e.address = a
    BY <1>3, <2>1
  <2>3. PICK q \in S : /\ Tx(node.chain, q).sender = e.deployer
                       /\ \A r \in S : e.address \in MadeAt(node, r) /\ FirstToMake(node, r, S) => r = q
    BY <1>8, <2>1, <2>2
  <2>4. p = q
    BY <1>10, <2>2, <2>3
  <2> QED BY <2>2, <2>3, <2>4
<1>11. ASSUME NEW e \in E, e.deployer # Nobody
       PROVE  \E p \in S : e.address \in MadeAt(node, p) /\ Tx(node.chain, p).sender = e.deployer
  <2>1. MakersOf(node, heights, e.address) # {}
    BY <1>4, <1>11
  <2> QED BY <1>8, <2>1
<1> QED BY <1>1, <1>6, <1>7, <1>9, <1>10, <1>11 DEF E, TellsOf

\* The deploys that a profile lists are of its account.
SentBy(node, a) == {p \in Everywhere(node.chain) : Tx(node.chain, p).sender = a}

\* A contract listed as deployed was made by the account, and what the account made in a block that
\* was read is listed.
LEMMA ListedDeploys ==
  ASSUME NEW node \in Nodes, NEW account \in Somebody, NEW window \in Nat \ {0}, NEW storage, NEW got,
         Profiles(node, account, window, storage, got), NEW S, S = SeenIn(node, Window(node, window))
  PROVE  /\ \A p \in S \cap SentBy(node, account) : FirstToMake(node, p, S) =>
              MadeAt(node, p) \ {account} \subseteq got.deployed
         /\ \A a \in got.deployed : \E p \in SentBy(node, account) : a \in MadeAt(node, p)
         /\ \A h \in Range(OldDeploys(node, account, From(node, window))) :
            \A p \in SeenIn(node, {h}) \cap SentBy(node, account) :
              FirstToMake(node, p, SeenIn(node, {h})) => MadeAt(node, p) \ {account} \subseteq got.deployed
<1> DEFINE old == OldDeploys(node, account, From(node, window))
           index == BuildTokenIndex(node, Window(node, window))
<1>1. /\ index # Absent
      /\ \A h \in Range(old) : OldIndex(node, h) # Absent
      /\ \A a : a \in got.deployed <=>
           \E e : KnownOf(node, account, window, e) /\ e.deployer = account /\ e.address = a /\ a # account
  BY DEF Profiles
<1>2. \A e : KnownOf(node, account, window, e) <=>
        e \in Range(index) \/ \E h \in Range(old) : e \in Range(OldIndex(node, h))
  BY DEF KnownOf
<1>n. account # Nobody
  BY DEF Somebody
<1> HIDE DEF old, index
<1>3. ASSUME NEW heights, NEW known, known = BuildTokenIndex(node, heights), known # Absent
      PROVE  /\ \A p \in SeenIn(node, heights) : \A a \in MadeAt(node, p) : FirstToMake(node, p, SeenIn(node, heights)) =>
                  \E e \in Range(known) : e.address = a /\ e.deployer = Tx(node.chain, p).sender
             /\ \A e \in Range(known) : e.deployer # Nobody =>
                  \E p \in SeenIn(node, heights) : e.address \in MadeAt(node, p) /\ Tx(node.chain, p).sender = e.deployer
  <2> DEFINE R == Registered(node, heights)
  <2>1. R = Registered(node, heights)
    OBVIOUS
  <2> HIDE DEF R
  <2>2. TellsOf(node, heights, R, known)
    BY <1>3, <2>1, IndexTells
  <2> QED BY <2>2 DEF TellsOf
<1>4. ASSUME NEW heights, NEW known, known = BuildTokenIndex(node, heights), known # Absent,
             NEW e \in Range(known), e.deployer = account
      PROVE  \E p \in SentBy(node, account) : e.address \in MadeAt(node, p)
  <2>1. PICK p \in SeenIn(node, heights) : e.address \in MadeAt(node, p) /\ Tx(node.chain, p).sender = e.deployer
    BY <1>3, <1>4, <1>n
  <2> QED BY <1>4, <2>1 DEF SeenIn, SentBy
<1>5. ASSUME NEW a \in got.deployed PROVE \E p \in SentBy(node, account) : a \in MadeAt(node, p)
  <2>1. PICK e : KnownOf(node, account, window, e) /\ e.deployer = account /\ e.address = a
    BY <1>1
  <2>2. CASE e \in Range(index)
    BY <1>1, <1>4, <2>1, <2>2 DEF index
  <2>3. ASSUME NEW h \in Range(old), e \in Range(OldIndex(node, h))
        PROVE  \E p \in SentBy(node, account) : a \in MadeAt(node, p)
    <3> DEFINE known == OldIndex(node, h)
    <3>1. known = BuildTokenIndex(node, {h}) /\ known # Absent /\ e \in Range(known)
      BY <1>1, <2>3 DEF OldIndex
    <3> HIDE DEF known
    <3> QED BY <1>4, <2>1, <3>1
  <2> QED BY <1>2, <2>1, <2>2, <2>3
<1>6. ASSUME NEW p \in S \cap SentBy(node, account), FirstToMake(node, p, S), NEW a \in MadeAt(node, p), a # account
      PROVE  a \in got.deployed
  <2>1. \E e \in Range(index) : e.address = a /\ e.deployer = Tx(node.chain, p).sender
    BY <1>1, <1>3, <1>6 DEF index
  <2> QED BY <1>1, <1>2, <1>6, <2>1 DEF SentBy
<1>7. ASSUME NEW h \in Range(old), NEW p \in SeenIn(node, {h}) \cap SentBy(node, account),
             FirstToMake(node, p, SeenIn(node, {h})), NEW a \in MadeAt(node, p), a # account
      PROVE  a \in got.deployed
  <2> DEFINE known == OldIndex(node, h)
  <2>1. known = BuildTokenIndex(node, {h}) /\ known # Absent
    BY <1>1 DEF OldIndex
  <2> HIDE DEF known
  <2>2. PICK e \in Range(known) : e.address = a /\ e.deployer = Tx(node.chain, p).sender
    BY <1>3, <1>7, <2>1
  <2>3. KnownOf(node, account, window, e)
    BY <1>2, <2>2 DEF known
  <2> QED BY <1>1, <1>7, <2>2, <2>3 DEF SentBy
<1> QED BY <1>5, <1>6, <1>7 DEF old

\* What is at one height is all there is at it.
LEMMA SeenAt ==
  ASSUME NEW node \in Nodes, NEW h, h \notin node.missing
  PROVE  SeenIn(node, {h}) = {q \in Everywhere(node.chain) : q.height = h}
BY DEF SeenIn

\* The parts of what is said of an index.
PlainBy(node, a) == {p \in SentBy(node, a) : Tx(node.chain, p).kind = "ContractDeploy"}
AddressesRight(node, E, S, R) ==
  {e.address : e \in E} = (UNION {Made(Tx(node.chain, p)) : p \in S}) \cup {r.token : r \in R}
OrderRight(index) ==
  \A i, j \in DOMAIN index : i < j =>
    /\ index[i].address # index[j].address
    /\ index[i].firstSeen >= index[j].firstSeen
EntriesRight(node, E, S, R) ==
  \A e \in E :
    /\ e.deployTx # Absent => e.deployTx \in S /\ e.address \in Made(Tx(node.chain, e.deployTx))
    /\ "deploy" \in e.sources =>
         \E p \in S : /\ e.address \in Made(Tx(node.chain, p))
                      /\ \A q \in S : Earlier(q, p) => Made(Tx(node.chain, q)) \cap Made(Tx(node.chain, p)) = {}
                      /\ Tx(node.chain, p).sender = e.deployer
    /\ \A p \in S : e.address \in Made(Tx(node.chain, p)) => e.firstSeen <= p.height
    /\ \A r \in R : r.token = e.address => e.firstSeen <= r.height
DeployedRight(node, account, deployed, S, by) ==
  /\ \A p \in S \cap by :
       (\A q \in S : Earlier(q, p) => Made(Tx(node.chain, q)) \cap Made(Tx(node.chain, p)) = {}) =>
         Made(Tx(node.chain, p)) \ {account} \subseteq deployed
  /\ \A a \in deployed : \E p \in by : a \in Made(Tx(node.chain, p))
OlderRight(node, account, deployed, from, plain) ==
  \A p \in plain :
    (/\ p.height < from /\ p.height \notin node.missing
     /\ \A q \in {q \in Everywhere(node.chain) : q.height = p.height} :
          Earlier(q, p) => Made(Tx(node.chain, q)) \cap Made(Tx(node.chain, p)) = {}
     /\ ListedWhole(node, account) /\ Cardinality({q.height : q \in plain}) <= HeightCap)
    => Made(Tx(node.chain, p)) \ {account} \subseteq deployed
IndexRight(node, got, account, window) ==
  /\ AddressesRight(node, Range(got.index), InWindow(node, window), Registered(node, Window(node, window)))
  /\ OrderRight(got.index)
  /\ EntriesRight(node, Range(got.index), InWindow(node, window), Registered(node, Window(node, window)))
  /\ DeployedRight(node, account, got.deployed, InWindow(node, window), SentBy(node, account))
  /\ OlderRight(node, account, got.deployed, From(node, window), PlainBy(node, account))

\* All of it together.
LEMMA IndexHolds ==
  ASSUME NEW node \in Nodes, NEW storage, NEW account \in Somebody, NEW window \in Nat \ {0}, NEW got,
         got = Profile(node, account, window, storage), got # Absent,
         lookup = [of |-> "assets", node |-> node, storage |-> storage, account |-> account,
                   window |-> window, got |-> got]
  PROVE  IndexOfTheWindow
<1> DEFINE from == From(node, window)
           S == InWindow(node, window)
           R == Registered(node, Window(node, window))
           by == SentBy(node, account)
           plain == PlainBy(node, account)
           index == got.index
           E == Range(index)
<1>1. Profiles(node, account, window, storage, got)
  BY ProfileIs
<1>2. index = BuildTokenIndex(node, Window(node, window)) /\ index # Absent
  BY <1>1 DEF Profiles
<1>3. S = SeenIn(node, Window(node, window))
  BY DEF InWindow, SeenIn, Window
<1>4. R = Registered(node, Window(node, window))
  OBVIOUS
<1>5. lookup.node = node /\ lookup.got = got /\ lookup.account = account /\ lookup.window = window
  OBVIOUS
<1> HIDE DEF S, R, index, E
<1>6. /\ \A a : (\E e \in E : e.address = a) <=> (\E p \in S : a \in MadeAt(node, p)) \/ \E r \in R : r.token = a
      /\ \A i, j \in DOMAIN index : i < j =>
           index[i].address # index[j].address /\ index[i].firstSeen >= index[j].firstSeen
      /\ \A e \in E : Told(node, Window(node, window), R, e)
  <2>1. TellsOf(node, Window(node, window), R, index)
    BY <1>2, <1>4, IndexTells
  <2> QED BY <1>3, <2>1 DEF TellsOf, E
<1> DEFINE A == {e.address : e \in E}
           B == UNION {Made(Tx(node.chain, p)) : p \in S}
           C == {r.token : r \in R}
<1>7. A = B \cup C
  <2>1. \A a : a \in {e.address : e \in E} <=> \E e \in E : e.address = a
    OBVIOUS
  <2>2. \A a : a \in B <=> \E p \in S : a \in MadeAt(node, p)
    BY DEF MadeAt
  <2>3. \A a : a \in {r.token : r \in R} <=> \E r \in R : r.token = a
    OBVIOUS
  <2>4. \A a : a \in A <=> a \in B \/ a \in C
    BY <1>6, <2>1, <2>2, <2>3
  <2> HIDE DEF A, B, C
  <2> QED BY <2>4
<1>8. \A e \in E :
        /\ e.deployTx # Absent => e.deployTx \in S /\ e.address \in MadeAt(node, e.deployTx)
        /\ "deploy" \in e.sources =>
             \E p \in S : e.address \in MadeAt(node, p) /\ FirstToMake(node, p, S) /\ Tx(node.chain, p).sender = e.deployer
        /\ \A p \in S : e.address \in MadeAt(node, p) => e.firstSeen <= p.height
        /\ \A r \in R : r.token = e.address => e.firstSeen <= r.height
  BY <1>3, <1>6 DEF Told
<1>9. /\ \A p \in S \cap by : FirstToMake(node, p, S) => MadeAt(node, p) \ {account} \subseteq got.deployed
      /\ \A a \in got.deployed : \E p \in by : a \in MadeAt(node, p)
      /\ \A h \in Range(OldDeploys(node, account, from)) :
         \A p \in SeenIn(node, {h}) \cap by :
           FirstToMake(node, p, SeenIn(node, {h})) => MadeAt(node, p) \ {account} \subseteq got.deployed
  <2> HIDE DEF by, from
  <2> QED BY <1>1, <1>3, ListedDeploys DEF by, from
<1>10. {q.height : q \in plain} = PlainHeights(node, account)
  <2>1. \A q : q \in plain <=> q \in Plain(node, DeploysOf(node.chain, account))
    BY DEF PlainBy, SentBy, Plain, DeploysOf, Deploys, DeployKinds
  <2>2. plain = Plain(node, DeploysOf(node.chain, account))
    BY <2>1
  <2> HIDE DEF plain
  <2> QED BY <2>2 DEF PlainHeights
<1>11. ASSUME NEW p \in plain, p.height < from, p.height \notin node.missing,
              FirstToMake(node, p, {q \in Everywhere(node.chain) : q.height = p.height}),
              ListedWhole(node, account), Cardinality({q.height : q \in plain}) <= HeightCap
       PROVE  MadeAt(node, p) \ {account} \subseteq got.deployed
  <2> DEFINE h == p.height
  <2>1. h \in PlainHeights(node, account) /\ Cardinality(PlainHeights(node, account)) <= HeightCap
    <3>1. h \in {q.height : q \in plain}
      OBVIOUS
    <3> QED BY <1>10, <1>11, <3>1
  <2>2. p \in Everywhere(node.chain) /\ p \in by
    BY DEF PlainBy, SentBy
  <2>3. p \in SeenIn(node, {h})
    BY <1>11, <2>2 DEF SeenIn
  <2>4. FirstToMake(node, p, SeenIn(node, {h}))
    BY <1>11, SeenAt
  <2>f. from \in Nat /\ h < from
    BY <1>11, NodeIs
  <2> HIDE DEF h, plain, by, from
  <2>5. h \in Range(OldDeploys(node, account, from))
    BY <1>11, <2>1, <2>f, OldDeploysAre
  <2> QED BY <1>9, <2>2, <2>3, <2>4, <2>5
<1> HIDE DEF by, plain, from, S, R, E, index
<1>12. AddressesRight(node, E, S, R)
  BY <1>7 DEF AddressesRight
<1>13. OrderRight(index)
  BY <1>6 DEF OrderRight
<1>14. EntriesRight(node, E, S, R)
  BY <1>8 DEF EntriesRight, MadeAt, FirstToMake
<1>15. DeployedRight(node, account, got.deployed, S, by)
  BY <1>9 DEF DeployedRight, MadeAt, FirstToMake
<1>16. OlderRight(node, account, got.deployed, from, plain)
  BY <1>11 DEF OlderRight, MadeAt, FirstToMake
<1>17. IndexRight(node, got, account, window)
  BY <1>12, <1>13, <1>14, <1>15, <1>16 DEF IndexRight, S, R, E, index, by, plain, from
<1>18. IndexRight(lookup.node, lookup.got, lookup.account, lookup.window)
  BY <1>5, <1>17
<1> QED
  BY <1>18 DEF IndexOfTheWindow, IndexRight, AddressesRight, OrderRight, EntriesRight, DeployedRight, OlderRight,
               Registered, SentBy, PlainBy, Window

-----------------------------------------------------------------------------
\* What a registry links: an asset in a slot of which it is the collection, and the other way.
Linked(r, i, a, b) ==
  i <= SlotCap /\ i \notin r.bad /\ r.slots[i].collection = a /\ r.slots[i].token = b
FungibleOf(i, b) == [index |-> i, role |-> "fungible", peer |-> b]
CollectionOf(i, a) == [index |-> i, role |-> "collection", peer |-> a]

\* What is read of the slots.
LEMMA LiveAre ==
  ASSUME NEW r, r.slots \in Seq([collection: Int, token: Int]), NEW i \in 1..Len(r.slots)
  PROVE  i \in Live(r) <=>
           i <= SlotCap /\ i \notin r.bad /\ r.slots[i].collection # Nobody /\ r.slots[i].token # Nobody
<1> DEFINE n == Len(r.slots)
<1>1. n \in Nat /\ SlotCap \in Nat
  BY IndexAssumption, LenProperties
<1> HIDE DEF n
<1>2. Min({SlotCap, n}) = IF SlotCap <= n THEN SlotCap ELSE n
  BY <1>1, MinOfTwo
<1>3. i \in 1..n
  BY DEF n
<1>4. i \in 1..Min({SlotCap, n}) <=> i <= SlotCap
  BY <1>1, <1>2, <1>3
<1> QED BY <1>4 DEF Live, n

\* The peers of an asset.
LEMMA PeersAre ==
  ASSUME NEW r, r.slots \in Seq([collection: Int, token: Int]), NEW a \in Somebody, NEW b \in Somebody,
         NEW i \in 1..Len(r.slots)
  PROVE  /\ FungibleOf(i, b) \in Peers(r, a) <=> Linked(r, i, a, b)
         /\ a # b => (CollectionOf(i, a) \in Peers(r, b) <=> Linked(r, i, a, b))
<1> DEFINE live == Live(r)
<1>1. i \in live <=>
        i <= SlotCap /\ i \notin r.bad /\ r.slots[i].collection # Nobody /\ r.slots[i].token # Nobody
  BY LiveAre
<1>2. a # Nobody /\ b # Nobody
  BY DEF Somebody
<1> HIDE DEF live
<1>3. Linked(r, i, a, b) <=> i \in live /\ r.slots[i].collection = a /\ r.slots[i].token = b
  BY <1>1, <1>2 DEF Linked
<1>4. \A c : \A x : x \in Peers(r, c) <=>
        \/ \E j \in live : r.slots[j].collection = c /\ x = FungibleOf(j, r.slots[j].token)
        \/ \E j \in live : r.slots[j].collection # c /\ r.slots[j].token = c /\ x = CollectionOf(j, r.slots[j].collection)
  BY DEF Peers, PeersOfTokens, live, FungibleOf, CollectionOf
<1>5. \A j, k : \A x, y :
        /\ FungibleOf(j, x) = FungibleOf(k, y) => j = k /\ x = y
        /\ CollectionOf(j, x) = CollectionOf(k, y) => j = k /\ x = y
        /\ FungibleOf(j, x) # CollectionOf(k, y)
  <2>1. \A j, x : /\ FungibleOf(j, x).index = j /\ FungibleOf(j, x).peer = x /\ FungibleOf(j, x).role = "fungible"
                  /\ CollectionOf(j, x).index = j /\ CollectionOf(j, x).peer = x /\ CollectionOf(j, x).role = "collection"
    BY DEF FungibleOf, CollectionOf
  <2> QED BY <2>1
<1>6. FungibleOf(i, b) \in Peers(r, a) <=> i \in live /\ r.slots[i].collection = a /\ r.slots[i].token = b
  <2> DEFINE x == FungibleOf(i, b)
  <2>1. x \in Peers(r, a) <=>
          \/ \E j \in live : r.slots[j].collection = a /\ x = FungibleOf(j, r.slots[j].token)
          \/ \E j \in live : r.slots[j].collection # a /\ r.slots[j].token = a /\ x = CollectionOf(j, r.slots[j].collection)
    BY <1>4
  <2>2. \A j : x = FungibleOf(j, r.slots[j].token) <=> j = i /\ r.slots[i].token = b
    BY <1>5
  <2>3. \A j : x # CollectionOf(j, r.slots[j].collection)
    BY <1>5
  <2> HIDE DEF x
  <2> QED BY <2>1, <2>2, <2>3 DEF x
<1>7. CollectionOf(i, a) \in Peers(r, b) <=>
        i \in live /\ r.slots[i].collection # b /\ r.slots[i].token = b /\ r.slots[i].collection = a
  <2> DEFINE x == CollectionOf(i, a)
  <2>1. x \in Peers(r, b) <=>
          \/ \E j \in live : r.slots[j].collection = b /\ x = FungibleOf(j, r.slots[j].token)
          \/ \E j \in live : r.slots[j].collection # b /\ r.slots[j].token = b /\ x = CollectionOf(j, r.slots[j].collection)
    BY <1>4
  <2>2. \A j : x = CollectionOf(j, r.slots[j].collection) <=> j = i /\ r.slots[i].collection = a
    BY <1>5
  <2>3. \A j : x # FungibleOf(j, r.slots[j].token)
    BY <1>5
  <2> HIDE DEF x
  <2> QED BY <2>1, <2>2, <2>3 DEF x
<1> QED BY <1>3, <1>6, <1>7

\* What the registry has of one asset it has of the other.
LinksRight(slots, bad, peers) ==
  \A a, b \in DOMAIN peers, i \in DOMAIN slots :
    /\ a # b => ([index |-> i, role |-> "fungible", peer |-> b] \in peers[a]
                  <=> [index |-> i, role |-> "collection", peer |-> a] \in peers[b])
    /\ [index |-> i, role |-> "fungible", peer |-> b] \in peers[a]
         <=> (i <= SlotCap /\ i \notin bad /\ slots[i] = [collection |-> a, token |-> b])

\* The peers shown of an asset are those of the slots that could be read, the same from both ends.
LEMMA LinksHold ==
  ASSUME NEW r \in Registries,
         lookup = [of |-> "links", slots |-> r.slots, bad |-> r.bad, peers |-> [a \in r.assets |-> Peers(r, a)]]
  PROVE  CollectionsShowTheirs
<1> DEFINE peers == [a \in r.assets |-> Peers(r, a)]
           slots == r.slots
           bad == r.bad
<1>1. slots \in Seq([collection: Int, token: Int]) /\ r.assets \subseteq Somebody
  BY LookAssumption
<1>2. DOMAIN peers = r.assets /\ \A a \in r.assets : peers[a] = Peers(r, a)
  OBVIOUS
<1> HIDE DEF peers
<1>3. DOMAIN slots = 1..Len(slots) /\ \A i \in 1..Len(slots) : slots[i] \in [collection: Int, token: Int]
  BY <1>1, LenProperties, ElementOfSeq
<1>4. ASSUME NEW a \in DOMAIN peers, NEW b \in DOMAIN peers, NEW i \in DOMAIN slots
      PROVE  /\ a # b => (FungibleOf(i, b) \in peers[a] <=> CollectionOf(i, a) \in peers[b])
             /\ FungibleOf(i, b) \in peers[a]
                  <=> (i <= SlotCap /\ i \notin bad /\ slots[i] = [collection |-> a, token |-> b])
  <2>1. a \in Somebody /\ b \in Somebody /\ i \in 1..Len(slots)
    BY <1>1, <1>2, <1>3
  <2>2. /\ FungibleOf(i, b) \in Peers(r, a) <=> Linked(r, i, a, b)
        /\ a # b => (CollectionOf(i, a) \in Peers(r, b) <=> Linked(r, i, a, b))
    BY <1>1, <2>1, PeersAre
  <2>3. slots[i] = [collection |-> a, token |-> b] <=> slots[i].collection = a /\ slots[i].token = b
    <3> DEFINE s == slots[i]
    <3>1. s \in [collection: Int, token: Int]
      BY <1>3, <2>1
    <3> HIDE DEF s
    <3>2. s = [collection |-> a, token |-> b] <=> s.collection = a /\ s.token = b
      BY <3>1
    <3> QED BY <3>2 DEF s
  <2>4. Linked(r, i, a, b) <=> i <= SlotCap /\ i \notin bad /\ slots[i] = [collection |-> a, token |-> b]
    BY <2>3 DEF Linked
  <2>5. peers[a] = Peers(r, a) /\ peers[b] = Peers(r, b)
    BY <1>2
  <2> QED BY <2>2, <2>4, <2>5
<1>5. LinksRight(slots, bad, peers)
  BY <1>4 DEF LinksRight, FungibleOf, CollectionOf
<1>6. lookup.of = "links" /\ lookup.slots = slots /\ lookup.bad = bad /\ lookup.peers = peers
  BY DEF peers
<1> HIDE DEF slots, bad
<1>7. LinksRight(lookup.slots, lookup.bad, lookup.peers)
  BY <1>5, <1>6
<1> QED BY <1>6, <1>7 DEF CollectionsShowTheirs, LinksRight

-----------------------------------------------------------------------------
\* The items that a call is about.
LEMMA IdsAreItems ==
  ASSUME NEW words \in Seq(Int)
  PROVE  IdsOfCall(words) \in Seq(Int) /\ \A id : id \in Range(IdsOfCall(words)) <=> id \in ItemsOf(words)
<1> DEFINE n == words[3]
           len == Len(words)
           minted == SubSeq(words, 4, 3 + n)
           ids == IdsOfCall(words)
           fits == len >= 3 /\ n \in 1..BatchCap /\ len >= 3 + 2 * n /\ \A i \in (4 + 2 * n)..len : words[i] = 0
<1>1. len \in Nat /\ DOMAIN words = 1..len /\ \A i \in 1..len : words[i] \in Int
  BY LenProperties, ElementOfSeq
<1>2. words = <<>> <=> len = 0
  BY EmptySeq
<1>3. MintBatch = 6 /\ TransferNft = 4 /\ SetMetadataHash = 5 /\ OwnerOf = 3
  BY DEF MintBatch, TransferNft, SetMetadataHash, OwnerOf
<1>4. \A id : id \in Range(words) <=> \E i \in 1..len : words[i] = id
  BY RangeOf
<1>5. \A id : id \in ItemsOf(words) <=>
        /\ id \in Range(words)
        /\ len >= 3
        /\ \/ words[1] = TransferNft /\ id = words[3]
           \/ words[1] \in {SetMetadataHash, OwnerOf} /\ id = words[2]
           \/ /\ words[1] = MintBatch /\ words[3] \in 1..BatchCap /\ len >= 3 + 2 * words[3]
              /\ \E i \in 4..(3 + words[3]) : id = words[i]
              /\ \A i \in DOMAIN words : i > 3 + 2 * words[3] => words[i] = 0
  BY DEF ItemsOf
<1>6. ids = CASE words # <<>> /\ words[1] = MintBatch -> IF fits THEN minted ELSE <<>>
              [] len >= 3 /\ words[1] = TransferNft -> <<words[3]>>
              [] len >= 3 /\ words[1] \in {SetMetadataHash, OwnerOf} -> <<words[2]>>
              [] OTHER -> <<>>
  BY DEF IdsOfCall
<1> HIDE DEF len, ids, fits, minted
<1>e. <<>> \in Seq(Int) /\ \A id : id \notin Range(<<>>)
  <2>1. \A id : id \in Range(<<>>) <=> \E i \in 1..Len(<<>>) : <<>>[i] = id
    <3>1. <<>> \in Seq(Int)
      OBVIOUS
    <3> QED BY <3>1, RangeOf
  <2>2. Len(<<>>) = 0
    OBVIOUS
  <2> QED BY <2>1, <2>2
<1>o. \A x \in Int : <<x>> \in Seq(Int) /\ \A id : id \in Range(<<x>>) <=> id = x
  <2> TAKE x \in Int
  <2>1. <<x>> \in Seq(Int) /\ Len(<<x>>) = 1 /\ <<x>>[1] = x
    OBVIOUS
  <2>2. \A id : id \in Range(<<x>>) <=> \E i \in 1..Len(<<x>>) : <<x>>[i] = id
    BY <2>1, RangeOf
  <2> QED BY <2>1, <2>2
<1>7. CASE len < 3
  <2>1. ids = <<>>
    BY <1>1, <1>6, <1>7 DEF fits
  <2>2. \A id : id \notin ItemsOf(words)
    BY <1>1, <1>5, <1>7
  <2> QED BY <1>e, <2>1, <2>2 DEF ids
<1>8. ASSUME len >= 3 PROVE /\ words # <<>> /\ 1 \in 1..len /\ 2 \in 1..len /\ 3 \in 1..len
                            /\ words[1] \in Int /\ words[2] \in Int /\ words[3] \in Int
                            /\ words[2] \in Range(words) /\ words[3] \in Range(words)
  <2>1. words # <<>> /\ 1 \in 1..len /\ 2 \in 1..len /\ 3 \in 1..len
    BY <1>1, <1>2, <1>8
  <2> QED BY <1>1, <1>4, <2>1
<1>9. CASE len >= 3 /\ words[1] = TransferNft
  <2>1. ids = <<words[3]>>
    BY <1>3, <1>6, <1>9
  <2>2. \A id : id \in ItemsOf(words) <=> id = words[3]
    BY <1>3, <1>5, <1>8, <1>9
  <2> QED BY <1>8, <1>9, <1>o, <2>1, <2>2 DEF ids
<1>10. CASE len >= 3 /\ words[1] \in {SetMetadataHash, OwnerOf}
  <2>1. ids = <<words[2]>>
    BY <1>3, <1>6, <1>10
  <2>2. \A id : id \in ItemsOf(words) <=> id = words[2]
    BY <1>3, <1>5, <1>8, <1>10
  <2> QED BY <1>8, <1>10, <1>o, <2>1, <2>2 DEF ids
<1>11. CASE len >= 3 /\ words[1] \notin {TransferNft, SetMetadataHash, OwnerOf, MintBatch}
  <2>1. ids = <<>>
    BY <1>6, <1>11
  <2>2. \A id : id \notin ItemsOf(words)
    BY <1>5, <1>11
  <2> QED BY <1>e, <2>1, <2>2 DEF ids
<1>12. ASSUME len >= 3, words[1] = MintBatch
       PROVE  IdsOfCall(words) \in Seq(Int) /\ \A id : id \in Range(IdsOfCall(words)) <=> id \in ItemsOf(words)
  <2>b. BatchCap \in Nat
    BY IndexAssumption
  <2>n. n \in Int
    BY <1>8, <1>12
  <2>1. ids = IF fits THEN minted ELSE <<>>
    BY <1>3, <1>6, <1>8, <1>12
  <2>2. n \in 1..BatchCap =>
          ((\A i \in (4 + 2 * n)..len : words[i] = 0) <=> \A i \in DOMAIN words : i > 3 + 2 * n => words[i] = 0)
    <3> SUFFICES ASSUME n \in 1..BatchCap
                 PROVE  (\A i \in (4 + 2 * n)..len : words[i] = 0) <=> \A i \in DOMAIN words : i > 3 + 2 * n => words[i] = 0
      OBVIOUS
    <3> HIDE DEF n
    <3>1. \A i : i \in (4 + 2 * n)..len <=> i \in DOMAIN words /\ i > 3 + 2 * n
      BY <1>1, <2>b, <2>n
    <3> QED BY <3>1
  <2>3. \A id : id \in ItemsOf(words) <=>
          fits /\ id \in Range(words) /\ \E i \in 4..(3 + n) : id = words[i]
    BY <1>3, <1>5, <1>12, <2>2 DEF fits, n
  <2>4. CASE ~fits
    BY <1>e, <2>1, <2>3, <2>4 DEF ids
  <2>5. CASE fits
    <3>1. n \in 1..BatchCap /\ len >= 3 + 2 * n
      BY <2>5 DEF fits
    <3>2. \A i \in 4..(3 + n) : i \in 1..len /\ words[i] \in Int /\ words[i] \in Range(words)
      <4>1. \A i \in 4..(3 + n) : i \in 1..len
        BY <1>1, <2>b, <2>n, <3>1
      <4> QED BY <1>1, <1>4, <4>1
    <3>3. /\ minted \in Seq(Int) /\ Len(minted) = n
          /\ \A i \in 1..n : minted[i] = words[i + 3]
      <4> DEFINE m == 4
                 k == 3 + n
      <4> HIDE DEF n
      <4>1. m \in Int /\ k \in Int /\ (\A i \in m..k : words[i] \in Int) /\ minted = SubSeq(words, m, k)
            /\ m <= k /\ k - m + 1 = n /\ \A i \in 1..n : m + i - 1 = i + 3
        BY <2>b, <2>n, <3>1, <3>2 DEF minted
      <4> HIDE DEF m, k
      <4>2. /\ SubSeq(words, m, k) \in Seq(Int) /\ Len(SubSeq(words, m, k)) = (IF m <= k THEN k - m + 1 ELSE 0)
            /\ \A i \in 1..(k - m + 1) : SubSeq(words, m, k)[i] = words[m + i - 1]
        BY <4>1, SubSeqProperties
      <4> QED BY <4>1, <4>2
    <3>4. \A id : id \in Range(minted) <=> \E i \in 1..n : words[i + 3] = id
      <4>1. \A id : id \in Range(minted) <=> \E i \in 1..Len(minted) : minted[i] = id
        BY <3>3, RangeOf
      <4> QED BY <3>3, <4>1
    <3>5. \A id : (\E i \in 1..n : words[i + 3] = id) <=> \E i \in 4..(3 + n) : id = words[i]
      <4>1. ASSUME NEW i \in 1..n PROVE i + 3 \in 4..(3 + n)
        BY <2>b, <2>n, <3>1
      <4>2. ASSUME NEW i \in 4..(3 + n) PROVE i - 3 \in 1..n /\ (i - 3) + 3 = i
        BY <2>b, <2>n, <3>1
      <4>3. ASSUME NEW i \in 4..(3 + n) PROVE \E j \in 1..n : words[j + 3] = words[i]
        <5> DEFINE j == i - 3
        <5>1. j \in 1..n /\ j + 3 = i
          BY <4>2
        <5> HIDE DEF j
        <5> QED BY <5>1
      <4> QED BY <4>1, <4>3
    <3>6. \A id : id \in Range(minted) <=> id \in ItemsOf(words)
      BY <2>3, <2>5, <3>2, <3>4, <3>5
    <3> QED BY <2>1, <2>5, <3>3, <3>6 DEF ids
  <2> QED BY <2>4, <2>5
<1> QED BY <1>1, <1>7, <1>9, <1>10, <1>11, <1>12

\* The items that the calls of a collection are about.
CallsOn(node, heights, a) ==
  {p \in SeenIn(node, heights) :
     /\ Tx(node.chain, p).kind = "ContractCall" /\ Tx(node.chain, p).receipt # "failed"
     /\ Tx(node.chain, p).parts[1].to = a}
NamedOn(node, heights, a) == UNION {ItemsOf(Tx(node.chain, p).parts[1].words) : p \in CallsOn(node, heights, a)}

\* The item ids taken from a transaction are those in the words of a call of the contract that did
\* not fail.
LEMMA IdsOfTxAre ==
  ASSUME NEW tx \in Transactions, NEW a
  PROVE  /\ IdsOfTx(tx, a) \in Seq(Int)
         /\ \A id : id \in Range(IdsOfTx(tx, a)) <=>
              /\ tx.kind = "ContractCall" /\ tx.receipt # "failed" /\ tx.parts[1].to = a
              /\ id \in ItemsOf(tx.parts[1].words)
<1> DEFINE meant == NotFailed(tx) /\ tx.kind = "ContractCall" /\ tx.parts[1].to = a
           words == tx.parts[1].words
<1>1. IdsOfTx(tx, a) = IF meant THEN IdsOfCall(words) ELSE <<>>
  BY DEF IdsOfTx
<1>2. meant <=> tx.kind = "ContractCall" /\ tx.receipt # "failed" /\ tx.parts[1].to = a
  BY DEF NotFailed
<1>3. ASSUME tx.kind = "ContractCall" PROVE words \in Seq(Int)
  <2>1. tx.parts \in Seq(Parts) /\ tx.parts # <<>>
    BY <1>3 DEF Transactions, Calls
  <2> DEFINE parts == tx.parts
  <2>2. parts \in Seq(Parts) /\ parts # <<>>
    BY <2>1
  <2> HIDE DEF parts
  <2>3. 1 \in 1..Len(parts)
    BY <2>2, EmptySeq, LenProperties
  <2>4. parts[1] \in Parts
    BY <2>2, <2>3, ElementOfSeq
  <2> QED BY <2>4 DEF Parts, parts
<1> HIDE DEF meant, words
<1>4. CASE meant
  <2>1. words \in Seq(Int)
    BY <1>2, <1>3, <1>4
  <2>2. IdsOfCall(words) \in Seq(Int) /\ \A id : id \in Range(IdsOfCall(words)) <=> id \in ItemsOf(words)
    BY <2>1, IdsAreItems
  <2> QED BY <1>1, <1>2, <1>4, <2>2 DEF words
<1>5. CASE ~meant
  <2> DEFINE none == <<>>
  <2>1. none \in Seq(Int) /\ Len(none) = 0
    OBVIOUS
  <2> HIDE DEF none
  <2>a. \A id : id \in Range(none) <=> \E i \in 1..Len(none) : none[i] = id
    BY <2>1, RangeOf
  <2>2. \A id : id \notin Range(none)
    BY <2>1, <2>a
  <2> QED BY <1>1, <1>2, <1>5, <2>1, <2>2 DEF none
<1> QED BY <1>4, <1>5

\* Of them as many as are looked for are found, in no block that fails.
LEMMA DiscoveredAre ==
  ASSUME NEW node \in Nodes, NEW a, NEW heights, heights \cap node.badBlocks = {}
  PROVE  /\ DiscoverTokenIds(node, a, heights) \in Seq(Int)
         /\ Range(DiscoverTokenIds(node, a, heights)) \subseteq NamedOn(node, heights, a)
         /\ Cardinality(NamedOn(node, heights, a)) <= IdCap =>
              NamedOn(node, heights, a) \subseteq Range(DiscoverTokenIds(node, a, heights))
<1> DEFINE chain == node.chain
           all == Places(chain)
           W == {p \in Range(all) : p.height \in heights \ node.missing}
           places == Among(all, W)
           n == Len(places)
           seqs == [i \in DOMAIN places |-> IdsOfTx(Tx(chain, places[i]), a)]
           flat == FlattenSeq(seqs)
           ids == Distinct(flat)
           named == NamedOn(node, heights, a)
           found == DiscoverTokenIds(node, a, heights)
<1>1. found = UpToCap(ids, IdCap)
  BY DEF DiscoverTokenIds, UpToCap
<1>2. chain \in Seq(Seq(Transactions))
  BY NodeIs
<1>3. all \in Seq(Place) /\ Range(all) = Everywhere(chain)
  BY <1>2, PlacesAre
<1>4. \A p : p \in W <=> p \in SeenIn(node, heights)
  BY <1>3 DEF SeenIn
<1> HIDE DEF all, W
<1>5. places \in Seq(Place) /\ \A p : p \in Range(places) <=> p \in Range(all) /\ p \in W
  BY <1>3, AmongIs
<1>6. \A p : p \in Range(places) <=> p \in SeenIn(node, heights)
  BY <1>3, <1>4, <1>5 DEF SeenIn
<1> HIDE DEF places
<1>7. n \in Nat /\ DOMAIN places = 1..n /\ \A p : p \in Range(places) <=> \E i \in 1..n : places[i] = p
  <2>1. n \in Nat /\ DOMAIN places = 1..n
    BY <1>5, LenProperties
  <2> QED BY <1>5, <2>1, RangeOf
<1>8. \A p \in SeenIn(node, heights) : Tx(chain, p) \in Transactions
  BY <1>2, EverywhereIs DEF SeenIn
<1>9. \A i \in 1..n : places[i] \in SeenIn(node, heights) /\ IdsOfTx(Tx(chain, places[i]), a) \in Seq(Int)
  BY <1>6, <1>7, <1>8, IdsOfTxAre
<1> HIDE DEF n
<1>10. seqs \in Seq(Seq(Int)) /\ Len(seqs) = n /\ \A i \in 1..n : seqs[i] = IdsOfTx(Tx(chain, places[i]), a)
  <2>1. seqs = [i \in 1..n |-> IdsOfTx(Tx(chain, places[i]), a)]
    BY <1>7
  <2> HIDE DEF seqs
  <2>2. seqs \in [1..n -> Seq(Int)]
    BY <1>9, <2>1
  <2>3. seqs \in Seq(Seq(Int)) /\ Len(seqs) = n
    BY <1>7, <2>2, LenIs
  <2> QED BY <2>1, <2>3
<1> HIDE DEF seqs
<1>11. flat \in Seq(Int) /\ InTurn(flat, seqs, n)
  BY <1>10, FlattenInTurn
<1> HIDE DEF flat
<1>12. \A id : id \in Range(flat) <=> \E i \in 1..n : id \in Range(seqs[i])
  <2>1. \A id : id \in Range(flat) <=> \E j \in 1..Len(flat) : flat[j] = id
    BY <1>11, RangeOf
  <2>2. \A i \in 1..n : \A id : id \in Range(seqs[i]) <=> \E k \in 1..Len(seqs[i]) : seqs[i][k] = id
    <3> TAKE i \in 1..n
    <3> DEFINE s == seqs[i]
    <3>1. s \in Seq(Int)
      BY <1>9, <1>10
    <3> HIDE DEF s
    <3>2. \A id : id \in Range(s) <=> \E k \in 1..Len(s) : s[k] = id
      BY <3>1, RangeOf
    <3> QED BY <3>2 DEF s
  <2>3. /\ \A j \in 1..Len(flat) : \E i \in 1..n : \E k \in 1..Len(seqs[i]) : flat[j] = seqs[i][k]
        /\ \A i \in 1..n : \A k \in 1..Len(seqs[i]) : \E j \in 1..Len(flat) : flat[j] = seqs[i][k]
    BY <1>11 DEF InTurn
  <2>4. ASSUME NEW id \in Range(flat) PROVE \E i \in 1..n : id \in Range(seqs[i])
    <3>1. PICK j \in 1..Len(flat) : flat[j] = id
      BY <2>1
    <3>2. PICK i \in 1..n : \E k \in 1..Len(seqs[i]) : flat[j] = seqs[i][k]
      BY <2>3
    <3> QED BY <2>2, <3>1, <3>2
  <2>5. ASSUME NEW i \in 1..n, NEW id \in Range(seqs[i]) PROVE id \in Range(flat)
    <3>1. PICK k \in 1..Len(seqs[i]) : seqs[i][k] = id
      BY <2>2
    <3>2. PICK j \in 1..Len(flat) : flat[j] = seqs[i][k]
      BY <2>3
    <3> QED BY <2>1, <3>1, <3>2
  <2> QED BY <2>4, <2>5
<1>13. \A id : id \in named <=> \E p \in SeenIn(node, heights) : id \in Range(IdsOfTx(Tx(chain, p), a))
  <2>1. \A id : id \in named <=>
          \E p \in CallsOn(node, heights, a) : id \in ItemsOf(Tx(node.chain, p).parts[1].words)
    BY DEF NamedOn
  <2>2. \A p \in SeenIn(node, heights) : \A id : id \in Range(IdsOfTx(Tx(chain, p), a)) <=>
          /\ Tx(chain, p).kind = "ContractCall" /\ Tx(chain, p).receipt # "failed" /\ Tx(chain, p).parts[1].to = a
          /\ id \in ItemsOf(Tx(chain, p).parts[1].words)
    BY <1>8, IdsOfTxAre
  <2> QED BY <2>1, <2>2 DEF CallsOn
<1> HIDE DEF named
<1>14. \A id : id \in Range(flat) <=> id \in named
  <2>1. ASSUME NEW id \in Range(flat) PROVE id \in named
    <3>1. PICK i \in 1..n : id \in Range(seqs[i])
      BY <1>12
    <3> QED BY <1>9, <1>10, <1>13, <3>1
  <2>2. ASSUME NEW id \in named PROVE id \in Range(flat)
    <3>1. PICK p \in SeenIn(node, heights) : id \in Range(IdsOfTx(Tx(chain, p), a))
      BY <1>13
    <3>2. PICK i \in 1..n : places[i] = p
      BY <1>6, <1>7
    <3> QED BY <1>10, <1>12, <3>1, <3>2
  <2> QED BY <2>1, <2>2
<1>15. /\ ids \in Seq(Int) /\ Range(ids) = Range(flat)
       /\ \A i, j \in 1..Len(ids) : ids[i] = ids[j] => i = j
  BY <1>11, DistinctIs
<1> HIDE DEF ids
<1>16. Range(ids) = named
  BY <1>14, <1>15
<1>17. Cardinality(named) = Len(ids)
  BY <1>15, <1>16, RangeOfDistinct
<1>c. IdCap \in Nat \ {0}
  BY IndexAssumption
<1>18. /\ UpToCap(ids, IdCap) \in Seq(Int) /\ Range(UpToCap(ids, IdCap)) \subseteq Range(ids)
       /\ \A i \in 1..Len(ids) : i <= IdCap => i \in 1..Len(UpToCap(ids, IdCap)) /\ UpToCap(ids, IdCap)[i] = ids[i]
  BY <1>15, <1>c, AtMost
<1> HIDE DEF found
<1>19. ASSUME Cardinality(named) <= IdCap, NEW id \in named PROVE id \in Range(found)
  <2>1. PICK i \in 1..Len(ids) : ids[i] = id
    BY <1>15, <1>16, RangeOf
  <2>2. Len(ids) \in Nat
    BY <1>15, LenProperties
  <2>3. i <= IdCap
    BY <1>17, <1>19, <1>c, <2>2
  <2>4. i \in 1..Len(found) /\ found[i] = id /\ found \in Seq(Int)
    BY <1>1, <1>18, <2>1, <2>3
  <2> QED BY <2>4, RangeOf
<1> QED BY <1>1, <1>16, <1>18, <1>19 DEF found, named

\* Of two sequences behind each other there is what there is of both.
LEMMA ConcatHas ==
  ASSUME NEW S, NEW s \in Seq(S), NEW t \in Seq(S)
  PROVE  s \o t \in Seq(S) /\ \A x : x \in Range(s \o t) <=> x \in Range(s) \/ x \in Range(t)
<1> DEFINE u == s \o t
           m == Len(s)
           n == Len(t)
<1>1. /\ u \in Seq(S) /\ Len(u) = m + n
      /\ \A i \in 1..(m + n) : u[i] = IF i <= m THEN s[i] ELSE t[i - m]
  BY ConcatProperties
<1>2. m \in Nat /\ n \in Nat
  BY LenProperties
<1> HIDE DEF u
<1>3. /\ \A x : x \in Range(s) <=> \E i \in 1..m : s[i] = x
      /\ \A x : x \in Range(t) <=> \E i \in 1..n : t[i] = x
  BY RangeOf
<1>4. \A x : x \in Range(u) <=> \E i \in 1..(m + n) : u[i] = x
  BY <1>1, RangeOf
<1> HIDE DEF m, n
<1>5. ASSUME NEW i \in 1..m PROVE i \in 1..(m + n) /\ u[i] = s[i]
  BY <1>1, <1>2
<1>6. ASSUME NEW i \in 1..n PROVE \E j \in 1..(m + n) : u[j] = t[i]
  <2> DEFINE j == m + i
  <2>1. j \in 1..(m + n) /\ ~(j <= m) /\ j - m = i
    BY <1>2
  <2> HIDE DEF j
  <2> QED BY <1>1, <2>1
<1>7. ASSUME NEW i \in 1..(m + n) PROVE u[i] \in Range(s) \/ u[i] \in Range(t)
  <2>1. CASE i <= m
    <3>1. i \in 1..m
      BY <1>2, <2>1
    <3> QED BY <1>1, <1>3, <2>1, <3>1
  <2>2. CASE ~(i <= m)
    <3> DEFINE j == i - m
    <3>1. j \in 1..n
      BY <1>2, <2>2
    <3>2. u[i] = t[j]
      BY <1>1, <2>2
    <3> HIDE DEF j
    <3> QED BY <1>3, <3>1, <3>2
  <2> QED BY <2>1, <2>2
<1>8. \A x : x \in Range(u) <=> x \in Range(s) \/ x \in Range(t)
  <2>1. ASSUME NEW x \in Range(s) PROVE x \in Range(u)
    BY <1>3, <1>4, <1>5
  <2>2. ASSUME NEW x \in Range(t) PROVE x \in Range(u)
    BY <1>3, <1>4, <1>6
  <2>3. ASSUME NEW x \in Range(u) PROVE x \in Range(s) \/ x \in Range(t)
    BY <1>4, <1>7
  <2> QED BY <2>1, <2>2, <2>3
<1> QED BY <1>1, <1>8 DEF u

\* The samples are those items and the first numbers, each once, that the storage has.
LEMMA SamplesAre ==
  ASSUME NEW storage, NEW extra \in Seq(Int)
  PROVE  /\ Samples(storage, extra) \in Seq(Int)
         /\ \A id : id \in Range(Samples(storage, extra)) <=>
              (id \in 1..ProbeCap \/ id \in Range(extra)) /\ id \in storage
         /\ \A i, j \in 1..Len(Samples(storage, extra)) : i # j => Samples(storage, extra)[i] # Samples(storage, extra)[j]
<1> DEFINE probes == [i \in 1..ProbeCap |-> i]
           all == probes \o extra
           once == Distinct(all)
           samples == Samples(storage, extra)
<1>1. ProbeCap \in Nat
  BY IndexAssumption
<1>2. probes \in [1..ProbeCap -> Int] /\ \A i \in 1..ProbeCap : probes[i] = i
  BY <1>1
<1>3. samples = Among(once, storage)
  BY DEF Samples
<1> HIDE DEF probes
<1>4. probes \in Seq(Int) /\ Len(probes) = ProbeCap
  BY <1>1, <1>2, LenIs
<1>5. \A id : id \in Range(probes) <=> id \in 1..ProbeCap
  <2>1. \A id : id \in Range(probes) <=> \E i \in 1..ProbeCap : probes[i] = id
    BY <1>4, RangeOf
  <2> QED BY <1>2, <2>1
<1>6. all \in Seq(Int) /\ \A id : id \in Range(all) <=> id \in Range(probes) \/ id \in Range(extra)
  <2>1. all \in Seq(Int) /\ \A x : x \in Range(probes \o extra) <=> x \in Range(probes) \/ x \in Range(extra)
    BY <1>4, ConcatHas
  <2> QED BY <2>1
<1> HIDE DEF all
<1>7. once \in Seq(Int) /\ Range(once) = Range(all) /\ \A i, j \in 1..Len(once) : once[i] = once[j] => i = j
  BY <1>6, DistinctIs
<1> HIDE DEF once, samples
<1>8. /\ samples \in Seq(Int)
      /\ \A id : id \in Range(samples) <=> id \in Range(once) /\ id \in storage
      /\ \A m, k \in 1..Len(samples) : m < k =>
           \E i, j \in 1..Len(once) : i < j /\ samples[m] = once[i] /\ samples[k] = once[j]
  <2> DEFINE t == Among(once, storage)
  <2>1. /\ t \in Seq(Int)
        /\ \A id : id \in Range(t) <=> id \in Range(once) /\ id \in storage
        /\ \A m, k \in 1..Len(t) : m < k => \E i, j \in 1..Len(once) : i < j /\ t[m] = once[i] /\ t[k] = once[j]
    BY ONLY <1>7, AmongIs
  <2> HIDE DEF t
  <2>2. samples = t
    BY <1>3 DEF t
  <2> QED BY <2>1, <2>2
<1>9. ASSUME NEW m \in 1..Len(samples), NEW k \in 1..Len(samples), m < k PROVE samples[m] # samples[k]
  <2>1. PICK i, j \in 1..Len(once) : i < j /\ samples[m] = once[i] /\ samples[k] = once[j]
    BY <1>8, <1>9
  <2> QED BY <1>7, <2>1
<1>10. ASSUME NEW m \in 1..Len(samples), NEW k \in 1..Len(samples), m # k PROVE samples[m] # samples[k]
  <2>1. m < k \/ k < m
    BY <1>10
  <2> QED BY <1>9, <2>1
<1>11. \A id : id \in Range(samples) <=> (id \in 1..ProbeCap \/ id \in Range(extra)) /\ id \in storage
  BY <1>5, <1>6, <1>7, <1>8
<1> QED BY <1>8, <1>10, <1>11 DEF samples

\* What is shown of a collection is of it.
SamplesRight(samples, storage, named) ==
  /\ \A i, j \in DOMAIN samples : i # j => samples[i] # samples[j]
  /\ Range(samples) \subseteq storage \cap (1..ProbeCap \cup named)
  /\ Cardinality(named) <= IdCap => named \cap storage \subseteq Range(samples)

\* The collection shown of an asset has the items discovered in the calls of it.
LEMMA CollectionHolds ==
  ASSUME NEW node \in Nodes, NEW storage, NEW account \in Somebody, NEW window \in Nat \ {0}, NEW got,
         got = Profile(node, account, window, storage), got # Absent,
         lookup = [of |-> "assets", node |-> node, storage |-> storage, account |-> account,
                   window |-> window, got |-> got]
  PROVE  CollectionsShowTheirs
<1> DEFINE heights == Window(node, window)
           ids == DiscoverTokenIds(node, account, heights)
           named == NamedOn(node, heights, account)
           samples == got.samples
           index == got.index
<1>1. Profiles(node, account, window, storage, got)
  BY ProfileIs
<1>2. index = BuildTokenIndex(node, heights) /\ index # Absent /\ samples = Samples(storage, ids)
  BY <1>1 DEF Profiles, SamplesOf
<1>3. lookup.of = "assets" /\ lookup.node = node /\ lookup.got = got /\ lookup.account = account
      /\ lookup.window = window /\ lookup.storage = storage
  OBVIOUS
<1> HIDE DEF index, samples
<1>4. heights \cap node.badBlocks = {}
  <2> HIDE DEF heights
  <2> DEFINE R == Registered(node, heights)
  <2>1. R = Registered(node, heights)
    OBVIOUS
  <2> HIDE DEF R
  <2> QED BY <1>2, <2>1, IndexTells
<1> HIDE DEF heights
<1>5. /\ ids \in Seq(Int) /\ Range(ids) \subseteq named
      /\ Cardinality(named) <= IdCap => named \subseteq Range(ids)
  BY <1>4, DiscoveredAre
<1> HIDE DEF ids, named
<1>6. /\ samples \in Seq(Int)
      /\ \A id : id \in Range(samples) <=> (id \in 1..ProbeCap \/ id \in Range(ids)) /\ id \in storage
      /\ \A i, j \in 1..Len(samples) : i # j => samples[i] # samples[j]
  BY <1>2, <1>5, SamplesAre
<1>7. DOMAIN samples = 1..Len(samples)
  BY <1>6, LenProperties
<1>8. SamplesRight(samples, storage, named)
  BY <1>5, <1>6, <1>7 DEF SamplesRight
<1>9. SamplesRight(lookup.got.samples, lookup.storage, NamedOn(lookup.node, Window(lookup.node, lookup.window), lookup.account))
  BY <1>3, <1>8 DEF named, samples, heights
<1>10. lookup.of # "links"
  BY <1>3
<1> QED BY <1>9, <1>10 DEF CollectionsShowTheirs, SamplesRight, NamedOn, CallsOn, SeenIn, InWindow, Window

-----------------------------------------------------------------------------
\* What is found of a contract before anybody has published anything about it: it passes for
\* nothing that is published, and what its code does not dispatch on is not shown.
Plausible(id) ==
  /\ id.source # "published"
  /\ id.decoded # {} => id.functions \subseteq id.decoded
  /\ id.functions \cap id.unknown = {} /\ id.unknown \subseteq id.decoded

\* What is identified without a published file is not called published, has no function that the
\* decoded selectors do not bear out, and nothing both described and unknown.
LEMMA IdentifiedPlausibly ==
  ASSUME NEW network, NEW address, NEW code
  PROVE  Plausible(IdentifyContract(network, address, code))
<1> DEFINE decoded == DecodeDispatchSelectors(code)
           known == Recognised(network, address, code, Guess(decoded))
           described == SelectorsOf(known[2])
           id == IdentifyContract(network, address, code)
<1>1. known[1] # "published"
  BY DEF Recognised
<1> HIDE DEF known, decoded, described
<1>2. id = [source |-> known[1], interface |-> known[2], decoded |-> decoded,
            functions |-> IF decoded = {} THEN described ELSE described \cap decoded,
            unknown |-> decoded \ described]
  BY DEF IdentifyContract, IdentifyWith, IdentifiedAs, Identified, known, decoded, described
<1> HIDE DEF id
<1>3. Plausible(id)
  BY <1>1, <1>2 DEF Plausible
<1> QED BY <1>3 DEF id

\* Whoever the contract is, a published interface takes the place of what was found only on the
\* testnet, if the deployer claims it, the file is the recorded one and can be read; and then it
\* does, whole.
LEMMA PublishedReplaces ==
  ASSUME NEW id, NEW network, NEW address, NEW deployer, NEW record, NEW nonces, NEW served,
         Plausible(id), id = [source |-> id.source, interface |-> id.interface, decoded |-> id.decoded,
                              functions |-> id.functions, unknown |-> id.unknown]
  PROVE  LET got == WithPublished(id, network, address, deployer, record, nonces, served)
             counts == /\ network = "testnet" /\ record # Absent
                       /\ DeployerVerified(record, address, deployer, nonces)
                       /\ record.uri \in {"boing", "https"} /\ Fetched(record, served)
                       /\ served.hash = record.hash /\ ParsePublishedDoc(served.functions)
         IN  /\ got.source = "published" <=> counts
             /\ ~counts => got = id
             /\ got.decoded = id.decoded
             /\ (got.source # "published" /\ got.decoded # {}) => got.functions \subseteq got.decoded
             /\ got.functions \cap got.unknown = {} /\ got.unknown \subseteq got.decoded
<1> DEFINE got == WithPublished(id, network, address, deployer, record, nonces, served)
           published == ResolvePublishedInterface(record, address, deployer, nonces, served)
           fits == /\ DeployerVerified(record, address, deployer, nonces)
                   /\ record.uri \in {"boing", "https"} /\ Fetched(record, served)
                   /\ served.hash = record.hash /\ ParsePublishedDoc(served.functions)
           counts == network = "testnet" /\ record # Absent /\ fits
           described == {f.selector : f \in served.functions}
<1>1. published.verified <=> fits
  BY DEF ResolvePublishedInterface
<1>2. got = IF network # "testnet" \/ record = Absent THEN id
            ELSE IF ~published.verified THEN id
            ELSE [id EXCEPT !.source = "published", !.functions = described,
                            !.unknown = id.decoded \ described]
  BY DEF WithPublished, ApplyPublishedInterface
<1> HIDE DEF described, got, published, fits
<1>3. CASE counts
  <2>1. got = [source |-> "published", interface |-> id.interface, decoded |-> id.decoded,
               functions |-> described, unknown |-> id.decoded \ described]
    BY <1>1, <1>2, <1>3
  <2> QED BY <1>3, <2>1 DEF got, fits
<1>4. CASE ~counts
  <2>1. got = id
    BY <1>1, <1>2, <1>4
  <2> QED BY <1>4, <2>1 DEF got, fits, Plausible
<1> QED BY <1>3, <1>4

\* Nobody but account 2 can have made one of the contracts that are looked at.
LEMMA MakersAre ==
  ASSUME NEW nonces \in {<<1, 1>>, <<1, 0>>, <<1, Absent>>}, NEW address \in {Token, Salted(2, 1, 1)}
  PROVE  /\ ~IsNonceDeployOf(nonces, 1, address)
         /\ IsNonceDeployOf(nonces, 2, address) <=> address = Token /\ nonces[2] = 1
<1>1. NonceCap \in Nat /\ NonceCap >= 1 /\ Absent \notin Int
  BY IdentityAssumption, SearchAssumption
<1>2. address \in {120, 1211} /\ Token = 120
  BY DEF Token, Nonced, Salted
<1>3. Min({1, NonceCap}) = 1 /\ Min({0, NonceCap}) = 0
  <2>1. Min({1, NonceCap}) \in {1, NonceCap} /\ \A y \in {1, NonceCap} : Min({1, NonceCap}) <= y
    BY <1>1 DEF Min
  <2>2. Min({0, NonceCap}) \in {0, NonceCap} /\ \A y \in {0, NonceCap} : Min({0, NonceCap}) <= y
    BY <1>1 DEF Min
  <2> QED BY <1>1, <2>1, <2>2
<1>4. \A n \in 0..0 : Nonced(1, n) = 110 /\ Nonced(2, n) = 120
  BY DEF Nonced
<1>5. nonces[1] = 1 /\ nonces[2] \in {0, 1, Absent}
  OBVIOUS
<1>6. ~IsNonceDeployOf(nonces, 1, address)
  BY <1>2, <1>3, <1>4, <1>5 DEF IsNonceDeployOf
<1>7. CASE nonces[2] = 1
  BY <1>1, <1>2, <1>3, <1>4, <1>7 DEF IsNonceDeployOf
<1>8. CASE nonces[2] = 0
  BY <1>1, <1>2, <1>3, <1>6, <1>8 DEF IsNonceDeployOf
<1>9. CASE nonces[2] = Absent
  <2>1. ~IsNonceDeployOf(nonces, 2, address)
    BY <1>9 DEF IsNonceDeployOf
  <2>2. nonces[2] # 1
    BY <1>1, <1>9
  <2> QED BY <1>6, <2>1, <2>2
<1> QED BY <1>5, <1>6, <1>7, <1>8, <1>9

\* The answers that there may be.
OfHistory ==
  \E h \in Histories : \E n \in Responder(h.nodes, h.account, h.window, h.preferScan) :
    lookup = [of |-> "history", node |-> h.nodes[n], account |-> h.account, window |-> h.window,
              got |-> HistoryOf(h.nodes[n], h.account, h.window, h.preferScan)]
OfDeploy ==
  \E s \in Searches :
    lookup = [of |-> "deploy", node |-> s.node, target |-> s.target, account |-> s.account,
              found |-> LookupContractCode(s.node, s.target, s.extra).code,
              heights |-> FetchAccountDeployHeights(s.node, s.account),
              minted |-> ResolveFungibleTotalSupplyFromMintFirst(s.node, s.target)]
OfCode ==
  \E program \in Programs :
    lookup = [of |-> "code", program |-> program, selectors |-> DecodeDispatchSelectors(Program(program))]
OfContract ==
  \E network \in {"testnet", "mainnet"}, address \in {Token, Salted(2, 1, 1)}, code \in Codes,
     deployer \in {Nobody, 2}, record \in Records, served \in Served :
  \E nonces \in {<<1, 1>>, <<1, 0>>, <<1, Absent>>} :
    lookup = [of |-> "contract", network |-> network, address |-> address, record |-> record,
              nonces |-> nonces, deployer |-> deployer, served |-> served,
              got |-> ResolveContractInterface(network, address, code, deployer, record, nonces, served)]
OfAssets ==
  \E s \in Surveys :
    lookup = [of |-> "assets", node |-> s.node, storage |-> s.storage, account |-> s.account,
              window |-> s.window, got |-> Profile(s.node, s.account, s.window, s.storage)]
OfLinks ==
  \E r \in Registries :
    lookup = [of |-> "links", slots |-> r.slots, bad |-> r.bad, peers |-> [a \in r.assets |-> Peers(r, a)]]
Answered == lookup = NotLooked \/ OfHistory \/ OfDeploy \/ OfCode \/ OfContract \/ OfAssets \/ OfLinks

\* The lookup is always one of them.
LEMMA AlwaysAnswered == LookSpec => []Answered
<1>1. LookInit => Answered
  BY DEF LookInit, Answered
<1>2. Answered /\ [LookNext]_lookup => Answered'
  <2> SUFFICES ASSUME Answered, [LookNext]_lookup PROVE Answered'
    OBVIOUS
  <2>1. CASE LookAtHistory
    <3>1. OfHistory'
      BY <2>1 DEF LookAtHistory, OfHistory
    <3> QED BY <3>1 DEF Answered
  <2>2. CASE LookForDeploy
    <3>1. OfDeploy'
      BY <2>2 DEF LookForDeploy, OfDeploy
    <3> QED BY <3>1 DEF Answered
  <2>3. CASE LookAtCode
    <3>1. OfCode'
      BY <2>3 DEF LookAtCode, OfCode
    <3> QED BY <3>1 DEF Answered
  <2>4. CASE LookAtContract
    <3>1. OfContract'
      BY <2>4 DEF LookAtContract, OfContract
    <3> QED BY <3>1 DEF Answered
  <2>5. CASE LookAtAssets
    <3>1. OfAssets'
      BY <2>5 DEF LookAtAssets, OfAssets
    <3> QED BY <3>1 DEF Answered
  <2>6. CASE LookAtLinks
    <3>1. OfLinks'
      BY <2>6 DEF LookAtLinks, OfLinks
    <3> QED BY <3>1 DEF Answered
  <2>7. CASE UNCHANGED lookup
    BY <2>7 DEF Answered, OfHistory, OfDeploy, OfCode, OfContract, OfAssets, OfLinks
  <2> QED BY <2>1, <2>2, <2>3, <2>4, <2>5, <2>6, <2>7 DEF LookNext
<1> QED BY <1>1, <1>2, PTL DEF LookSpec

\* Every answer tells what it is of.
LEMMA AnswersTell ==
  /\ lookup = NotLooked => lookup.of = "nothing"
  /\ OfHistory => lookup.of = "history"
  /\ OfDeploy => lookup.of = "deploy"
  /\ OfCode => lookup.of = "code"
  /\ OfContract => lookup.of = "contract"
  /\ OfAssets => lookup.of = "assets"
  /\ OfLinks => lookup.of = "links"
<1>1. lookup = NotLooked => lookup.of = "nothing"
  BY DEF NotLooked
<1>2. OfHistory => lookup.of = "history"
  BY DEF OfHistory
<1>3. OfDeploy => lookup.of = "deploy"
  BY DEF OfDeploy
<1>4. OfCode => lookup.of = "code"
  BY DEF OfCode
<1>5. OfContract => lookup.of = "contract"
  BY DEF OfContract
<1>6. OfAssets => lookup.of = "assets"
  BY DEF OfAssets
<1>7. OfLinks => lookup.of = "links"
  BY DEF OfLinks
<1> QED BY <1>1, <1>2, <1>3, <1>4, <1>5, <1>6, <1>7

\* What is shown of a contract.
LEMMA ContractsHold ==
  ASSUME OfContract
  PROVE  PublishedIsTheDeployers
<1>1. PICK network \in {"testnet", "mainnet"}, address \in {Token, Salted(2, 1, 1)}, code \in Codes,
           deployer \in {Nobody, 2}, record \in Records, served \in Served,
           nonces \in {<<1, 1>>, <<1, 0>>, <<1, Absent>>} :
        lookup = [of |-> "contract", network |-> network, address |-> address, record |-> record,
                   nonces |-> nonces, deployer |-> deployer, served |-> served,
                   got |-> ResolveContractInterface(network, address, code, deployer, record, nonces, served)]
  BY DEF OfContract
<1> DEFINE id == IdentifyContract(network, address, code)
           got == WithPublished(id, network, address, deployer, record, nonces, served)
<1>2. /\ lookup.network = network /\ lookup.address = address /\ lookup.record = record
      /\ lookup.nonces = nonces /\ lookup.deployer = deployer /\ lookup.served = served
      /\ lookup.got = got
  BY <1>1 DEF ResolveContractInterface
<1>3. Plausible(id)
  BY IdentifiedPlausibly
<1>4. id = [source |-> id.source, interface |-> id.interface, decoded |-> id.decoded,
            functions |-> id.functions, unknown |-> id.unknown]
  BY DEF IdentifyContract, IdentifyWith, IdentifiedAs, Identified
<1> HIDE DEF id
<1>5. /\ got.source = "published" <=>
           /\ network = "testnet" /\ record # Absent
           /\ DeployerVerified(record, address, deployer, nonces)
           /\ record.uri \in {"boing", "https"} /\ Fetched(record, served)
           /\ served.hash = record.hash /\ ParsePublishedDoc(served.functions)
      /\ (got.source # "published" /\ got.decoded # {}) => got.functions \subseteq got.decoded
      /\ got.functions \cap got.unknown = {} /\ got.unknown \subseteq got.decoded
  BY <1>3, <1>4, PublishedReplaces
<1> HIDE DEF got
<1> DEFINE proven == deployer = 2 \/ (address = Token /\ nonces[2] = 1)
<1>6. record # Absent =>
        /\ record.claimer \in {1, 2}
        /\ DeployerVerified(record, address, deployer, nonces) <=> record.claimer = 2 /\ proven
  <2> SUFFICES ASSUME record # Absent
               PROVE  /\ record.claimer \in {1, 2}
                      /\ DeployerVerified(record, address, deployer, nonces) <=> record.claimer = 2 /\ proven
    OBVIOUS
  <2>1. record.claimer \in {1, 2}
    BY DEF Records
  <2>2. /\ ~IsNonceDeployOf(nonces, 1, address)
        /\ IsNonceDeployOf(nonces, 2, address) <=> address = Token /\ nonces[2] = 1
    BY MakersAre
  <2>3. CASE record.claimer = 1
    BY <2>1, <2>2, <2>3 DEF DeployerVerified, Nobody
  <2>4. CASE record.claimer = 2
    BY <2>1, <2>2, <2>4 DEF DeployerVerified, Nobody
  <2> QED BY <2>1, <2>3, <2>4
<1>7. got.source = "published" =>
        /\ network = "testnet" /\ record.claimer = 2 /\ proven
        /\ served.hash = record.hash /\ \A f \in served.functions : f.types \subseteq ParamTypes
  BY <1>5, <1>6 DEF ParsePublishedDoc
<1>8. (/\ network = "testnet" /\ record # Absent /\ served # Absent
       /\ record.claimer = 2 /\ proven /\ served.hash = record.hash /\ served.size = 1
       /\ record.uri = "https" /\ ParsePublishedDoc(served.functions)) => got.source = "published"
  <2>1. DocumentCap \in Nat /\ 1 <= DocumentCap
    BY IdentityAssumption
  <2>2. served # Absent /\ served.size = 1 /\ record.uri = "https" => Fetched(record, served)
    BY <2>1 DEF Fetched
  <2> HIDE DEF proven
  <2> QED BY <1>5, <1>6, <2>2
<1> QED BY <1>2, <1>5, <1>7, <1>8 DEF PublishedIsTheDeployers

\* The history and the finds.
LEMMA HistoriesHold ==
  ASSUME OfHistory
  PROVE  HistoryOfTheWindow
<1>1. PICK h \in Histories : \E n \in Responder(h.nodes, h.account, h.window, h.preferScan) :
        lookup = [of |-> "history", node |-> h.nodes[n], account |-> h.account, window |-> h.window,
                  got |-> HistoryOf(h.nodes[n], h.account, h.window, h.preferScan)]
  BY DEF OfHistory
<1>2. PICK n \in Responder(h.nodes, h.account, h.window, h.preferScan) :
        lookup = [of |-> "history", node |-> h.nodes[n], account |-> h.account, window |-> h.window,
                  got |-> HistoryOf(h.nodes[n], h.account, h.window, h.preferScan)]
  BY <1>1
<1> DEFINE nodes == h.nodes
           node == nodes[n]
           a == h.account
           window == h.window
           preferScan == h.preferScan
           got == HistoryOf(node, a, window, preferScan)
<1>3. nodes \in Seq(Nodes) /\ window \in Nat \ {0} /\ preferScan \in BOOLEAN
  BY LookAssumption
<1>4. n \in DOMAIN nodes /\ got # Absent
  BY DEF Responder, Responds
<1>5. lookup = [of |-> "history", node |-> node, account |-> a, window |-> window, got |-> got]
  BY <1>2
<1> HIDE DEF nodes
<1>6. node \in Nodes
  <2>1. n \in 1..Len(nodes)
    BY <1>3, <1>4, LenProperties
  <2> QED BY <1>3, <2>1, ElementOfSeq
<1>7. got = HistoryOf(node, a, window, preferScan)
  OBVIOUS
<1> HIDE DEF node, a, window, preferScan, got
<1> QED BY <1>3, <1>4, <1>5, <1>6, <1>7, WindowShown

\* A search of a deployment that was answered found the creation of the contract.
LEMMA SearchesHold ==
  ASSUME OfDeploy
  PROVE  FindsAreGenuine
<1>1. PICK s \in Searches :
        lookup = [of |-> "deploy", node |-> s.node, target |-> s.target, account |-> s.account,
                  found |-> LookupContractCode(s.node, s.target, s.extra).code,
                  heights |-> FetchAccountDeployHeights(s.node, s.account),
                  minted |-> ResolveFungibleTotalSupplyFromMintFirst(s.node, s.target)]
  BY DEF OfDeploy
<1> DEFINE node == s.node
           target == s.target
           extra == s.extra
           account == s.account
           found == LookupContractCode(node, target, extra).code
           heights == FetchAccountDeployHeights(node, account)
           minted == ResolveFungibleTotalSupplyFromMintFirst(node, target)
<1>2. node \in Nodes /\ extra \in Seq(Int)
  BY LookAssumption
<1>3. /\ found = LookupContractCode(node, target, extra).code
      /\ heights = FetchAccountDeployHeights(node, account)
      /\ minted = ResolveFungibleTotalSupplyFromMintFirst(node, target)
  OBVIOUS
<1>4. lookup = [of |-> "deploy", node |-> node, target |-> target, account |-> account,
                found |-> found, heights |-> heights, minted |-> minted]
  BY <1>1
<1> HIDE DEF node, target, extra, account, found, heights, minted
<1> QED BY <1>2, <1>3, <1>4, FindsHold

\* The interface read from the code of a dispatcher has the selectors it compares with.
LEMMA CodesHold ==
  ASSUME OfCode
  PROVE  DispatchDecodes
<1>1. PICK p \in Programs :
        lookup = [of |-> "code", program |-> p, selectors |-> DecodeDispatchSelectors(Program(p))]
  BY DEF OfCode
<1> DEFINE read == DecodeDispatchSelectors(Program(p))
<1>2. read = DecodeDispatchSelectors(Program(p))
  OBVIOUS
<1> HIDE DEF read
<1>3. lookup.of = "code" /\ lookup.program = p /\ lookup.selectors = read
  BY <1>1, <1>2
<1> QED BY <1>2, <1>3, DispatchHolds

\* The assets of an account that were answered are those of the chain.
LEMMA SurveysHold ==
  ASSUME OfAssets
  PROVE  AssetsAreOfTheChain
<1>1. PICK s \in Surveys :
        lookup = [of |-> "assets", node |-> s.node, storage |-> s.storage, account |-> s.account,
                  window |-> s.window, got |-> Profile(s.node, s.account, s.window, s.storage)]
  BY DEF OfAssets
<1> DEFINE node == s.node
           storage == s.storage
           account == s.account
           window == s.window
           got == Profile(node, account, window, storage)
<1>2. node \in Nodes /\ account \in Somebody /\ window \in Nat \ {0}
  BY LookAssumption
<1>3. got = Profile(node, account, window, storage)
  OBVIOUS
<1>4. lookup = [of |-> "assets", node |-> node, storage |-> storage, account |-> account,
                window |-> window, got |-> got]
  BY <1>1
<1> HIDE DEF node, storage, account, window, got
<1>5. CASE got = Absent
  <2>1. lookup.of = "assets" /\ lookup.got = Absent
    BY <1>4, <1>5
  <2> QED BY <2>1 DEF AssetsAreOfTheChain, IndexOfTheWindow, CollectionsShowTheirs
<1>6. CASE got # Absent
  <2>1. IndexOfTheWindow
    BY <1>2, <1>3, <1>4, <1>6, IndexHolds
  <2>2. CollectionsShowTheirs
    BY <1>2, <1>3, <1>4, <1>6, CollectionHolds
  <2> QED BY <2>1, <2>2 DEF AssetsAreOfTheChain
<1> QED BY <1>5, <1>6

\* A history has every transaction of the window in which the account has a part, newest first,
\* and the deploy and the mint of a contract are the ones that made it, whatever the nodes are
\* like: what collectAccountTxHistory, lookupContractCode and their callers find.
THEOREM Found == LookSpec => []FoundOnTheChain
<1>1. Answered => FoundOnTheChain
  <2> SUFFICES ASSUME Answered PROVE HistoryOfTheWindow /\ FindsAreGenuine
    BY DEF FoundOnTheChain
  <2>1. lookup.of = "history" => HistoryOfTheWindow
    BY AnswersTell, HistoriesHold DEF Answered
  <2>2. lookup.of = "deploy" => FindsAreGenuine
    BY AnswersTell, SearchesHold DEF Answered
  <2>3. lookup.of # "history" => HistoryOfTheWindow
    BY DEF HistoryOfTheWindow
  <2>4. lookup.of # "deploy" => FindsAreGenuine
    BY DEF FindsAreGenuine
  <2> QED BY <2>1, <2>2, <2>3, <2>4
<1> QED BY <1>1, AlwaysAnswered, PTL

\* What a contract is taken for is what its code dispatches on, of any program of comparisons and
\* data, and what its deployer published: decodeDispatchSelectors and resolvePublishedInterface.
THEOREM Identities == LookSpec => []InterfacesAreTheContracts
<1>1. Answered => InterfacesAreTheContracts
  <2> SUFFICES ASSUME Answered PROVE DispatchDecodes /\ PublishedIsTheDeployers
    BY DEF InterfacesAreTheContracts
  <2>1. lookup.of = "code" => DispatchDecodes
    BY AnswersTell, CodesHold DEF Answered
  <2>2. lookup.of = "contract" => PublishedIsTheDeployers
    BY AnswersTell, ContractsHold DEF Answered
  <2>3. lookup.of # "code" => DispatchDecodes
    BY DEF DispatchDecodes
  <2>4. lookup.of # "contract" => PublishedIsTheDeployers
    BY DEF PublishedIsTheDeployers
  <2> QED BY <2>1, <2>2, <2>3, <2>4
<1> QED BY <1>1, AlwaysAnswered, PTL

\* The index of a window names every contract that was made in it, each once with its first
\* maker, an account's deploys are its own, and a collection shows its items and links:
\* buildTokenIndex, the profile of an asset and the registry of links.
THEOREM Assets == LookSpec => []AssetsAreOfTheChain
<1>1. Answered => AssetsAreOfTheChain
  <2> SUFFICES ASSUME Answered PROVE AssetsAreOfTheChain
    OBVIOUS
  <2>1. CASE OfAssets
    BY <2>1, SurveysHold
  <2>2. CASE OfLinks
    <3>1. CollectionsShowTheirs
      <4>1. PICK r \in Registries :
              lookup = [of |-> "links", slots |-> r.slots, bad |-> r.bad, peers |-> [a \in r.assets |-> Peers(r, a)]]
        BY <2>2 DEF OfLinks
      <4> QED BY <4>1, LinksHold
    <3>2. lookup.of = "links"
      BY <2>2, AnswersTell
    <3>3. IndexOfTheWindow
      BY <3>2 DEF IndexOfTheWindow
    <3> QED BY <3>1, <3>3 DEF AssetsAreOfTheChain
  <2>3. CASE lookup.of \notin {"assets", "links"}
    BY <2>3 DEF AssetsAreOfTheChain, IndexOfTheWindow, CollectionsShowTheirs
  <2>4. OfAssets \/ OfLinks \/ lookup.of \notin {"assets", "links"}
    BY AnswersTell DEF Answered
  <2> QED BY <2>1, <2>2, <2>3, <2>4
<1> QED BY <1>1, AlwaysAnswered, PTL

\* An interface passes for published only if its claimer is the deployer and the file is the one
\* recorded, and then it does: what resolvePublishedInterface and applyPublishedInterface promise.
THEOREM PublishedByDeployers == LookSpec => []PublishedIsTheDeployers
<1>1. InterfacesAreTheContracts => PublishedIsTheDeployers
  BY DEF InterfacesAreTheContracts
<1> QED BY <1>1, Identities, PTL

=============================================================================
