------------------------------ MODULE RpcProofs ------------------------------
(***************************************************************************)
(* How an RPC answer gets to a page: the promise cache (RpcCache), for     *)
(* every set of keys and callers and every value of the cap, the lifetimes *)
(* and the bounds; and the call through the same-origin proxy (RpcProxy),  *)
(* for any calls, networks and lists of origins.                           *)
(***************************************************************************)
EXTENDS RpcCache, RpcProxy, TLAPS, FiniteSetTheorems, SequenceTheorems, WellFoundedInduction

-----------------------------------------------------------------------------
\* The sets of keys the cache ever counts are finite.
LEMMA CachedFinite ==
  ASSUME CacheAssumption
  PROVE  IsFiniteSet(Cached) /\ \A S \in SUBSET Keys : IsFiniteSet(S)
<1>1. \A S \in SUBSET Keys : IsFiniteSet(S)
  BY FS_Subset DEF CacheAssumption
<1>2. Cached \in SUBSET Keys
  BY DEF Cached
<1> QED BY <1>1, <1>2

\* What evictIfNeeded leaves is a part of what was there, and leaves room for one.
LEMMA EvictLeavesRoom ==
  ASSUME CacheAssumption, NEW present \in SUBSET Keys, NEW kept,
         EvictIfNeeded(present, kept)
  PROVE  /\ kept \subseteq present
         /\ Cardinality(kept) \in Nat
         /\ Cardinality(kept) < MaxEntries
<1> DEFINE live == {k \in present : load[entry[k]].expiresAt > now}
<1>0. /\ IsFiniteSet(present) /\ IsFiniteSet(live)
      /\ Cardinality(present) \in Nat /\ Cardinality(live) \in Nat
  <2>1. live \in SUBSET Keys
    OBVIOUS
  <2>2. IsFiniteSet(present) /\ IsFiniteSet(live)
    BY <2>1, CachedFinite
  <2> QED BY <2>2, FS_CardinalityType
<1>1. CASE Cardinality(present) < MaxEntries
  BY <1>0, <1>1 DEF EvictIfNeeded
<1>2. CASE ~ (Cardinality(present) < MaxEntries) /\ Cardinality(live) < MaxEntries
  BY <1>0, <1>2 DEF EvictIfNeeded
<1>3. CASE ~ (Cardinality(present) < MaxEntries) /\ ~ (Cardinality(live) < MaxEntries)
  <2>1. kept \subseteq live /\ Cardinality(kept) = MaxEntries - 1
    BY <1>3 DEF EvictIfNeeded
  <2> QED BY <2>1 DEF CacheAssumption
<1> QED BY <1>1, <1>2, <1>3

-----------------------------------------------------------------------------
\* What a new load leaves behind: ids grow by one and old loads stay as they were.
LEMMA BeginType ==
  ASSUME CacheAssumption, TypeOK, NEW k \in Keys, NEW ttl \in Ttls, Begin(k, ttl)
  PROVE  /\ started' = started + 1
         /\ started' \in 1..MaxLoads
         /\ load' \in [1..started' -> Loads]
         /\ \A l \in 1..started : load'[l] = load[l]
         /\ load'[started'] = [key |-> k, start |-> now, expiresAt |-> now + ttl,
                               status |-> "pending", sampledAt |-> now]
<1>1. started' = started + 1 /\ started' \in 1..MaxLoads
  BY DEF Begin, TypeOK, CacheAssumption
<1>2. [key |-> k, start |-> now, expiresAt |-> now + ttl,
       status |-> "pending", sampledAt |-> now] \in Loads
  BY DEF Loads, Status, TypeOK, CacheAssumption
<1>3. load' \in [1..started' -> Loads]
  BY <1>1, <1>2 DEF Begin, TypeOK
<1>4. \A l \in 1..started : l \in 1..started' /\ load'[l] = load[l]
  BY <1>1 DEF Begin, TypeOK
<1>5. started' \notin 1..started
  BY <1>1 DEF TypeOK
<1> QED BY <1>1, <1>3, <1>4, <1>5 DEF Begin

\* What settling a load leaves behind.
LEMMA SettleType ==
  ASSUME TypeOK, NEW l \in 1..started,
         Fail(l) \/ \E s \in load[l].start..now : Answer(l, s)
  PROVE  /\ load' \in [1..started -> Loads]
         /\ \A i \in 1..started :
              /\ load'[i].key = load[i].key
              /\ load'[i].start = load[i].start
              /\ load'[i].expiresAt = load[i].expiresAt
              /\ i # l => load'[i] = load[i]
         /\ load[l].status = "pending"
<1>1. load \in [1..started -> Loads] /\ now \in Nat
  BY DEF TypeOK
<1>2. CASE Fail(l)
  BY <1>1, <1>2 DEF Fail, Loads, Status
<1>3. ASSUME NEW s \in load[l].start..now, Answer(l, s)
      PROVE  /\ load' \in [1..started -> Loads]
             /\ \A i \in 1..started :
                  /\ load'[i].key = load[i].key
                  /\ load'[i].start = load[i].start
                  /\ load'[i].expiresAt = load[i].expiresAt
                  /\ i # l => load'[i] = load[i]
             /\ load[l].status = "pending"
  <2>1. load[l].start \in Nat
    BY <1>1 DEF Loads
  <2>2. s \in Nat
    BY <1>1, <2>1
  <2>3. load[l].status = "pending" /\ load[l] \in Loads
    BY <1>1, <1>3 DEF Answer
  <2>4. [load[l] EXCEPT !.status = "ok", !.sampledAt = s] \in Loads
    BY <2>2, <2>3 DEF Loads, Status
  <2>5. load' = [load EXCEPT ![l] = [load[l] EXCEPT !.status = "ok", !.sampledAt = s]]
    BY <1>1, <1>3 DEF Answer
  <2>6. load' \in [1..started -> Loads]
    BY <1>1, <2>4, <2>5
  <2>7. \A i \in 1..started : i # l => load'[i] = load[i]
    BY <1>1, <2>5
  <2>8. /\ load'[l].key = load[l].key
        /\ load'[l].start = load[l].start
        /\ load'[l].expiresAt = load[l].expiresAt
    BY <1>1, <2>3, <2>5 DEF Loads
  <2> QED BY <2>3, <2>6, <2>7, <2>8
<1> QED BY <1>2, <1>3

\* The entries and evictions a new load leads to.
LEMMA InsertType ==
  ASSUME CacheAssumption, TypeOK, NEW k \in Keys, InsertNewest(k), started' = started + 1
  PROVE  /\ entry' \in [Keys -> 0..started']
         /\ entry'[k] = started'
         /\ \A j \in Keys \ {k} : entry'[j] \in {entry[j], 0}
         /\ \A j \in Keys \ {k} : entry'[j] # entry[j] => entry[j] \in dropped'
         /\ dropped \subseteq dropped'
         /\ dropped' \subseteq 1..started
<1>1. PICK kept \in SUBSET (Cached \ {k}) :
        /\ entry' = [j \in Keys |-> IF j = k THEN started + 1
                                    ELSE IF j \in kept THEN entry[j] ELSE 0]
        /\ dropped' = dropped \cup {entry[j] : j \in (Cached \ {k}) \ kept}
  BY DEF InsertNewest
<1>2. \A j \in Cached : entry[j] \in 1..started
  BY DEF Cached, TypeOK
<1>3. \A j \in Keys \ Cached : entry[j] = 0
  BY DEF Cached
<1>4. entry' \in [Keys -> 0..started']
  BY <1>1, <1>2, <1>3 DEF TypeOK
<1>5. entry'[k] = started' /\ \A j \in Keys \ {k} : entry'[j] \in {entry[j], 0}
  BY <1>1
<1>6. \A j \in Keys \ {k} : entry'[j] # entry[j] => entry[j] \in dropped'
  <2> SUFFICES ASSUME NEW j \in Keys \ {k}, entry'[j] # entry[j]
               PROVE  entry[j] \in dropped'
    OBVIOUS
  <2>1. j \notin kept /\ j \in Cached
    BY <1>1, <1>3
  <2> QED BY <1>1, <2>1
<1>7. dropped' \subseteq 1..started
  <2>1. \A j \in (Cached \ {k}) \ kept : entry[j] \in 1..started
    BY <1>2
  <2> QED BY <1>1, <2>1 DEF TypeOK
<1> QED BY <1>1, <1>4, <1>5, <1>6, <1>7

\* Every variable keeps its type, in every instance (rpc-cache.ts:15-44).
THEOREM TypeCorrect == CacheAssumption => (CacheSpec => []TypeOK)
<1> SUFFICES ASSUME CacheAssumption PROVE CacheSpec => []TypeOK
  OBVIOUS
<1>1. CacheInit => TypeOK
  BY DEF CacheInit, Init, TypeOK, CacheAssumption
<1>2. TypeOK /\ [CacheNext]_vars => TypeOK'
  <2> SUFFICES ASSUME TypeOK, [CacheNext]_vars PROVE TypeOK'
    OBVIOUS
  <2>1. ASSUME NEW c \in Callers, NEW k \in Keys, Hit(c, k) PROVE TypeOK'
    BY <2>1 DEF Hit, Share, Attach, TypeOK
  <2>2. ASSUME NEW c \in Callers, NEW k \in Keys, NEW ttl \in Ttls, Miss(c, k, ttl)
        PROVE  TypeOK'
    <3>1. Begin(k, ttl) /\ Attach(c, started + 1) /\ InsertNewest(k) /\ now' = now
      BY <2>2 DEF Miss, StartLoad
    <3>2. started' = started + 1 /\ started' \in 0..MaxLoads
      <4>1. started' = started + 1 /\ started' \in 1..MaxLoads
        BY <3>1, BeginType
      <4> QED BY <4>1 DEF CacheAssumption
    <3>3. load' \in [1..started' -> Loads]
      BY <3>1, BeginType
    <3>4. entry' \in [Keys -> 0..started'] /\ dropped' \subseteq 1..started
      BY <3>1, <3>2, InsertType
    <3>5. waiting' \in [Callers -> 0..started'] /\ calledAt' \in [Callers -> Nat]
      BY <3>1, <3>2 DEF Attach, TypeOK
    <3> QED BY <3>1, <3>2, <3>3, <3>4, <3>5 DEF TypeOK
  <2>3. ASSUME NEW l \in 1..started, NEW s \in load[l].start..now, Resolve(l, s)
        PROVE  TypeOK'
    BY <2>3, SettleType DEF Resolve, TypeOK
  <2>4. ASSUME NEW l \in 1..started, Reject(l) PROVE TypeOK'
    <3>1. load' \in [1..started -> Loads]
      BY <2>4, SettleType DEF Reject
    <3>2. entry' \in [Keys -> 0..started]
      BY <2>4 DEF Reject, TypeOK, Loads
    <3> QED BY <2>4, <3>1, <3>2 DEF Reject, TypeOK
  <2>5. ASSUME NEW c \in Callers, CacheResume(c) PROVE TypeOK'
    BY <2>5 DEF CacheResume, Resume, TypeOK
  <2>6. CASE Clear
    <3>1. UNCHANGED sharedVars /\ entry' = [k \in Keys |-> 0]
      BY <2>6 DEF Clear
    <3>2. {entry[k] : k \in Cached} \subseteq 1..started
      BY DEF Cached, TypeOK
    <3>3. dropped' \subseteq 1..started
      BY <2>6, <3>2 DEF Clear, TypeOK
    <3> QED BY <3>1, <3>3 DEF sharedVars, TypeOK
  <2>7. CASE CacheTick
    BY <2>7 DEF CacheTick, Tick, TypeOK, CacheAssumption
  <2>8. CASE UNCHANGED vars
    BY <2>8 DEF vars, sharedVars, TypeOK
  <2> QED BY <2>1, <2>2, <2>3, <2>4, <2>5, <2>6, <2>7, <2>8 DEF CacheNext
<1> QED BY <1>1, <1>2, PTL DEF CacheSpec

-----------------------------------------------------------------------------
\* Entries may go, or one may be added to what evictIfNeeded left: the cap holds.
LEMMA CapKept ==
  ASSUME CacheAssumption, SizeBounded, Cached' \subseteq Cached
  PROVE  SizeBounded'
<1>1. Cardinality(Cached') <= Cardinality(Cached)
  BY CachedFinite, FS_Subset
<1>2. Cardinality(Cached) \in Nat /\ Cardinality(Cached') \in Nat
  BY CachedFinite, FS_Subset, FS_CardinalityType
<1> QED BY <1>1, <1>2 DEF SizeBounded, CacheAssumption

\* Putting one more in keeps the cap: room is made for it first.
LEMMA CapKeptByInsert ==
  ASSUME CacheAssumption, NEW k \in Keys, InsertNewest(k)
  PROVE  SizeBounded'
<1>1. PICK kept \in SUBSET (Cached \ {k}) :
        /\ EvictIfNeeded(Cached \ {k}, kept)
        /\ entry' = [j \in Keys |-> IF j = k THEN started + 1
                                    ELSE IF j \in kept THEN entry[j] ELSE 0]
  BY DEF InsertNewest
<1>2. Cached \ {k} \in SUBSET Keys /\ kept \in SUBSET Keys
  BY DEF Cached
<1>3. Cardinality(kept) \in Nat /\ Cardinality(kept) < MaxEntries
  BY <1>1, <1>2, EvictLeavesRoom
<1>4. Cached' \subseteq kept \cup {k}
  BY <1>1 DEF Cached
<1>5. /\ IsFiniteSet(kept \cup {k})
      /\ Cardinality(kept \cup {k}) <= MaxEntries
  <2>1. IsFiniteSet(kept)
    BY <1>2, CachedFinite
  <2>2. /\ IsFiniteSet(kept \cup {k})
        /\ Cardinality(kept \cup {k}) =
             IF k \in kept THEN Cardinality(kept) ELSE Cardinality(kept) + 1
    BY <2>1, FS_AddElement
  <2> QED BY <2>2, <1>3 DEF CacheAssumption
<1>6. Cardinality(Cached') <= Cardinality(kept \cup {k})
  BY <1>4, <1>5, FS_Subset
<1>7. Cardinality(Cached') \in Nat /\ Cardinality(kept \cup {k}) \in Nat
  BY <1>4, <1>5, FS_Subset, FS_CardinalityType
<1> QED BY <1>5, <1>6, <1>7 DEF SizeBounded, CacheAssumption

\* A hit attaches a caller to a live load and touches nothing else.
LEMMA HitKeeps ==
  ASSUME IInv, TypeOK', NEW c \in Callers, NEW k \in Keys, Hit(c, k)
  PROVE  IInv'
<1>1. UNCHANGED <<now, started, load, entry, dropped>> /\ Attach(c, entry[k]) /\ Live(k)
  BY DEF Hit, Share
<1>2. SizeBounded' /\ NoFailureCached' /\ LoadTimes' /\ AliveIsFound'
  BY <1>1 DEF IInv, SizeBounded, NoFailureCached, LoadTimes, AliveIsFound, Alive, Cached
<1>3. AskedInTime'
  BY <1>1 DEF IInv, AskedInTime, Attach, Live, TypeOK
<1> QED BY <1>2, <1>3 DEF IInv

\* A miss leaves the old loads as they are and makes the new one the key's entry.
LEMMA MissKeeps ==
  ASSUME CacheAssumption, IInv, TypeOK',
         NEW c \in Callers, NEW k \in Keys, NEW ttl \in Ttls, Miss(c, k, ttl)
  PROVE  IInv'
<1> DEFINE new == [key |-> k, start |-> now, expiresAt |-> now + ttl,
                   status |-> "pending", sampledAt |-> now]
<1>1. /\ ~ Live(k) /\ Begin(k, ttl) /\ Attach(c, started + 1) /\ InsertNewest(k)
      /\ now' = now
  BY DEF Miss, StartLoad
<1>2. TypeOK
  BY DEF IInv
<1>3. /\ started' = started + 1
      /\ \A l \in 1..started : load'[l] = load[l]
      /\ load'[started'] = new
      /\ started \in Nat
  BY <1>1, <1>2, BeginType DEF TypeOK
<1>4. /\ entry'[k] = started'
      /\ \A j \in Keys \ {k} : entry'[j] \in {entry[j], 0}
      /\ \A j \in Keys \ {k} : entry'[j] # entry[j] => entry[j] \in dropped'
      /\ dropped \subseteq dropped'
  BY <1>1, <1>2, <1>3, InsertType
<1>5. \A l \in 1..started' : l \in 1..started \/ l = started'
  BY <1>3
<1>6. ttl \in Nat /\ ttl > 0 /\ now \in Nat
  BY <1>2 DEF CacheAssumption, TypeOK
<1>7. SizeBounded'
  BY <1>1, CapKeptByInsert
<1>8. NoFailureCached'
  <2> SUFFICES ASSUME NEW j \in Keys, entry'[j] # 0
               PROVE  load'[entry'[j]].key = j /\ load'[entry'[j]].status # "failed"
    BY DEF NoFailureCached, Cached
  <2>1. CASE j = k
    BY <2>1, <1>3, <1>4
  <2>2. CASE j # k
    <3>1. entry'[j] = entry[j] /\ entry[j] \in 1..started
      BY <2>2, <1>2, <1>4 DEF TypeOK
    <3> QED BY <3>1, <1>3 DEF IInv, NoFailureCached, Cached
  <2> QED BY <2>1, <2>2
<1>9. LoadTimes'
  BY <1>3, <1>5, <1>6 DEF IInv, LoadTimes
<1>10. AskedInTime'
  <2> SUFFICES ASSUME NEW x \in Callers, waiting'[x] # 0
               PROVE  calledAt'[x] < load'[waiting'[x]].expiresAt
    BY DEF AskedInTime
  <2>1. CASE x = c
    BY <2>1, <1>1, <1>2, <1>3, <1>6 DEF Attach, TypeOK
  <2>2. CASE x # c
    <3>1. waiting'[x] = waiting[x] /\ calledAt'[x] = calledAt[x]
      BY <2>2, <1>1, <1>2 DEF Attach, TypeOK
    <3>2. waiting[x] \in 1..started
      BY <3>1, <1>2 DEF TypeOK
    <3> QED BY <3>1, <3>2, <1>3 DEF IInv, AskedInTime
  <2> QED BY <2>1, <2>2
<1>11. AliveIsFound'
  <2> SUFFICES ASSUME NEW l \in 1..started', Alive(l)', l \notin dropped'
               PROVE  entry'[load'[l].key] = l
    BY DEF AliveIsFound
  <2>1. CASE l = started'
    BY <2>1, <1>3, <1>4
  <2>2. CASE l \in 1..started
    <3>1. Alive(l) /\ l \notin dropped /\ load'[l] = load[l]
      BY <2>2, <1>1, <1>3, <1>4 DEF Alive
    <3>2. entry[load[l].key] = l
      BY <2>2, <3>1 DEF IInv, AliveIsFound
    <3>3. load[l].key \in Keys
      BY <2>2, <1>2 DEF TypeOK, Loads
    <3>4. load[l].key # k
      BY <2>2, <3>1, <3>2, <1>1, <1>3 DEF Live, Alive
    <3> QED BY <3>1, <3>2, <3>3, <3>4, <1>4
  <2> QED BY <2>1, <2>2, <1>5
<1> QED BY <1>7, <1>8, <1>9, <1>10, <1>11 DEF IInv

\* Settling changes one pending load; rejecting one also takes it out of the Map.
LEMMA ResolveKeeps ==
  ASSUME IInv, TypeOK', NEW l \in 1..started, NEW s \in load[l].start..now, Resolve(l, s)
  PROVE  IInv'
<1>1. /\ UNCHANGED <<now, started, waiting, calledAt, entry, dropped>>
      /\ Answer(l, s) /\ TypeOK
  BY DEF Resolve, IInv
<1>2. /\ \A i \in 1..started :
           /\ load'[i].key = load[i].key
           /\ load'[i].start = load[i].start
           /\ load'[i].expiresAt = load[i].expiresAt
           /\ i # l => load'[i] = load[i]
      /\ load[l].status = "pending"
  BY <1>1, SettleType
<1>3. /\ load'[l].status = "ok"
      /\ load'[l].sampledAt = s
      /\ load[l].start \in Nat /\ s >= load[l].start
  BY <1>1 DEF Answer, TypeOK, Loads
<1>4. SizeBounded'
  BY <1>1 DEF IInv, SizeBounded, Cached
<1>5. NoFailureCached'
  BY <1>1, <1>2, <1>3 DEF IInv, NoFailureCached, Cached, TypeOK
<1>6. LoadTimes'
  BY <1>1, <1>2, <1>3 DEF IInv, LoadTimes
<1>7. AskedInTime'
  BY <1>1, <1>2 DEF IInv, AskedInTime, TypeOK
<1>8. AliveIsFound'
  BY <1>1, <1>2, <1>3 DEF IInv, AliveIsFound, Alive
<1> QED BY <1>4, <1>5, <1>6, <1>7, <1>8 DEF IInv

\* A load that fails takes its own entry with it, if it still has one, and no other.
LEMMA RejectKeeps ==
  ASSUME CacheAssumption, IInv, TypeOK', NEW l \in 1..started, Reject(l)
  PROVE  IInv'
<1>1. /\ UNCHANGED <<now, started, waiting, calledAt, dropped>>
      /\ entry' = [entry EXCEPT ![load[l].key] = IF @ = l THEN 0 ELSE @]
      /\ Fail(l) /\ TypeOK
  BY DEF Reject, IInv
<1>2. /\ \A i \in 1..started :
           /\ load'[i].key = load[i].key
           /\ load'[i].start = load[i].start
           /\ load'[i].expiresAt = load[i].expiresAt
           /\ i # l => load'[i] = load[i]
      /\ load[l].status = "pending"
  BY <1>1, SettleType
<1>3. load'[l].status = "failed" /\ load'[l].sampledAt = load[l].sampledAt
  BY <1>1 DEF Fail, TypeOK, Loads
<1>4. \A j \in Keys : entry'[j] = entry[j] \/ (entry[j] = l /\ entry'[j] = 0)
  BY <1>1 DEF TypeOK
<1>5. SizeBounded'
  <2>1. Cached' \subseteq Cached
    BY <1>4 DEF Cached
  <2> QED BY <2>1, CapKept DEF IInv
<1>6. NoFailureCached'
  <2> SUFFICES ASSUME NEW j \in Keys, entry'[j] # 0
               PROVE  load'[entry'[j]].key = j /\ load'[entry'[j]].status # "failed"
    BY DEF NoFailureCached, Cached
  <2>1. entry'[j] = entry[j] /\ entry[j] \in 1..started /\ load[entry[j]].key = j
    BY <1>1, <1>4 DEF IInv, NoFailureCached, Cached, TypeOK
  <2>2. entry[j] # l
    BY <2>1, <1>1 DEF TypeOK
  <2> QED BY <2>1, <2>2, <1>2 DEF IInv, NoFailureCached, Cached
<1>7. LoadTimes'
  BY <1>1, <1>2, <1>3 DEF IInv, LoadTimes
<1>8. AskedInTime'
  BY <1>1, <1>2 DEF IInv, AskedInTime, TypeOK
<1>9. AliveIsFound'
  <2> SUFFICES ASSUME NEW i \in 1..started, Alive(i)', i \notin dropped
               PROVE  entry'[load'[i].key] = i
    BY <1>1 DEF AliveIsFound
  <2>1. i # l /\ load'[i] = load[i]
    BY <1>2, <1>3 DEF Alive
  <2>2. entry[load[i].key] = i /\ load[i].key \in Keys
    BY <2>1, <1>1 DEF IInv, AliveIsFound, Alive, TypeOK, Loads
  <2> QED BY <2>1, <2>2, <1>4
<1> QED BY <1>5, <1>6, <1>7, <1>8, <1>9 DEF IInv

\* Clearing throws every entry out, and says so.
LEMMA ClearKeeps ==
  ASSUME CacheAssumption, IInv, TypeOK', Clear
  PROVE  IInv'
<1>1. /\ UNCHANGED <<now, started, load, waiting, calledAt>>
      /\ entry' = [k \in Keys |-> 0]
      /\ dropped' = dropped \cup {entry[k] : k \in Cached}
      /\ TypeOK
  BY DEF Clear, sharedVars, IInv
<1>2. Cached' = {}
  BY <1>1 DEF Cached
<1>3. SizeBounded'
  BY <1>2, CapKept DEF IInv
<1>4. NoFailureCached'
  BY <1>2 DEF NoFailureCached
<1>5. LoadTimes' /\ AskedInTime'
  BY <1>1 DEF IInv, LoadTimes, AskedInTime
<1>6. AliveIsFound'
  <2> SUFFICES ASSUME NEW i \in 1..started, Alive(i), i \notin dropped'
               PROVE  FALSE
    BY <1>1 DEF AliveIsFound, Alive
  <2>1. entry[load[i].key] = i /\ load[i].key \in Keys
    BY <1>1 DEF IInv, AliveIsFound, TypeOK, Loads
  <2>2. load[i].key \in Cached
    BY <2>1 DEF Cached
  <2> QED BY <2>1, <2>2, <1>1
<1> QED BY <1>3, <1>4, <1>5, <1>6 DEF IInv

\* A caller that gets its answer changes nothing of the cache.
LEMMA ResumeKeeps ==
  ASSUME IInv, TypeOK', NEW c \in Callers, CacheResume(c)
  PROVE  IInv'
<1>1. UNCHANGED <<now, started, load, entry, dropped>> /\ waiting' = [waiting EXCEPT ![c] = 0]
      /\ calledAt' = [calledAt EXCEPT ![c] = 0]
  BY DEF CacheResume, Resume
<1>2. SizeBounded' /\ NoFailureCached' /\ LoadTimes' /\ AliveIsFound'
  BY <1>1 DEF IInv, SizeBounded, NoFailureCached, LoadTimes, AliveIsFound, Alive, Cached
<1>3. AskedInTime'
  BY <1>1 DEF IInv, AskedInTime, TypeOK
<1> QED BY <1>2, <1>3 DEF IInv

\* Time only ever takes loads out of the set of the living.
LEMMA TickKeeps ==
  ASSUME IInv, TypeOK', CacheTick
  PROVE  IInv'
<1>1. UNCHANGED <<started, load, waiting, calledAt, entry, dropped>> /\ now' = now + 1
  BY DEF CacheTick, Tick
<1>2. SizeBounded' /\ NoFailureCached' /\ LoadTimes' /\ AskedInTime'
  BY <1>1 DEF IInv, SizeBounded, NoFailureCached, LoadTimes, AskedInTime, Cached
<1>3. AliveIsFound'
  <2> SUFFICES ASSUME NEW l \in 1..started, Alive(l)', l \notin dropped
               PROVE  entry[load[l].key] = l
    BY <1>1 DEF AliveIsFound
  <2>1. load[l].expiresAt \in Nat /\ now \in Nat
    BY DEF IInv, TypeOK, Loads
  <2>2. Alive(l)
    BY <1>1, <2>1 DEF Alive
  <2> QED BY <2>2 DEF IInv, AliveIsFound
<1> QED BY <1>2, <1>3 DEF IInv

\* The inductive invariant holds in every instance.
THEOREM Invariant == CacheAssumption => (CacheSpec => []IInv)
<1> SUFFICES ASSUME CacheAssumption PROVE CacheSpec => []IInv
  OBVIOUS
<1>1. CacheInit /\ TypeOK => IInv
  <2> SUFFICES ASSUME CacheInit, TypeOK PROVE IInv
    OBVIOUS
  <2>1. Cached = {} /\ started = 0
    BY DEF CacheInit, Init, Cached
  <2>2. SizeBounded
    BY <2>1, FS_EmptySet DEF SizeBounded, CacheAssumption
  <2> QED BY <2>1, <2>2 DEF IInv, NoFailureCached, LoadTimes, AskedInTime, AliveIsFound,
                            CacheInit, Init
<1>2. IInv /\ TypeOK' /\ [CacheNext]_vars => IInv'
  <2> SUFFICES ASSUME IInv, TypeOK', [CacheNext]_vars PROVE IInv'
    OBVIOUS
  <2>1. ASSUME UNCHANGED vars PROVE IInv'
    BY <2>1 DEF vars, sharedVars, IInv, SizeBounded, NoFailureCached, LoadTimes,
                AskedInTime, AliveIsFound, Alive, Cached
  <2> QED BY <2>1, HitKeeps, MissKeeps, ResolveKeeps, RejectKeeps, ClearKeeps,
             ResumeKeeps, TickKeeps DEF CacheNext
<1> QED BY <1>1, <1>2, TypeCorrect, PTL DEF CacheSpec

-----------------------------------------------------------------------------
\* The Map never outgrows RPC_CACHE_MAX_ENTRIES.
THEOREM CacheBounded == CacheAssumption => (CacheSpec => []SizeBounded)
<1>1. IInv => SizeBounded
  BY DEF IInv
<1> QED BY <1>1, Invariant, PTL

\* A failed promise is never in the Map.
THEOREM FailuresNotCached == CacheAssumption => (CacheSpec => []NoFailureCached)
<1>1. IInv => NoFailureCached
  BY DEF IInv
<1> QED BY <1>1, Invariant, PTL

\* No answer is older than its lifetime, counted from the moment it was asked for.
THEOREM AnswersFresh == CacheAssumption => (CacheSpec => []FreshWhenAsked)
<1>1. IInv => FreshWhenAsked
  <2> SUFFICES ASSUME IInv, NEW c \in Callers, waiting[c] # 0
               PROVE  calledAt[c] < load[waiting[c]].sampledAt +
                        (load[waiting[c]].expiresAt - load[waiting[c]].start)
    BY DEF FreshWhenAsked
  <2> DEFINE l == waiting[c]
  <2>1. l \in 1..started /\ calledAt[c] \in Nat /\ load[l] \in Loads
    BY DEF IInv, TypeOK
  <2>2. load[l].start \in Nat /\ load[l].sampledAt \in Nat /\ load[l].expiresAt \in Nat
    BY <2>1 DEF Loads
  <2>3. load[l].start <= load[l].sampledAt /\ calledAt[c] < load[l].expiresAt
    BY <2>1 DEF IInv, LoadTimes, AskedInTime
  <2> QED BY <2>1, <2>2, <2>3
<1> QED BY <1>1, Invariant, PTL

\* Concurrent callers of a key share one load, unless the cap or a clear interfered.
THEOREM OneLoadPerKey == CacheAssumption => (CacheSpec => SingleFlight)
<1> SUFFICES ASSUME CacheAssumption PROVE CacheSpec => SingleFlight
  OBVIOUS
<1>1. IInv /\ [CacheNext]_vars => [SingleFlightStep]_vars
  <2> SUFFICES ASSUME IInv, CacheNext, started' # started PROVE SingleFlightStep
    BY DEF SingleFlightStep
  <2>1. PICK c \in Callers, k \in Keys, ttl \in Ttls : Miss(c, k, ttl)
    BY DEF CacheNext, Hit, Share, Resolve, Reject, CacheResume, Resume, Clear, sharedVars,
           CacheTick, Tick
  <2>2. ~ Live(k) /\ load'[started'].key = k
    <3>1. ~ Live(k) /\ Begin(k, ttl) /\ TypeOK
      BY <2>1 DEF Miss, StartLoad, IInv
    <3>2. load'[started'] = [key |-> k, start |-> now, expiresAt |-> now + ttl,
                             status |-> "pending", sampledAt |-> now]
      BY <3>1, BeginType
    <3> QED BY <3>1, <3>2
  <2>3. SUFFICES ASSUME NEW l \in 1..started, load[l].key = k, Alive(l), l \notin dropped
                 PROVE  FALSE
    BY <2>2 DEF SingleFlightStep
  <2>4. entry[k] = l
    BY <2>3 DEF IInv, AliveIsFound
  <2> QED BY <2>2, <2>3, <2>4 DEF Live, Alive
<1> QED BY <1>1, Invariant, PTL DEF CacheSpec, SingleFlight

\* What the cap throws out alive is older than everything that stays.
THEOREM EvictsInOrder == CacheAssumption => (CacheSpec => EvictionOrder)
<1> SUFFICES ASSUME CacheAssumption PROVE CacheSpec => EvictionOrder
  OBVIOUS
<1>1. TypeOK /\ [CacheNext]_vars => [EvictionOrderStep]_vars
  <2> SUFFICES ASSUME TypeOK, CacheNext, started' # started,
                      NEW i \in Cached, NEW j \in Cached,
                      Live(i), entry'[i] = 0, entry'[j] = entry[j]
               PROVE  Live(j) /\ entry[i] < entry[j]
    BY DEF EvictionOrderStep
  <2>1. PICK c \in Callers, k \in Keys, ttl \in Ttls : Miss(c, k, ttl)
    BY DEF CacheNext, Hit, Share, Resolve, Reject, CacheResume, Resume, Clear, sharedVars,
           CacheTick, Tick
  <2>2. ~ Live(k) /\ InsertNewest(k)
    BY <2>1 DEF Miss, StartLoad
  <2>3. PICK kept \in SUBSET (Cached \ {k}) :
          /\ EvictIfNeeded(Cached \ {k}, kept)
          /\ entry' = [m \in Keys |-> IF m = k THEN started + 1
                                      ELSE IF m \in kept THEN entry[m] ELSE 0]
    BY <2>2 DEF InsertNewest
  <2>4. i \in Keys /\ j \in Keys /\ entry[i] # 0 /\ entry[j] # 0
        /\ started \in Nat /\ entry[j] <= started
    BY DEF Cached, TypeOK
  <2>5. i # k /\ j # k
    BY <2>2, <2>3, <2>4
  <2>6. i \notin kept /\ j \in kept
    BY <2>3, <2>4, <2>5
  <2> DEFINE live == {m \in Cached \ {k} : load[entry[m]].expiresAt > now}
  <2>7. i \in live
    BY <2>5 DEF Live
  <2>8. /\ kept \subseteq live
        /\ \A m \in kept, d \in live \ kept : entry[d] < entry[m]
    BY <2>3, <2>6, <2>7 DEF EvictIfNeeded
  <2> QED BY <2>4, <2>6, <2>7, <2>8 DEF Live
<1> QED BY <1>1, TypeCorrect, PTL DEF CacheSpec, EvictionOrder

\* A load that fails takes no other load's entry with it.
THEOREM NewerLoadSurvives == CacheAssumption => (CacheSpec => OnlyOwnEntryDropped)
<1> SUFFICES ASSUME CacheAssumption PROVE CacheSpec => OnlyOwnEntryDropped
  OBVIOUS
<1>1. TypeOK /\ [CacheNext]_vars => [OnlyOwnEntryDroppedStep]_vars
  <2> SUFFICES ASSUME TypeOK, CacheNext, NEW l \in 1..started,
                      load[l].status # "failed", load'[l].status = "failed",
                      NEW k \in Keys, entry[k] # l
               PROVE  entry'[k] = entry[k]
    BY DEF OnlyOwnEntryDroppedStep
  <2>1. ASSUME NEW c \in Callers, NEW j \in Keys, NEW ttl \in Ttls, Miss(c, j, ttl)
        PROVE  FALSE
    <3>1. Begin(j, ttl)
      BY <2>1 DEF Miss, StartLoad
    <3>2. load'[l] = load[l]
      BY <3>1, BeginType
    <3> QED BY <3>2
  <2>2. ASSUME NEW i \in 1..started, NEW s \in load[i].start..now, Resolve(i, s)
        PROVE  FALSE
    BY <2>2 DEF Resolve, Answer, TypeOK, Loads
  <2>3. ASSUME NEW i \in 1..started, Reject(i) PROVE entry'[k] = entry[k]
    <3>1. i = l
      BY <2>3 DEF Reject, Fail, TypeOK, Loads
    <3> QED BY <2>3, <3>1 DEF Reject, TypeOK
  <2> QED BY <2>1, <2>2, <2>3 DEF CacheNext, Hit, Share, CacheResume, Resume, Clear,
                                  sharedVars, CacheTick, Tick
<1> QED BY <1>1, TypeCorrect, PTL DEF CacheSpec, OnlyOwnEntryDropped

-----------------------------------------------------------------------------
\* The cache implements the abstract sharing of loads: a hit joins a load, a miss
\* starts one, and a clear is invisible.
THEOREM Refinement == CacheAssumption => (CacheSpec => ImplementsSharedLoads)
<1> SUFFICES ASSUME CacheAssumption PROVE CacheSpec => ImplementsSharedLoads
  OBVIOUS
<1> USE DEF Abstract!sharedVars, sharedVars
<1>1. CacheInit => Abstract!Init
  BY DEF CacheInit, Init, Abstract!Init
<1>2. IInv /\ [CacheNext]_vars => [Abstract!Next]_(Abstract!sharedVars)
  <2> SUFFICES ASSUME IInv, [CacheNext]_vars
               PROVE  Abstract!Next \/ UNCHANGED sharedVars
    BY DEF Abstract!sharedVars, sharedVars
  <2>1. ASSUME NEW c \in Callers, NEW k \in Keys, Hit(c, k) PROVE Abstract!Join(c, k)
    <3>1. /\ entry[k] \in 1..started
          /\ load[entry[k]].key = k
          /\ load[entry[k]].status # "failed"
          /\ load[entry[k]].expiresAt > now
      BY <2>1 DEF Hit, Share, Live, IInv, TypeOK, NoFailureCached, Cached
    <3> QED BY <2>1, <3>1 DEF Hit, Share, Attach, Abstract!Join, Abstract!Joinable,
                              Abstract!Attach
  <2>2. ASSUME NEW c \in Callers, NEW k \in Keys, NEW ttl \in Ttls, Miss(c, k, ttl)
        PROVE  Abstract!Start(c, k, ttl)
    BY <2>2 DEF Miss, StartLoad, Begin, Attach, Abstract!Start, Abstract!Begin,
                Abstract!Attach
  <2>3. ASSUME NEW l \in 1..started, NEW s \in load[l].start..now, Resolve(l, s)
        PROVE  Abstract!Settle(l)
    BY <2>3 DEF Resolve, Answer, Abstract!Settle, Abstract!Answer
  <2>4. ASSUME NEW l \in 1..started, Reject(l) PROVE Abstract!Settle(l)
    BY <2>4 DEF Reject, Fail, Abstract!Settle, Abstract!Fail
  <2>5. ASSUME NEW c \in Callers, CacheResume(c) PROVE Abstract!Resume(c)
    BY <2>5 DEF CacheResume, Resume, Abstract!Resume
  <2>6. CASE CacheTick
    BY <2>6 DEF CacheTick, Tick, Abstract!Tick, Abstract!Next
  <2>7. CASE Clear \/ UNCHANGED vars
    BY <2>7 DEF Clear, vars
  <2> QED BY <2>1, <2>2, <2>3, <2>4, <2>5, <2>6, <2>7 DEF CacheNext, Abstract!Next
<1> QED BY <1>1, <1>2, Invariant, PTL DEF CacheSpec, ImplementsSharedLoads, Abstract!Spec

-----------------------------------------------------------------------------
(* The proxy                                                                *)

\* The order of the naturals is well-founded.
LessThan == {p \in Nat \X Nat : p[1] < p[2]}

\* A set of naturals that is not empty has a least.
LEMMA Least ==
  ASSUME NEW T, T \subseteq Nat, T # {}
  PROVE  \E x \in T : \A y \in T : x <= y
<1>1. OpToRel(<, Nat) = LessThan
  BY Zenon DEF LessThan, OpToRel
<1>2. IsWellFoundedOn(OpToRel(<, Nat), Nat)
  BY Zenon, NatLessThanWellFounded
<1>3. IsWellFoundedOn(LessThan, Nat)
  BY Zenon, <1>1, <1>2
<1>4. PICK x \in T : \A y \in T : ~ (<<y, x>> \in LessThan)
  BY <1>3, WFMin
<1>5. ASSUME NEW y \in T PROVE x <= y
  <2>1. x \in Nat /\ y \in Nat /\ <<y, x>> \notin LessThan
    BY <1>4, <1>5
  <2>2. ~ (y < x)
    BY <2>1 DEF LessThan
  <2> QED BY <2>1, <2>2
<1> QED BY <1>5

Keep(n) == {m \in 1..Len(Origins[n]) :
              /\ Origins[n][m] # Blank
              /\ \A j \in 1..(m - 1) : Origins[n][j] # Origins[n][m]}
Configured(n) == {Origins[n][m] : m \in 1..Len(Origins[n])} \ {Blank}

\* Every origin that is configured is kept at its first place.
LEMMA FirstPlace ==
  ASSUME NEW n, Len(Origins[n]) \in Nat, NEW o \in Configured(n)
  PROVE  \E m \in Keep(n) : Origins[n][m] = o
<1> DEFINE T == {m \in 1..Len(Origins[n]) : Origins[n][m] = o}
<1>1. T \subseteq Nat /\ T # {} /\ o # Blank
  BY DEF Configured
<1>2. PICK m \in T : \A y \in T : m <= y
  BY <1>1, Least
<1>3. ASSUME NEW j \in 1..(m - 1) PROVE Origins[n][j] # o
  <2>1. j \in 1..Len(Origins[n]) /\ ~ (m <= j)
    BY <1>2, <1>3
  <2> QED BY <1>2, <2>1
<1> QED BY <1>1, <1>2, <1>3 DEF Keep

\* The candidates are as many as there are origins to try.
LEMMA CandidatesAre ==
  ASSUME NEW n, Len(Origins[n]) \in Nat
  PROVE  /\ Cardinality(Configured(n)) \in Nat
         /\ Len(Candidates(n)) = Cardinality(Configured(n))
         /\ (\E m \in 1..Len(Origins[n]) : Origins[n][m] # Blank) => Len(Candidates(n)) >= 1
<1> DEFINE K == Keep(n)
           C == Configured(n)
           f == [m \in K |-> Origins[n][m]]
<1>1. IsFiniteSet(1..Len(Origins[n]))
  BY FS_Interval
<1>2. IsFiniteSet(K) /\ Cardinality(K) \in Nat
  <2>1. K \in SUBSET (1..Len(Origins[n]))
    BY DEF Keep
  <2> QED BY <1>1, <2>1, FS_Subset, FS_CardinalityType
<1>3. f \in [K -> C]
  BY DEF Keep, Configured
<1>4. \A a, b \in K : f[a] = f[b] => a = b
  <2> SUFFICES ASSUME NEW a \in K, NEW b \in K, Origins[n][a] = Origins[n][b], a # b PROVE FALSE
    OBVIOUS
  <2>1. a \in Nat /\ b \in Nat /\ (a \in 1..(b - 1) \/ b \in 1..(a - 1))
    BY DEF Keep
  <2> QED BY <2>1 DEF Keep
<1>5. \A o \in C : \E m \in K : f[m] = o
  BY FirstPlace
<1>6. ExistsBijection(K, C)
  <2> HIDE DEF K, C, f
  <2>1. f \in Injection(K, C)
    BY <1>3, <1>4 DEF Injection, IsInjective
  <2>2. f \in Surjection(K, C)
    BY <1>3, <1>5 DEF Surjection
  <2> QED BY <2>1, <2>2 DEF Bijection, ExistsBijection
<1>7. IsFiniteSet(C) /\ Cardinality(C) = Cardinality(K)
  BY <1>2, <1>6, FS_Bijection
<1>8. Len(Candidates(n)) = Cardinality(K)
  <2>1. Candidates(n) = [x \in 1..Cardinality(K) |->
          Origins[n][CHOOSE m \in K : Cardinality({j \in K : j <= m}) = x]]
    BY DEF Candidates, Keep
  <2> HIDE DEF K
  <2> QED BY <1>2, <2>1
<1>9. ASSUME NEW m \in 1..Len(Origins[n]), Origins[n][m] # Blank PROVE Cardinality(C) >= 1
  <2>1. C # {}
    BY <1>9 DEF Configured
  <2>2. Cardinality(C) # 0 /\ Cardinality(C) \in Nat
    BY <1>7, <2>1, FS_EmptySet, FS_CardinalityType
  <2> QED BY <2>2
<1> QED BY <1>2, <1>7, <1>8, <1>9

-----------------------------------------------------------------------------
CallType == [state: {"idle", "waiting", "pausing", "settled"}, attempt: 0..2,
             network: Networks, got: Seq(Answers \cup Breaks)]
RouteType == [state: {"none", "arrived", "trying", "answered"}, log: Seq(Answers)]

CallTypes == call \in [Calls -> CallType] /\ route \in [Calls -> [Attempts -> RouteType]]

\* The state of a call tells how often it was sent and what has been heard of it.
HeardOf(c) ==
  /\ call[c].state = "idle" => call[c].attempt = 0
  /\ call[c].state # "idle" => call[c].attempt \in 1..2
  /\ call[c].state = "waiting" => Len(call[c].got) = call[c].attempt - 1
  /\ call[c].state = "idle" => Len(call[c].got) = 0
  /\ call[c].state = "pausing" =>
       call[c].attempt = 1 /\ Len(call[c].got) = 1 /\ Retryable(call[c].got[1])
  /\ call[c].attempt = 2 => Len(call[c].got) >= 1 /\ Retryable(call[c].got[1])

\* What the log of a route r that works on a list of n origins says about it.
Logged(r, n) ==
  /\ r.state \in {"none", "arrived"} => Len(r.log) = 0
  /\ r.state = "trying" => Len(r.log) < n /\ \A m \in 1..Len(r.log) : r.log[m] \in Failures
  /\ r.state = "answered" =>
       /\ Len(r.log) >= 1
       /\ r.log[Len(r.log)] \in Failures =>
            Len(r.log) = n /\ \A m \in 1..Len(r.log) : r.log[m] \in Failures

ProxyInv ==
  /\ CallTypes
  /\ \A c \in Calls : HeardOf(c)
  /\ \A c \in Calls, a \in Attempts :
       /\ Logged(route[c][a], Len(Candidates(call[c].network)))
       /\ a > call[c].attempt => route[c][a].state = "none"

\* Every network has at least one candidate, and as many as origins are configured.
LEMMA Lists ==
  ASSUME ProxyAssumption, NEW n \in Networks
  PROVE  /\ Len(Candidates(n)) \in Nat /\ Len(Candidates(n)) >= 1
         /\ Len(Candidates(n)) = Cardinality(Configured(n))
<1>1. Len(Origins[n]) \in Nat /\ \E m \in 1..Len(Origins[n]) : Origins[n][m] # Blank
  BY DEF ProxyAssumption
<1> QED BY <1>1, CandidatesAre

\* Nothing was sent or heard at first.
LEMMA ProxyInitOK == ProxyAssumption /\ ProxyInit => ProxyInv
<1> SUFFICES ASSUME ProxyAssumption, ProxyInit PROVE ProxyInv
  OBVIOUS
<1>1. PICK nets \in [Calls -> Networks] :
        call = [c \in Calls |-> [state |-> "idle", attempt |-> 0, network |-> nets[c], got |-> <<>>]]
  BY DEF ProxyInit
<1>2. <<>> \in Seq(Answers \cup Breaks) /\ <<>> \in Seq(Answers) /\ Len(<<>>) = 0
  OBVIOUS
<1>3. call \in [Calls -> CallType]
  BY <1>1, <1>2 DEF CallType
<1>4. route \in [Calls -> [Attempts -> RouteType]]
  BY <1>2 DEF ProxyInit, RouteType
<1>5. \A c \in Calls : HeardOf(c)
  BY <1>1, <1>2 DEF HeardOf
<1>6. \A c \in Calls, a \in Attempts :
        Logged(route[c][a], Len(Candidates(call[c].network))) /\ route[c][a].state = "none"
  BY <1>2 DEF ProxyInit, Logged
<1> QED BY <1>3, <1>4, <1>5, <1>6 DEF ProxyInv, CallTypes

\* A call goes out: its attempt has a route that is still empty.
LEMMA SendKeeps ==
  ASSUME ProxyAssumption, ProxyInv, NEW c \in Calls, Send(c)
  PROVE  ProxyInv'
<1> DEFINE k == call[c].attempt + 1
           new == [call[c] EXCEPT !.state = "waiting", !.attempt = k]
           r == [route[c][k] EXCEPT !.state = "arrived"]
<1>1. /\ call[c] \in CallType /\ call[c].state \in {"idle", "pausing"} /\ HeardOf(c)
  BY DEF ProxyInv, CallTypes, Send
<1>2. k \in 1..2 /\ k > call[c].attempt /\ call[c].attempt \in Nat
      /\ (k = 1 <=> call[c].state = "idle") /\ Len(call[c].got) = k - 1
      /\ (k = 2 => Retryable(call[c].got[1]))
  <2>1. CASE call[c].state = "idle"
    BY <1>1, <2>1 DEF HeardOf
  <2>2. CASE call[c].state = "pausing"
    <3>1. call[c].attempt = 1 /\ Len(call[c].got) = 1 /\ Retryable(call[c].got[1])
      BY <1>1, <2>2 DEF HeardOf
    <3> QED BY <2>2, <3>1
  <2> QED BY <1>1, <2>1, <2>2
<1>3. route[c][k] \in RouteType /\ route[c][k].state = "none" /\ Len(route[c][k].log) = 0
  BY <1>2 DEF ProxyInv, CallTypes, Attempts, Logged
<1>4. /\ new \in CallType /\ new.state = "waiting" /\ new.attempt = k
      /\ new.network = call[c].network /\ new.got = call[c].got
  <2>1. k \in 0..2
    BY <1>2
  <2> HIDE DEF k
  <2> QED BY <1>1, <2>1 DEF CallType
<1>5. r \in RouteType /\ r.state = "arrived" /\ r.log = route[c][k].log
  BY <1>3 DEF RouteType
<1>6. call' = [call EXCEPT ![c] = new] /\ route' = [route EXCEPT ![c][k] = r]
  BY <1>1 DEF Send
<1> HIDE DEF k, new, r
<1>7. CallTypes'
  BY <1>2, <1>4, <1>5, <1>6 DEF ProxyInv, CallTypes, Attempts
<1>8. ASSUME NEW d \in Calls PROVE HeardOf(d)'
  <2>1. CASE d = c
    BY <1>2, <1>4, <1>6, <2>1 DEF ProxyInv, CallTypes, HeardOf
  <2>2. CASE d # c
    BY <1>6, <2>2 DEF ProxyInv, CallTypes, HeardOf
  <2> QED BY <2>1, <2>2
<1>9. ASSUME NEW d \in Calls, NEW a \in Attempts
      PROVE  /\ Logged(route[d][a], Len(Candidates(call[d].network)))'
             /\ (a > call[d].attempt => route[d][a].state = "none")'
  <2>0. call'[d].network = call[d].network /\ k \in Attempts
    BY <1>2, <1>4, <1>6 DEF ProxyInv, CallTypes, Attempts
  <2>1. CASE d = c /\ a = k
    <3>1. route'[d][a] = r /\ call'[d].attempt = k
      BY <1>4, <1>6, <2>0, <2>1 DEF ProxyInv, CallTypes
    <3> QED BY <1>2, <1>3, <1>5, <2>0, <2>1, <3>1 DEF Logged
  <2>2. CASE d = c /\ a # k
    <3>1. route'[d][a] = route[d][a] /\ call'[d].attempt = k
      BY <1>4, <1>6, <2>0, <2>2 DEF ProxyInv, CallTypes
    <3>2. Logged(route[d][a], Len(Candidates(call[d].network)))
      BY DEF ProxyInv
    <3>3. a > k => route[d][a].state = "none"
      BY <1>2, <2>2 DEF ProxyInv, Attempts
    <3> QED BY <2>0, <3>1, <3>2, <3>3 DEF Logged
  <2>3. CASE d # c
    <3>1. route'[d] = route[d] /\ call'[d] = call[d]
      BY <1>6, <2>3 DEF ProxyInv, CallTypes
    <3> QED BY <3>1 DEF ProxyInv, Logged
  <2> QED BY <2>1, <2>2, <2>3
<1> QED BY <1>7, <1>8, <1>9 DEF ProxyInv

\* A step of the route that leaves its log as it should be.
LEMMA RouteGoesOn ==
  ASSUME ProxyInv, NEW c \in Calls, NEW a \in Attempts, NEW r \in RouteType,
         route[c][a].state \in {"arrived", "trying"}, UNCHANGED call,
         Logged(r, Len(Candidates(call[c].network))), route' = [route EXCEPT ![c][a] = r]
  PROVE  ProxyInv'
<1>1. CallTypes'
  BY DEF ProxyInv, CallTypes
<1>2. \A d \in Calls : HeardOf(d)'
  BY DEF ProxyInv, HeardOf
<1>3. ASSUME NEW d \in Calls, NEW b \in Attempts
      PROVE  /\ Logged(route[d][b], Len(Candidates(call[d].network)))'
             /\ (b > call[d].attempt => route[d][b].state = "none")'
  <2>0. /\ Logged(route[d][b], Len(Candidates(call[d].network)))
        /\ b > call[d].attempt => route[d][b].state = "none"
    BY DEF ProxyInv
  <2>1. CASE d = c /\ b = a
    <3>1. route'[d][b] = r
      BY <2>1 DEF ProxyInv, CallTypes
    <3> QED BY <2>0, <2>1, <3>1 DEF Logged
  <2>2. CASE ~ (d = c /\ b = a)
    <3>1. route'[d][b] = route[d][b]
      BY <2>2 DEF ProxyInv, CallTypes
    <3> QED BY <2>0, <3>1 DEF Logged
  <2> QED BY <2>1, <2>2
<1> QED BY <1>1, <1>2, <1>3 DEF ProxyInv

\* A request turned away is answered with what is no failure of an origin.
LEMMA TurnedAwayKeeps ==
  ASSUME ProxyInv, NEW c \in Calls, NEW a \in Attempts, NEW answer \in Answers,
         TurnedAway(c, a, answer)
  PROVE  ProxyInv'
<1> DEFINE r == [state |-> "answered", log |-> <<answer>>]
<1>1. answer \notin Failures
  BY DEF TurnedAway, Limited, Failures
<1>2. r \in RouteType /\ Logged(r, Len(Candidates(call[c].network)))
  BY <1>1 DEF RouteType, Logged
<1> QED BY <1>2, RouteGoesOn DEF TurnedAway

\* An exchange with an origin: the log stays one of failures as long as the route goes on.
LEMMA ExchangeKeeps ==
  ASSUME ProxyAssumption, ProxyInv, NEW c \in Calls, NEW a \in Attempts,
         NEW outcome \in Decisive \cup Failures, Exchange(c, a, outcome)
  PROVE  ProxyInv'
<1> DEFINE log == route[c][a].log
           n == Len(Candidates(call[c].network))
           fails == FailsOver(c, Len(log) + 1, outcome)
           r == [state |-> IF fails THEN "trying" ELSE "answered", log |-> Append(log, outcome)]
<1>1. /\ route[c][a] \in RouteType /\ route[c][a].state \in {"arrived", "trying"}
      /\ log \in Seq(Answers) /\ outcome \in Answers /\ Logged(route[c][a], n)
      /\ n \in Nat /\ n >= 1
  BY Lists DEF ProxyInv, CallTypes, RouteType, CallType, Exchange, Answers
<1>2. /\ Len(log) \in Nat /\ Len(log) < n
      /\ \A m \in 1..Len(log) : log[m] \in Failures
  BY <1>1 DEF Logged
<1>3. fails <=> outcome \in Failures /\ ~ (Len(log) + 1 >= n)
  BY DEF FailsOver, LastOrigin
<1>4. route' = [route EXCEPT ![c][a] = r] /\ UNCHANGED call
  BY DEF Exchange, Tried
<1> HIDE DEF log, n, fails
<1>5. /\ r.log \in Seq(Answers) /\ Len(r.log) = Len(log) + 1 /\ r.log[Len(log) + 1] = outcome
      /\ \A m \in 1..Len(log) : r.log[m] = log[m]
      /\ r.state = IF fails THEN "trying" ELSE "answered"
  BY <1>1
<1>6. r \in RouteType
  BY <1>5 DEF RouteType
<1> HIDE DEF r
<1>7. outcome \in Failures => \A m \in 1..Len(r.log) : r.log[m] \in Failures
  <2> SUFFICES ASSUME outcome \in Failures, NEW m \in 1..Len(r.log) PROVE r.log[m] \in Failures
    OBVIOUS
  <2>1. m \in 1..Len(log) \/ m = Len(log) + 1
    BY <1>2, <1>5
  <2> QED BY <1>2, <1>5, <2>1
<1>8. Logged(r, n)
  BY <1>1, <1>2, <1>3, <1>5, <1>7 DEF Logged
<1> QED BY <1>1, <1>4, <1>6, <1>8, RouteGoesOn DEF n

\* The browser takes an answer, or the news that its connection broke.
LEMMA TookKeeps ==
  ASSUME ProxyInv, NEW c \in Calls, NEW answer \in Answers \cup Breaks,
         call[c].state = "waiting", Took(c, answer), UNCHANGED route
  PROVE  ProxyInv'
<1> DEFINE again == MayRetry(c) /\ Retryable(answer)
           new == [call[c] EXCEPT !.state = IF again THEN "pausing" ELSE "settled",
                                  !.got = Append(@, answer)]
<1>1. call[c] \in CallType /\ HeardOf(c) /\ call[c].got \in Seq(Answers \cup Breaks)
  BY DEF ProxyInv, CallTypes, CallType
<1>2. /\ call[c].attempt \in 1..2 /\ Len(call[c].got) = call[c].attempt - 1
      /\ call[c].attempt = 2 => Retryable(call[c].got[1])
  BY <1>1 DEF HeardOf
<1>3. /\ new \in CallType /\ new.attempt = call[c].attempt /\ new.network = call[c].network
      /\ new.state = IF again THEN "pausing" ELSE "settled"
      /\ new.got = Append(call[c].got, answer)
  <2> DEFINE more == Append(call[c].got, answer)
             state == IF again THEN "pausing" ELSE "settled"
  <2>1. more \in Seq(Answers \cup Breaks) /\ state \in {"pausing", "settled"}
    BY <1>1
  <2>2. new = [call[c] EXCEPT !.state = state, !.got = more]
    OBVIOUS
  <2> HIDE DEF more, state, again, new
  <2>3. /\ new \in CallType /\ new.attempt = call[c].attempt /\ new.network = call[c].network
        /\ new.state = state /\ new.got = more
    BY <1>1, <2>1, <2>2 DEF CallType
  <2> QED BY <2>3 DEF more, state
<1>4. call' = [call EXCEPT ![c] = new]
  BY DEF Took
<1>5. again => call[c].attempt = 1 /\ Retryable(answer)
  BY DEF MayRetry
<1> HIDE DEF new, again
<1>6. /\ Len(new.got) = call[c].attempt
      /\ new.got[1] = IF call[c].attempt = 1 THEN answer ELSE call[c].got[1]
  BY <1>1, <1>2, <1>3
<1>7. CallTypes'
  BY <1>3, <1>4 DEF ProxyInv, CallTypes
<1>8. ASSUME NEW d \in Calls PROVE HeardOf(d)'
  <2>1. CASE d = c
    <3>1. call'[d] = new
      BY <1>4, <2>1 DEF ProxyInv, CallTypes
    <3>2. CASE again
      <4>1. call'[d].state = "pausing" /\ call'[d].attempt = 1 /\ Len(call'[d].got) = 1
            /\ Retryable(call'[d].got[1])
        BY <1>3, <1>5, <1>6, <3>1, <3>2
      <4> QED BY <4>1 DEF HeardOf
    <3>3. CASE ~ again
      <4>1. /\ call'[d].state = "settled" /\ call'[d].attempt \in 1..2 /\ Len(call'[d].got) >= 1
            /\ call'[d].attempt = 2 => Retryable(call'[d].got[1])
        <5>1. CASE call[c].attempt = 1
          BY <1>3, <1>6, <3>1, <3>3, <5>1
        <5>2. CASE call[c].attempt = 2
          BY <1>2, <1>3, <1>6, <3>1, <3>3, <5>2
        <5> QED BY <1>2, <5>1, <5>2
      <4> QED BY <4>1 DEF HeardOf
    <3> QED BY <3>2, <3>3
  <2>2. CASE d # c
    BY <1>4, <2>2 DEF ProxyInv, CallTypes, HeardOf
  <2> QED BY <2>1, <2>2
<1>9. ASSUME NEW d \in Calls PROVE call'[d].attempt = call[d].attempt /\ call'[d].network = call[d].network
  BY <1>3, <1>4 DEF ProxyInv, CallTypes
<1> QED BY <1>7, <1>8, <1>9 DEF ProxyInv, Logged

\* Every step keeps what the states of calls and routes tell.
LEMMA ProxyHolds == ProxyAssumption => (ProxySpec => []ProxyInv)
<1> SUFFICES ASSUME ProxyAssumption PROVE ProxySpec => []ProxyInv
  OBVIOUS
<1>1. ProxyInit => ProxyInv
  BY ProxyInitOK
<1>2. ProxyInv /\ [ProxyNext]_proxyVars => ProxyInv'
  <2> SUFFICES ASSUME ProxyInv, [ProxyNext]_proxyVars PROVE ProxyInv'
    OBVIOUS
  <2>1. ASSUME NEW c \in Calls, Send(c) PROVE ProxyInv'
    BY <2>1, SendKeeps
  <2>2. ASSUME NEW c \in Calls, NEW a \in Attempts, NEW answer \in Answers, TurnedAway(c, a, answer)
        PROVE  ProxyInv'
    BY <2>2, TurnedAwayKeeps
  <2>3. ASSUME NEW c \in Calls, NEW a \in Attempts, NEW outcome \in Decisive \cup Failures,
               Exchange(c, a, outcome)
        PROVE  ProxyInv'
    BY <2>3, ExchangeKeeps
  <2>4. ASSUME NEW c \in Calls, Receive(c) PROVE ProxyInv'
    <3> DEFINE log == route[c][call[c].attempt].log
    <3>1. call[c].attempt \in Attempts /\ call[c].state = "waiting"
      BY <2>4 DEF Receive, ProxyInv, HeardOf, Attempts
    <3>2. log \in Seq(Answers) /\ Len(log) >= 1
      BY <2>4, <3>1 DEF Receive, ProxyInv, CallTypes, RouteType, Logged
    <3>3. Last(log) \in Answers
      BY <3>2 DEF Last
    <3> QED BY <2>4, <3>1, <3>3, TookKeeps DEF Receive
  <2>5. ASSUME NEW c \in Calls, NEW how \in Breaks, Lose(c, how) PROVE ProxyInv'
    BY <2>5, TookKeeps DEF Lose
  <2>6. CASE UNCHANGED proxyVars
    BY <2>6 DEF proxyVars, ProxyInv, CallTypes, HeardOf, Logged
  <2> QED BY <2>1, <2>2, <2>3, <2>4, <2>5, <2>6 DEF ProxyNext
<1> QED BY <1>1, <1>2, PTL DEF ProxySpec

\* Failing over is exhaustive, for any list of origins with any repeats and blanks: a failure
\* that is reported is one of every configured origin (app/api/rpc/route.ts:89-231).
THEOREM Exhaustive == ProxyAssumption => (ProxySpec => []FailureMeansAllFailed)
<1> SUFFICES ASSUME ProxyAssumption PROVE ProxySpec => []FailureMeansAllFailed
  OBVIOUS
<1>1. ProxyInv => FailureMeansAllFailed
  <2> SUFFICES ASSUME ProxyInv, NEW c \in Calls, NEW a \in Attempts,
                      route[c][a].state = "answered", Last(route[c][a].log) \in Failures
               PROVE  /\ Len(route[c][a].log) = Cardinality(Configured(call[c].network))
                      /\ ToSet(route[c][a].log) \subseteq Failures
    BY DEF FailureMeansAllFailed, Configured
  <2>1. /\ call[c].network \in Networks /\ route[c][a].log \in Seq(Answers)
        /\ Logged(route[c][a], Len(Candidates(call[c].network)))
    BY DEF ProxyInv, CallTypes, CallType, RouteType
  <2>2. /\ Len(route[c][a].log) = Len(Candidates(call[c].network))
        /\ \A m \in 1..Len(route[c][a].log) : route[c][a].log[m] \in Failures
    BY <2>1 DEF Logged, Last
  <2> QED BY <2>1, <2>2, Lists DEF ToSet
<1> QED BY <1>1, ProxyHolds, PTL

\* A call is repeated only if nothing was learnt from its first attempt (lib/rpc-client.ts:23-34).
THEOREM RepeatsInTheDark == ProxyAssumption => (ProxySpec => []RepeatsOnlyWhenInTheDark)
<1> SUFFICES ASSUME ProxyAssumption PROVE ProxySpec => []RepeatsOnlyWhenInTheDark
  OBVIOUS
<1>1. ProxyInv => RepeatsOnlyWhenInTheDark
  BY DEF ProxyInv, HeardOf, Retryable, RepeatsOnlyWhenInTheDark
<1> QED BY <1>1, ProxyHolds, PTL
=============================================================================
