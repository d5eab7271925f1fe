------------------------------ MODULE RpcCache ------------------------------
(***************************************************************************)
(* The in-memory promise cache of src/src/lib/rpc-cache.ts.  It is a Map   *)
(* from a key to an expiry time and a promise.  A stale entry is deleted   *)
(* before its successor is set, so the Map's insertion order is the order  *)
(* in which the loads began: the id of a load is its place in the Map.     *)
(* Each synchronous stretch of code is one action; loads of several        *)
(* callers settle in any order and at any time, also after the entry that  *)
(* held them expired, was evicted or was replaced.                         *)
(***************************************************************************)
EXTENDS SharedLoads, FiniteSets

CONSTANT MaxEntries   \* RPC_CACHE_MAX_ENTRIES

ASSUME CacheAssumption ==
  /\ MaxEntries \in Nat \ {0}
  /\ MaxLoads \in Nat
  /\ MaxTime \in Nat
  /\ Ttls \subseteq Nat \ {0}
  /\ IsFiniteSet(Keys)

VARIABLES
  entry,     \* entry[k]: the load whose promise rpcCache holds under k, 0 for none
  dropped    \* loads the size cap or clearRpcCache took out of the Map (history)

vars == <<sharedVars, entry, dropped>>

Cached == {k \in Keys : entry[k] # 0}

\* `cached && cached.expiresAt > now`
Live(k) == entry[k] # 0 /\ load[entry[k]].expiresAt > now

CacheInit ==
  /\ Init
  /\ entry = [k \in Keys |-> 0]
  /\ dropped = {}

-----------------------------------------------------------------------------
\* evictIfNeeded, given the keys present: kept is what it leaves in the Map.
\* Below the cap nothing goes; else the expired go first, then the oldest.
EvictExpiredOnly(present, kept) ==
  kept =
    IF Cardinality(present) < MaxEntries THEN present
    ELSE {k \in present : load[entry[k]].expiresAt > now}

EvictAny(present, kept) ==
  IF Cardinality(present) < MaxEntries THEN kept = present
  ELSE kept \subseteq present /\ Cardinality(kept) = MaxEntries - 1

EvictIfNeeded(present, kept) ==
  LET live == {k \in present : load[entry[k]].expiresAt > now}
  IN  IF Cardinality(present) < MaxEntries THEN kept = present
      ELSE IF Cardinality(live) < MaxEntries THEN kept = live
      ELSE /\ kept \subseteq live
           /\ Cardinality(kept) = MaxEntries - 1
           /\ \A j \in kept, i \in live \ kept : entry[i] < entry[j]

\* The caller shares the promise in the Map ...
Share(c, k) ==
  /\ entry[k] # 0
  /\ Attach(c, entry[k])
  /\ UNCHANGED <<now, started, load, entry, dropped>>

\* ... which cachedRpc does as long as the entry has not expired.
Hit(c, k) == Live(k) /\ Share(c, k)

\* Drop the stale entry of k if there is one, evict, insert the newest load.
InsertNewest(k) ==
  \E kept \in SUBSET (Cached \ {k}) :
    /\ EvictIfNeeded(Cached \ {k}, kept)
    /\ entry' = [j \in Keys |-> IF j = k THEN started + 1
                                ELSE IF j \in kept THEN entry[j] ELSE 0]
    /\ dropped' = dropped \cup {entry[j] : j \in (Cached \ {k}) \ kept}

StartLoad(c, k, ttl) ==
  /\ Begin(k, ttl)
  /\ Attach(c, started + 1)
  /\ InsertNewest(k)
  /\ UNCHANGED now

\* cachedRpc otherwise: a new load.
MissInsertingFirst(c, k, ttl) ==
  ~ Live(k) /\ started < MaxLoads /\ InsertNewest(k) /\ UNCHANGED sharedVars

Miss(c, k, ttl) == ~ Live(k) /\ StartLoad(c, k, ttl)

\* The loader's promise is fulfilled: the entry, if any, stays.
Resolve(l, s) ==
  /\ Answer(l, s)
  /\ UNCHANGED <<now, started, waiting, calledAt, entry, dropped>>

\* The loader's promise is rejected: its catch handler drops the entry only if
\* the Map still holds this very promise, and rethrows to every waiter.
RejectKeepingEntry(l) ==
  /\ Fail(l)
  /\ UNCHANGED <<now, started, waiting, calledAt, entry, dropped>>

RejectDroppingKey(l) ==
  /\ Fail(l)
  /\ entry' = [entry EXCEPT ![load[l].key] = 0]
  /\ UNCHANGED <<now, started, waiting, calledAt, dropped>>

Reject(l) ==
  /\ Fail(l)
  /\ entry' = [entry EXCEPT ![load[l].key] = IF @ = l THEN 0 ELSE @]
  /\ UNCHANGED <<now, started, waiting, calledAt, dropped>>

\* clearRpcCache: promises already handed out keep running.
Clear ==
  /\ entry' = [k \in Keys |-> 0]
  /\ dropped' = dropped \cup {entry[k] : k \in Cached}
  /\ UNCHANGED sharedVars

\* A caller resumes, whether its promise was fulfilled or rejected.
CacheResume(c) == Resume(c) /\ UNCHANGED <<entry, dropped>>

CacheTick == Tick /\ UNCHANGED <<entry, dropped>>

CacheNext ==
  \/ \E c \in Callers, k \in Keys : Hit(c, k)
  \/ \E c \in Callers, k \in Keys, ttl \in Ttls : Miss(c, k, ttl)
  \/ \E l \in 1..started : \E s \in load[l].start..now : Resolve(l, s)
  \/ \E l \in 1..started : Reject(l)
  \/ \E c \in Callers : CacheResume(c)
  \/ Clear
  \/ CacheTick

CacheSpec == CacheInit /\ [][CacheNext]_vars

-----------------------------------------------------------------------------
\* Types of the variables; history included.
TypeOK ==
  /\ now \in 0..MaxTime
  /\ started \in 0..MaxLoads
  /\ load \in [1..started -> Loads]
  /\ waiting \in [Callers -> 0..started]
  /\ calledAt \in [Callers -> Nat]
  /\ entry \in [Keys -> 0..started]
  /\ dropped \subseteq 1..started

\* Memory is bounded: whatever is asked for and however loads end, the Map never
\* holds more than RPC_CACHE_MAX_ENTRIES entries (rpc-cache.ts:3, evictIfNeeded).
SizeBounded == Cardinality(Cached) <= MaxEntries

\* A failure is not cached: no key of the Map holds a rejected promise, nor the
\* promise of another key (the catch handler of cachedRpc).
NoFailureCached ==
  \A k \in Cached : load[entry[k]].key = k /\ load[entry[k]].status # "failed"

\* An answer is never older than the lifetime it was loaded with, counted back from
\* the moment its caller asked, however long the load itself took.
FreshWhenAsked ==
  \A c \in Callers :
    (waiting[c] # 0 /\ load[waiting[c]].status = "ok") =>
      LET l == load[waiting[c]]
      IN  calledAt[c] < l.sampledAt + (l.expiresAt - l.start)

Alive(l) == load[l].status # "failed" /\ load[l].expiresAt > now

\* Load times are in order, and a caller asked before its load's lifetime was over.
LoadTimes ==
  \A l \in 1..started :
    load[l].start <= load[l].sampledAt /\ load[l].start < load[l].expiresAt

AskedInTime ==
  \A c \in Callers :
    waiting[c] # 0 => calledAt[c] < load[waiting[c]].expiresAt

\* A load that is still alive and was not thrown out is the one its key finds.
AliveIsFound ==
  \A l \in 1..started : (Alive(l) /\ l \notin dropped) => entry[load[l].key] = l

\* The inductive invariant: what the steps of the cache preserve together, and what
\* the bound, the freshness and the deduplication of cachedRpc rest on.
IInv ==
  /\ TypeOK
  /\ SizeBounded
  /\ NoFailureCached
  /\ LoadTimes
  /\ AskedInTime
  /\ AliveIsFound

\* Concurrent callers dedupe: a second load of a key begins while an earlier one is
\* still alive only if the cap or a clear had thrown the earlier one out.
SingleFlightStep ==
  started' # started =>
    \A l \in 1..started :
      (load[l].key = load'[started'].key /\ Alive(l)) => l \in dropped

SingleFlight == [][SingleFlightStep]_vars

\* A newer load survives an older one's failure: when a load fails, at most its own
\* entry leaves the Map (comment at rpc-cache.ts:37).
OnlyOwnEntryDroppedStep ==
  \A l \in 1..started :
    (load[l].status # "failed" /\ load'[l].status = "failed") =>
      \A k \in Keys : entry[k] # l => entry'[k] = entry[k]

OnlyOwnEntryDropped == [][OnlyOwnEntryDroppedStep]_vars

\* The cap evicts in order: when a new load throws out an entry that was still
\* alive, nothing that stays is expired or was inserted earlier.
EvictionOrderStep ==
  started' # started =>
    \A i \in Cached, j \in Cached :
      (Live(i) /\ entry'[i] = 0 /\ entry'[j] = entry[j]) =>
        Live(j) /\ entry[i] < entry[j]

EvictionOrder == [][EvictionOrderStep]_vars

\* The cache implements the abstract sharing of loads.
Abstract == INSTANCE SharedLoads WITH
              now <- now, started <- started, load <- load, waiting <- waiting, calledAt <- calledAt
ImplementsSharedLoads == Abstract!Spec

=============================================================================
