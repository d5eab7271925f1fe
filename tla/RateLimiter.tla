---------------------------- MODULE RateLimiter ----------------------------
(***************************************************************************)
(* The limiter in front of /api/*: src/src/lib/rate-limit.ts, called by    *)
(* src/src/middleware.ts.  Each isolate counts the requests of a client    *)
(* and rule in fixed windows, in a Map of bounded size; what it admits, a  *)
(* binding shared by all isolates of a colo may still refuse.  The binding *)
(* answers after an await, so requests overlap; isolates come and go.      *)
(***************************************************************************)
EXTENDS Naturals, FiniteSets

CONSTANTS
  Isolates,      \* isolates serving the app at the same time
  Keys,          \* "<rule>:<client>" keys of one rule
  Requests,      \* requests in flight
  Limit,         \* rule.limit
  Window,        \* rule.windowSec
  MaxEntries,    \* capacity of an isolate's Map (5000)
  DropCount,     \* entries a full Map of live windows gives up (a tenth, rounded up)
  HasBinding,    \* is a Rate Limiting binding declared?
  BindingLimit,  \* the fixed limit of that binding, per Window
  MaxTime,       \* bound: ticks of the clock
  MaxChecks      \* bound: requests of a behaviour

ASSUME LimiterAssumption ==
  /\ IsFiniteSet(Keys)
  /\ Limit \in Nat \ {0} /\ Window \in Nat \ {0} /\ BindingLimit \in Nat \ {0}
  /\ MaxEntries \in Nat \ {0} /\ DropCount \in 1..MaxEntries
  /\ HasBinding \in BOOLEAN
  /\ MaxTime \in Nat /\ MaxChecks \in Nat

VARIABLES
  now,       \* Date.now()
  entries,   \* entries[i][k]: place in the Map (0 when absent), count and resetAt
  req,       \* req[r]: where request r is, and for which isolate and key
  binding,   \* binding[k]: the colo's counter, used until its window ends (external)
  checks,    \* requests so far (bound); also the last place given out in any Map
  asked,     \* asked[i][k]: the requests that isolate i counted, as <<tick, number>> (history)
  admitted,  \* admitted[i][k]: those that its Map admitted, numbered likewise (history)
  forgotten, \* isolates and keys whose live window was lost (history)
  passed,    \* passed[k]: requests let through in the binding's window (history)
  threw      \* has the binding ever failed? (history)

history == <<asked, admitted, forgotten>>
vars == <<now, entries, req, binding, checks, history, passed, threw>>

None == [at |-> 0, count |-> 0, resetAt |-> 0]
Idle == [state |-> "idle"]

Init ==
  /\ now = 0
  /\ entries = [i \in Isolates |-> [k \in Keys |-> None]]
  /\ req = [r \in Requests |-> Idle]
  /\ binding = [k \in Keys |-> [used |-> 0, until |-> 0]]
  /\ checks = 0
  /\ asked = [i \in Isolates |-> [k \in Keys |-> {}]]
  /\ admitted = asked
  /\ forgotten = {}
  /\ passed = [k \in Keys |-> 0]
  /\ threw = FALSE

-----------------------------------------------------------------------------
Present(i) == {k \in Keys : entries[i][k].at # 0}

Expired(i, k) == entries[i][k].resetAt <= now

\* prune: kept is what it leaves.  Nothing goes while there is room; else expired
\* windows go, and if that made no room the DropCount oldest insertions go too.
PruneExpired(i, kept) ==
  kept = IF Cardinality(Present(i)) < MaxEntries THEN Present(i)
         ELSE {k \in Present(i) : ~ Expired(i, k)}

Prune(i, kept) ==
  LET open == {k \in Present(i) : ~ Expired(i, k)}
  IN  IF Cardinality(Present(i)) < MaxEntries THEN kept = Present(i)
      ELSE IF Cardinality(open) < MaxEntries THEN kept = open
      ELSE /\ kept \subseteq open
           /\ Cardinality(kept) = Cardinality(open) - DropCount
           /\ \A j \in kept, d \in open \ kept : entries[i][d].at < entries[i][j].at

\* check, the window of k being open: one more request in it.
CountInWindow(i, k) ==
  /\ entries[i][k].at # 0 /\ ~ Expired(i, k)
  /\ entries' = [entries EXCEPT ![i][k].count = @ + 1]
  /\ UNCHANGED forgotten

\* check, no window of k being open: prune, then open one.  Map.set leaves a key that
\* is still there at its place and puts any other key last.
OpenWindowKeepingCount(i, k) ==
  /\ entries[i][k].at = 0 \/ Expired(i, k)
  /\ \E kept \in SUBSET Present(i) :
       /\ Prune(i, kept)
       /\ entries' = [entries EXCEPT ![i] = [j \in Keys |->
            IF j = k THEN [at |-> IF k \in kept THEN entries[i][k].at ELSE checks + 1,
                           count |-> entries[i][k].count + 1, resetAt |-> now + Window]
            ELSE IF j \in kept THEN entries[i][j] ELSE None]]
       /\ forgotten' = forgotten \cup
            {<<i, j>> : j \in {d \in Present(i) \ kept : ~ Expired(i, d)}}

OpenWindow(i, k) ==
  /\ entries[i][k].at = 0 \/ Expired(i, k)
  /\ \E kept \in SUBSET Present(i) :
       /\ Prune(i, kept)
       /\ entries' = [entries EXCEPT ![i] = [j \in Keys |->
            IF j = k THEN [at |-> IF k \in kept THEN entries[i][k].at ELSE checks + 1,
                           count |-> 1, resetAt |-> now + Window]
            ELSE IF j \in kept THEN entries[i][j] ELSE None]]
       /\ forgotten' = forgotten \cup
            {<<i, j>> : j \in {d \in Present(i) \ kept : ~ Expired(i, d)}}

\* `e.count <= rule.limit`, of the entry the check leaves behind
AdmitsAny(i, k) == TRUE

Admits(i, k) == entries'[i][k].count <= Limit

\* One more request in a log.
Noted(log) == log \cup {<<now, Cardinality(log) + 1>>}

\* applyRateLimit up to its await: the Map decides first, and only what it admits is
\* shown to the binding.
Arrive(r, i, k) ==
  /\ req[r] = Idle
  /\ checks < MaxChecks
  /\ checks' = checks + 1
  /\ CountInWindow(i, k) \/ OpenWindow(i, k)
  /\ asked' = [asked EXCEPT ![i][k] = Noted(@)]
  /\ LET verdict == IF ~ Admits(i, k) THEN "denied"
                    ELSE IF HasBinding THEN "awaiting" ELSE "allowed"
     IN  /\ req' = [req EXCEPT ![r] = [state |-> verdict, isolate |-> i, key |-> k,
                                       refused |-> FALSE]]
         /\ admitted' = IF verdict = "denied" THEN admitted
                        ELSE [admitted EXCEPT ![i][k] = Noted(@)]
  /\ UNCHANGED <<now, binding, passed, threw>>

\* The binding counts the request in its own window and answers (external).
BindingFresh(k) == binding[k].until <= now

BindingAdmits(r) ==
  LET k == req[r].key
      used == IF BindingFresh(k) THEN 0 ELSE binding[k].used
  IN  /\ req[r].state = "awaiting"
      /\ used < BindingLimit
      /\ binding' = [binding EXCEPT ![k] =
                       [used |-> used + 1,
                        until |-> IF BindingFresh(k) THEN now + Window ELSE @.until]]
      /\ passed' = [passed EXCEPT ![k] = (IF BindingFresh(k) THEN 0 ELSE @) + 1]
      /\ req' = [req EXCEPT ![r].state = "allowed"]
      /\ UNCHANGED <<now, entries, checks, history, threw>>

\* `!r.success`: the request is refused after all.
BindingRefusesIgnored(r) ==
  LET k == req[r].key
  IN  /\ req[r].state = "awaiting"
      /\ ~ BindingFresh(k) /\ binding[k].used >= BindingLimit
      /\ passed' = [passed EXCEPT ![k] = @ + 1]
      /\ req' = [req EXCEPT ![r].state = "allowed"]
      /\ UNCHANGED <<now, entries, binding, checks, history, threw>>

BindingRefuses(r) ==
  LET k == req[r].key
  IN  /\ req[r].state = "awaiting"
      /\ ~ BindingFresh(k) /\ binding[k].used >= BindingLimit
      /\ req' = [req EXCEPT ![r].state = "denied", ![r].refused = TRUE]
      /\ UNCHANGED <<now, entries, binding, checks, history, passed, threw>>

\* The binding's promise is rejected: what the Map admitted stays admitted.
BindingThrowsDenied(r) ==
  /\ req[r].state = "awaiting"
  /\ threw' = TRUE
  /\ req' = [req EXCEPT ![r].state = "denied"]
  /\ UNCHANGED <<now, entries, binding, checks, history, passed>>

BindingThrowsUncaught(r) ==
  /\ req[r].state = "awaiting"
  /\ threw' = TRUE
  /\ req' = [req EXCEPT ![r].state = "crashed"]
  /\ UNCHANGED <<now, entries, binding, checks, history, passed>>

BindingThrows(r) ==
  /\ req[r].state = "awaiting"
  /\ threw' = TRUE
  /\ passed' = [passed EXCEPT ![req[r].key] = @ + 1]
  /\ req' = [req EXCEPT ![r].state = "allowed"]
  /\ UNCHANGED <<now, entries, binding, checks, history>>

\* The response (or the 429) leaves the middleware.
Respond(r) ==
  /\ req[r].state \in {"allowed", "denied"}
  /\ req' = [req EXCEPT ![r] = Idle]
  /\ UNCHANGED <<now, entries, binding, checks, history, passed, threw>>

\* An idle isolate is evicted and replaced by a fresh one.
Recycle(i) ==
  /\ Present(i) # {}
  /\ \A r \in Requests : req[r] # Idle => req[r].isolate # i
  /\ entries' = [entries EXCEPT ![i] = [k \in Keys |-> None]]
  /\ forgotten' = forgotten \cup {<<i, k>> : k \in Present(i)}
  /\ UNCHANGED <<now, req, binding, checks, asked, admitted, passed, threw>>

Tick ==
  /\ now < MaxTime
  /\ now' = now + 1
  /\ UNCHANGED <<entries, req, binding, checks, history, passed, threw>>

Next ==
  \/ \E r \in Requests, i \in Isolates, k \in Keys : Arrive(r, i, k)
  \/ \E r \in Requests : BindingAdmits(r)
  \/ \E r \in Requests : BindingRefuses(r)
  \/ \E r \in Requests : BindingThrows(r)
  \/ \E r \in Requests : Respond(r)
  \/ \E i \in Isolates : Recycle(i)
  \/ Tick

Spec == Init /\ [][Next]_vars

-----------------------------------------------------------------------------
States == {"awaiting", "allowed", "denied"}

\* Types of the variables; a log has as many requests as were noted.
Logs == {log \in SUBSET ((0..MaxTime) \X Nat) : IsFiniteSet(log) /\ \A e \in log : e[2] <= Cardinality(log)}

TypeOK ==
  /\ now \in 0..MaxTime
  /\ checks \in 0..MaxChecks
  /\ entries \in [Isolates -> [Keys -> [at: 0..checks, count: Nat, resetAt: Nat]]]
  /\ req \in [Requests -> {Idle} \cup
       [state: States, isolate: Isolates, key: Keys, refused: BOOLEAN]]
  /\ binding \in [Keys -> [used: 0..BindingLimit, until: Nat]]
  /\ asked \in [Isolates -> [Keys -> Logs]] /\ admitted \in [Isolates -> [Keys -> Logs]]
  /\ forgotten \subseteq Isolates \X Keys
  /\ passed \in [Keys -> Nat]
  /\ threw \in BOOLEAN

\* No flood of distinct clients grows an isolate's Map beyond its capacity
\* (rate-limit.ts:110-124).
SizeBounded == \A i \in Isolates : Cardinality(Present(i)) <= MaxEntries

\* Requests that a log counts in the span of Window ticks that ends with tick t.
InSpan(log, t) == Cardinality({e \in log : e[1] <= t /\ t < e[1] + Window})

\* Fixed windows let through more than the limit around their border, but never twice
\* the limit: the request that opened the earlier window lies before the span.  Only a
\* client whose live window was pruned or lost with its isolate can do better.
BurstBound ==
  \A i \in Isolates, k \in Keys, t \in 0..MaxTime :
    <<i, k>> \notin forgotten => InSpan(admitted[i][k], t) < 2 * Limit

\* A client is refused only for what it did itself: it asked this isolate more than
\* Limit times within the last Window, or a working binding refused it.  Other
\* clients, pruning and a failing binding never refuse anybody.
DenialJustifiedStep ==
  \A r \in Requests :
    (req[r].state # "denied" /\ req'[r].state = "denied") =>
      \/ req'[r].refused
      \/ InSpan(asked'[req'[r].isolate][req'[r].key], now) > Limit

DenialJustified == [][DenialJustifiedStep]_vars

\* With a binding that works, all isolates together let through at most its limit in
\* each of its windows ("the authoritative ceiling", rate-limit.ts:8).
GlobalCeiling ==
  (HasBinding /\ ~ threw) => \A k \in Keys : passed[k] <= BindingLimit

=============================================================================
