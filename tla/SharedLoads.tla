---------------------------- MODULE SharedLoads ----------------------------
(***************************************************************************)
(* What a TTL promise cache promises its callers, with no cache in sight   *)
(* (src/src/lib/rpc-cache.ts, header comment and cachedRpc).  A caller     *)
(* that asks for a key is attached to one load of that key: either one     *)
(* that somebody began earlier, as long as it has not failed and its       *)
(* lifetime has not run out, or one begun for it now.  RpcCache decides    *)
(* which; here both are allowed.                                           *)
(***************************************************************************)
EXTENDS Naturals

CONSTANTS
  Keys,      \* cache keys: "<rpc base url>:<method>:<arguments>"
  Callers,   \* asynchronous calls of cachedRpc
  Ttls,      \* lifetimes callers ask for, in ticks
  MaxLoads,  \* bound: loads begun in a behaviour
  MaxTime    \* bound: ticks of the clock

VARIABLES
  now,       \* Date.now()
  started,   \* loads begun so far; load ids are 1..started
  load,      \* load[l]: the promise of load l and what it was begun for
  waiting,   \* waiting[c]: the load caller c awaits, 0 when it awaits none
  calledAt   \* calledAt[c]: when c asked for what it awaits (history)

sharedVars == <<now, started, load, waiting, calledAt>>

Status == {"pending", "ok", "failed"}

Loads == [key: Keys, start: Nat, expiresAt: Nat, status: Status, sampledAt: Nat]

Init ==
  /\ now = 0
  /\ started = 0
  /\ load = [l \in 1..started |-> 0]
  /\ waiting = [c \in Callers |-> 0]
  /\ calledAt = [c \in Callers |-> 0]

\* Caller c is attached to load l at this instant.
Attach(c, l) ==
  /\ waiting[c] = 0
  /\ waiting' = [waiting EXCEPT ![c] = l]
  /\ calledAt' = [calledAt EXCEPT ![c] = now]

\* A new load of key k, alive for ttl ticks from now on.
Begin(k, ttl) ==
  /\ started < MaxLoads
  /\ started' = started + 1
  /\ load' = [l \in 1..(started + 1) |->
                IF l \in 1..started THEN load[l]
                ELSE [key |-> k, start |-> now, expiresAt |-> now + ttl,
                      status |-> "pending", sampledAt |-> now]]

Joinable(l, k) ==
  /\ load[l].key = k
  /\ load[l].status # "failed"
  /\ load[l].expiresAt > now

Join(c, k) ==
  /\ \E l \in 1..started : Joinable(l, k) /\ Attach(c, l)
  /\ UNCHANGED <<now, started, load>>

Start(c, k, ttl) ==
  /\ Begin(k, ttl)
  /\ Attach(c, started + 1)
  /\ UNCHANGED now

\* The answer of load l arrives; the node read its state at some instant since the start.
Answer(l, s) ==
  /\ load[l].status = "pending"
  /\ load' = [load EXCEPT ![l].status = "ok", ![l].sampledAt = s]

Fail(l) ==
  /\ load[l].status = "pending"
  /\ load' = [load EXCEPT ![l].status = "failed"]

Settle(l) ==
  /\ \/ \E s \in load[l].start..now : Answer(l, s)
     \/ Fail(l)
  /\ UNCHANGED <<now, started, waiting, calledAt>>

\* The await of caller c is over: the promise it holds has settled.
Resume(c) ==
  /\ waiting[c] # 0
  /\ load[waiting[c]].status # "pending"
  /\ waiting' = [waiting EXCEPT ![c] = 0]
  /\ calledAt' = [calledAt EXCEPT ![c] = 0]
  /\ UNCHANGED <<now, started, load>>

Tick ==
  /\ now < MaxTime
  /\ now' = now + 1
  /\ UNCHANGED <<started, load, waiting, calledAt>>

Next ==
  \/ \E c \in Callers, k \in Keys : Join(c, k)
  \/ \E c \in Callers, k \in Keys, ttl \in Ttls : Start(c, k, ttl)
  \/ \E l \in 1..started : Settle(l)
  \/ \E c \in Callers : Resume(c)
  \/ Tick

Spec == Init /\ [][Next]_sharedVars

=============================================================================
