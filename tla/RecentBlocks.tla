---------------------------- MODULE RecentBlocks ----------------------------
(***************************************************************************)
(* One call of fetchRecentBlocks (src/src/lib/rpc-methods.ts): it reads    *)
(* the tip and fetches the blocks below it with mapPool, whose workers     *)
(* share a counter and answer in any order.                                *)
(***************************************************************************)
EXTENDS Integers, FiniteSets

CONSTANTS
  Counts,       \* window sizes that are asked for (40 on the home page)
  Concurrency,  \* RECENT_BLOCKS_CONCURRENCY (4)
  MaxTip,       \* bound: the highest tip the node reports
  Missing       \* what stands for a block that was not fetched: null

ASSUME PoolAssumption ==
  /\ Counts \subseteq Nat
  /\ Concurrency \in Nat \ {0}
  /\ MaxTip \in Nat
  /\ Missing \notin Nat

VARIABLES
  phase,    \* where the call is: "tip", "pool", "done" or "failed"
  count,    \* its argument, the length of the window
  height,   \* the tip it read
  next,     \* mapPool's counter: the first index no worker has taken
  worker,   \* worker[w]: the index worker w fetches; at least count once it has returned
  results,  \* results[i]: the block (by its height) stored for index i, or Missing
  stored,   \* indexes that have been stored (history)
  failed    \* indexes whose fetch failed or found no block (history)

pool == <<next, worker, results, stored, failed>>
vars == <<phase, count, height, pool>>

Indexes == 0..(count - 1)

\* heights: newest first, clamped at the genesis block
HeightsUnclamped(i) == height - i

Heights(i) == IF i <= height THEN height - i ELSE 0

\* how many workers there are: max(1, min(concurrency, length || 1))
WorkersPerItem == 1..(IF count = 0 THEN 1 ELSE count)

Workers == 1..(IF count = 0 THEN 1 ELSE IF count < Concurrency THEN count ELSE Concurrency)

Busy == {w \in DOMAIN worker : worker[w] < count}

Init ==
  /\ phase = "tip"
  /\ count \in Counts
  /\ height = 0
  /\ next = 0
  /\ worker = << >>
  /\ results = << >>
  /\ stored = {} /\ failed = {}

-----------------------------------------------------------------------------
\* The tip is known.  Each worker runs up to its first await: it takes the next index,
\* or returns if there is none.
ReadTip(tip) ==
  /\ phase = "tip"
  /\ phase' = "pool"
  /\ height' = tip
  /\ worker' = [w \in Workers |-> w - 1]
  /\ next' = Cardinality(Workers)
  /\ results' = [i \in Indexes |-> Missing]
  /\ UNCHANGED <<count, stored, failed>>

\* fetchChainHeight is rejected, and so is the call.
TipFails ==
  /\ phase = "tip"
  /\ phase' = "failed"
  /\ UNCHANGED <<count, height, pool>>

\* A fetch settles: its worker stores the result and takes the next index, without a
\* pause in between.  A rejection, a null and an answer that is no block count alike.
Store(i, w, found) ==
  /\ phase = "pool" /\ w \in Busy
  /\ results' = [results EXCEPT ![i] = IF found THEN Heights(worker[w]) ELSE Missing]
  /\ stored' = stored \cup {worker[w]}
  /\ failed' = IF found THEN failed ELSE failed \cup {worker[w]}
  /\ UNCHANGED <<phase, count, height>>

SettleFromOwnIndex(w, found) ==
  /\ Store(worker[w], w, found)
  /\ worker' = [worker EXCEPT ![w] = @ + 1]
  /\ next' = worker[w] + 2

SettleAsTheyCome(w, found) ==
  /\ Store(Cardinality(stored), w, found)
  /\ worker' = [worker EXCEPT ![w] = next]
  /\ next' = next + 1

Settle(w, found) ==
  /\ Store(worker[w], w, found)
  /\ worker' = [worker EXCEPT ![w] = next]
  /\ next' = next + 1

\* Promise.all(workers): every worker has returned.
FinishIfAllFound ==
  /\ phase = "pool"
  /\ Busy = {} /\ failed = {}
  /\ phase' = "done"
  /\ UNCHANGED <<count, height, pool>>

Finish ==
  /\ phase = "pool"
  /\ Busy = {}
  /\ phase' = "done"
  /\ UNCHANGED <<count, height, pool>>

Next ==
  \/ \E tip \in 0..MaxTip : ReadTip(tip)
  \/ TipFails
  \/ \E w \in Workers : \E found \in BOOLEAN : Settle(w, found)
  \/ Finish

Spec == Init /\ [][Next]_vars

\* Every RPC call settles and microtasks run.
FairSpec == Spec /\ WF_vars(Next)

\* the blocks of the answer: the results without the missing ones, in their order
Blocks ==
  LET kept == {i \in Indexes : results[i] # Missing}
  IN  [n \in 1..Cardinality(kept) |->
         results[CHOOSE i \in kept : Cardinality({j \in kept : j <= i}) = n]]

-----------------------------------------------------------------------------
\* Types of the variables.
TypeOK ==
  /\ phase \in {"tip", "pool", "done", "failed"}
  /\ count \in Counts
  /\ height \in 0..MaxTip
  /\ next \in Nat
  /\ phase \in {"pool", "done"} =>
       /\ worker \in [Workers -> Nat]
       /\ results \in [Indexes -> 0..MaxTip \cup {Missing}]
  /\ stored \subseteq Indexes
  /\ failed \subseteq stored

\* No index is fetched twice or skipped, whatever the order of the answers: each one below
\* the counter is stored, or is being fetched by exactly one worker; none above is either
\* (rpc-methods.ts:113-121, the counter shared by the workers between their awaits).
EachIndexOnce ==
  phase \in {"pool", "done"} =>
    /\ \A i \in Indexes :
         /\ i \in stored => \A w \in DOMAIN worker : worker[w] # i
         /\ i < next <=> (i \in stored \/ \E w \in DOMAIN worker : worker[w] = i)
    /\ \A v, w \in Busy : worker[v] = worker[w] => v = w

\* The pool neither idles nor overruns: as many fetches are under way as are left, up to
\* Concurrency ("Bound parallel tip-window fetches", rpc-methods.ts:104).
WorkConserving ==
  phase = "pool" =>
    LET left == count - Cardinality(stored)
    IN  Cardinality(Busy) = IF left < Concurrency THEN left ELSE Concurrency

\* The answer is the whole window, newest first: every height whose fetch did not fail,
\* and no other; a failed height costs nobody else its place ("Soft-fail per height",
\* rpc-methods.ts:138).  Only the genesis block of a short chain comes more than once.
WholeWindow ==
  phase = "done" =>
    /\ {Blocks[n] : n \in DOMAIN Blocks} = {Heights(i) : i \in Indexes \ failed}
    /\ \A m, n \in DOMAIN Blocks :
         m < n => Blocks[m] > Blocks[n] \/ (Blocks[m] = 0 /\ Blocks[n] = 0)

\* Whatever fails, the call comes to an end.
ReadingEnds == <>(phase \in {"done", "failed"})

=============================================================================
