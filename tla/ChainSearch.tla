----------------------------- MODULE ChainSearch -----------------------------
(* What the server finds on the chain without an index of its own: the        *)
(* transactions of an account within a window of blocks, the deploy of a      *)
(* contract, the heights of an account's deploys and the one mint of a token. *)
(* It reads the node's list of an account's transactions page by page, newest *)
(* first, and blocks; pages and blocks may fail. Accounts are numbers and a   *)
(* hash is one that tells its inputs apart.                                   *)
EXTENDS Integers, Sequences, SequencesExt, FiniteSetsExt

CONSTANTS PageSize,       \* rows the node gives at once
          PageCap,        \* pages that are read at most
          DeployerCap,    \* accounts whose deploys are looked through
          BlockCap,       \* blocks fetched for that
          CandidateCap,   \* calls looked at for the mint
          Absent          \* nothing found, no answer

Place == [height: Nat, index: Nat \ {0}]
Find == [deployer: Int, height: Nat, index: Nat, code: Int]
Calldata == {"none", "short", "mint", "long"}

ASSUME SearchAssumption ==
    /\ \A n \in {PageSize, PageCap, DeployerCap, BlockCap, CandidateCap} : n \in Nat \ {0}
    /\ Absent \notin Int \cup Calldata \cup Place \cup Find \cup Seq(Place) \cup Seq(Int)

(* What a sequence has at the positions of a set, in its order: those where   *)
(* something of S is, or where something is for the first time.               *)
NthOf(K, n) == CHOOSE i \in K : Cardinality({j \in K : j <= i}) = n
Ascending(K) == [n \in 1..Cardinality(K) |-> NthOf(K, n)]
Taken(s, K) == [n \in 1..Cardinality(K) |-> s[NthOf(K, n)]]
Among(s, S) == Taken(s, {i \in DOMAIN s : s[i] \in S})
Distinct(s) == Taken(s, {i \in DOMAIN s : \A j \in 1..(i - 1) : s[j] # s[i]})

Nobody == 0

(* A transaction does what its parts do: itself or, of a batch, its steps.    *)
DeployKinds == {"ContractDeploy", "ContractDeployWithPurpose", "ContractDeployWithPurposeAndMetadata"}
Deploys(tx) == tx.kind \in DeployKinds
Touches(tx, kinds, a) == \E s \in Range(tx.parts) : s.kind \in kinds /\ s.to = a
Calls == {"ContractCall", "ContractCallWithValue"}

(* Where a deploy puts its contract: by salt and code, or by sender and nonce. *)
Nonced(sender, nonce) == 100 + 10 * sender + nonce
Salted(sender, salt, code) == 1000 + 100 * sender + 10 * salt + code
Predicted(tx) ==
    CASE ~Deploys(tx) \/ tx.code = 0 -> Nobody
      [] Deploys(tx) /\ tx.code # 0 /\ tx.salt # 0 -> Salted(tx.sender, tx.salt, tx.code)
      [] OTHER -> Nonced(tx.sender, tx.nonce)

CreatedAnyway(tx) ==
    IF ~Deploys(tx) THEN Nobody ELSE IF tx.returned # Nobody THEN tx.returned ELSE Predicted(tx)

(* The account a deploy made: what its receipt returned, or the prediction,   *)
(* and none if the receipt says it failed.                                    *)
Created(tx) ==
    IF ~Deploys(tx) \/ tx.receipt = "failed" THEN Nobody
    ELSE IF tx.returned # Nobody THEN tx.returned ELSE Predicted(tx)

(* What the searches read of a transaction: its parts are what a batch does,  *)
(* or the one transfer or call that it is itself.                             *)
Parts == [kind: Calls \cup {"Transfer"}, to: Int, data: Calldata, words: Seq(Int)]
Transactions ==
    {tx \in [sender: Int, nonce: Int, kind: STRING, parts: Seq(Parts), code: Int, salt: Int,
             listed: SUBSET Int, returned: Int, receipt: STRING, purpose: STRING, named: BOOLEAN,
             hash: Int \cup {Absent}] : tx.kind \in Calls => tx.parts # <<>>}

RolesForAccountInTx(a, tx) ==
    LET played == {r \in {"sender", "recipient", "contract", "created"} :
            CASE r = "sender" -> tx.sender = a
              [] r = "recipient" -> Touches(tx, {"Transfer"}, a)
              [] r = "contract" -> Touches(tx, Calls, a)
              [] r = "created" -> Created(tx) = a}
    IN  IF played = {} /\ a \in tx.listed THEN {"access_list"} ELSE played

----------------------------------------------------------------------------
(* A node: its chain (heights from 0) and the head it told before; the pages  *)
(* and blocks it fails to give, whether it is down, and whether it knows the  *)
(* code of a contract.                                                        *)
Nodes == [chain: Seq(Seq(Transactions)), head: Int, badPages: SUBSET Nat, badBlocks: SUBSET Nat,
          missing: SUBSET Nat, down: BOOLEAN, breaks: BOOLEAN, tellsOutcome: BOOLEAN,
          tellsCode: BOOLEAN, codes: SUBSET [at: Int, code: Int],
          registered: {r \in SUBSET [token: Int, height: Nat] : IsFiniteSet(r)}]

Tx(chain, p) == chain[p.height + 1][p.index]
PlacesIn(block, height) == [i \in DOMAIN block |-> [height |-> height, index |-> i]]
Places(chain) == FlattenSeq([h \in DOMAIN chain |-> PlacesIn(chain[h], h - 1)])
NewestFirst(places) == Reverse(places)

(* The node's rows of an account: those it sent, was sent or was called by.   *)
Lists(tx, a) == tx.sender = a \/ Touches(tx, Calls \cup {"Transfer"}, a)
Listed(chain, a) == {p \in Range(Places(chain)) : Lists(Tx(chain, p), a)}
Indexed(chain, a) == NewestFirst(Among(Places(chain), Listed(chain, a)))
Page(rows, p) == SubSeq(rows, (p - 1) * PageSize + 1, Min({p * PageSize, Len(rows)}))
LastPage(rows) == Max({1, (Len(rows) + PageSize - 1) \div PageSize})

(* The pages of a list up to the cap, those before the first that fails, or   *)
(* nothing if that is the first.                                              *)
AllRows(node, a) ==
    LET rows == Indexed(node.chain, a)
        ends == {p \in 1..PageCap : p <= LastPage(rows)}
        read == {p \in ends : \A q \in 1..p : q \notin node.badPages}
    IN  IF read = {} THEN Absent ELSE SubSeq(rows, 1, Min({Max(read) * PageSize, Len(rows)}))

----------------------------------------------------------------------------
(* The history of an account.                                                 *)

Item(chain, a, p) ==
    LET tx == Tx(chain, p)
    IN  [height |-> p.height, index |-> p.index, kind |-> tx.kind,
         roles |-> RolesForAccountInTx(a, tx), failed |-> tx.receipt = "failed"]

(* From blocks: every transaction in which the account has a role.            *)
CollectAccountTxHistory(chain, a, heights) ==
    LET involved == {p \in Range(Places(chain)) :
                       p.height \in heights /\ RolesForAccountInTx(a, Tx(chain, p)) # {}}
        newest == NewestFirst(Among(Places(chain), involved))
    IN  [i \in DOMAIN newest |-> Item(chain, a, newest[i])]

(* From the node's rows, whose roles are its own; one without any is shown as *)
(* of a contract.                                                             *)
CollectIndexedAccountTxHistory(chain, a, rows, from) ==
    LET inside == Among(rows, {p \in Range(rows) : p.height >= from})
    IN  [i \in DOMAIN inside |->
            LET item == Item(chain, a, inside[i])
            IN  [item EXCEPT !.roles = IF @ \ {"created", "access_list"} = {} THEN {"contract"}
                                       ELSE @ \ {"created", "access_list"}]]

(* Pages are read up to a row below the window, the last page or the cap. One *)
(* that fails makes all of them worthless.                                    *)
Below(rows, p, from) == \E i \in DOMAIN Page(rows, p) : Page(rows, p)[i].height < from
Reached(node, rows, from) ==
    Max({p \in 1..PageCap :
           \A q \in 1..(p - 1) : q \notin node.badPages /\ ~Below(rows, q, from) /\ q < LastPage(rows)})

RowsBeforeFailure(node, rows, from) ==
    LET last == Reached(node, rows, from)
        pages == IF last \in node.badPages THEN last - 1 ELSE last
    IN  SubSeq(rows, 1, Min({pages * PageSize, Len(rows)}))

RowsKept(node, rows, from) ==
    IF Reached(node, rows, from) \in node.badPages THEN <<>>
    ELSE RowsBeforeFailure(node, rows, from)

FetchIndexedWindow(node, a, from) ==
    CollectIndexedAccountTxHistory(node.chain, a, RowsKept(node, Indexed(node.chain, a), from), from)

(* One node answers from its rows or, if they come to nothing, from a scan of *)
(* the blocks it has; a scan that breaks is a failure of the node.            *)
From(node, window) == Max({0, node.head - (window - 1)})
HistoryOf(node, a, window, preferScan) ==
    LET from == From(node, window)
        indexed == FetchIndexedWindow(node, a, from)
    IN  CASE node.down -> Absent
          [] ~node.down /\ ~preferScan /\ indexed # <<>> -> [source |-> "indexed", items |-> indexed]
          [] ~node.down /\ (preferScan \/ indexed = <<>>) /\ node.breaks -> Absent
          [] OTHER -> [source |-> "scan", items |->
                 CollectAccountTxHistory(node.chain, a, (from..node.head) \ node.missing)]

(* The first node that answers decides.                                       *)
Responds(node, a, window, preferScan) == HistoryOf(node, a, window, preferScan) # Absent
Responder(nodes, a, window, preferScan) ==
    {n \in DOMAIN nodes : /\ Responds(nodes[n], a, window, preferScan)
                          /\ \A m \in 1..(n - 1) : ~Responds(nodes[m], a, window, preferScan)}

----------------------------------------------------------------------------
(* The deploy of a contract, among those of the accounts that called it first. *)

CallsTo(node, rows, a) ==
    Among(rows, {p \in Range(rows) : LET tx == Tx(node.chain, p) IN tx.kind \in Calls /\ tx.parts[1].to = a})

CallersNewestFirst(node, calls) == [i \in DOMAIN calls |-> Tx(node.chain, calls[i]).sender]

Callers(node, calls) == Reverse(CallersNewestFirst(node, calls))

(* The deploys of an account that the node lists; none if it lists nothing.   *)
DeployRows(node, a) ==
    LET rows == AllRows(node, a)
    IN  IF rows = Absent THEN <<>>
        ELSE Among(rows, {p \in Range(rows) : Tx(node.chain, p).sender = a /\ Deploys(Tx(node.chain, p))})

(* One of them is looked at: its block is fetched unless it has been, which   *)
(* the budget may not allow any more; then this account is given up.          *)
LookAt(node, target, acc, deployer, p) ==
    LET known == p.height \in acc.fetched
        tx == Tx(node.chain, p)
    IN  IF acc.found # Absent \/ deployer \in acc.cut THEN acc
        ELSE IF ~known /\ Cardinality(acc.fetched) >= BlockCap
        THEN [acc EXCEPT !.cut = @ \cup {deployer}]
        ELSE [acc EXCEPT !.fetched = @ \cup {p.height},
                         !.found = IF p.height \notin node.badBlocks /\ Predicted(tx) = target
                                   THEN [deployer |-> deployer, height |-> p.height,
                                         index |-> p.index, code |-> tx.code]
                                   ELSE @]

LooksOf(node, deployer) ==
    LET ds == DeployRows(node, deployer) IN [d \in DOMAIN ds |-> [deployer |-> deployer, at |-> ds[d]]]
Looking(node, target, looks) ==
    LET acc[k \in 0..Len(looks)] ==
            IF k = 0 THEN [fetched |-> {}, cut |-> {}, found |-> Absent]
            ELSE LookAt(node, target, acc[k - 1], looks[k].deployer, looks[k].at)
    IN  acc[Len(looks)]
LookupContractCode(node, target, extra) ==
    LET rows == AllRows(node, target)
        calls == CallsTo(node, rows, target)
        senders == Distinct(Callers(node, calls) \o extra)
        tried == SubSeq(senders, 1, Min({DeployerCap, Len(senders)}))
        looks == FlattenSeq([s \in DOMAIN tried |-> LooksOf(node, tried[s])])
    IN  IF rows = Absent THEN [calls |-> 0, code |-> Absent, unsupported |-> TRUE]
        ELSE [calls |-> Len(calls), unsupported |-> FALSE, code |-> Looking(node, target, looks).found]

(* The node's own word about the code comes first; the deployer is known only *)
(* from the search.                                                           *)
FetchContractCodeRpc(node, target) ==
    IF \E c \in node.codes : c.at = target THEN (CHOOSE c \in node.codes : c.at = target).code ELSE Absent
ResolveContractCode(node, target, extra) ==
    LET found == LookupContractCode(node, target, extra).code
        code == IF ~node.tellsCode THEN IF found = Absent THEN Absent ELSE found.code
                ELSE FetchContractCodeRpc(node, target)
    IN  [code |-> code,
         deployer |-> IF code = Absent \/ found = Absent THEN Nobody ELSE found.deployer,
         via |-> IF code = Absent THEN "none" ELSE IF node.tellsCode THEN "rpc" ELSE "history"]

(* The heights of an account's plain deploys, oldest first; with a failing    *)
(* page those of the pages before it.                                         *)
FetchAccountDeployHeights(node, a) ==
    LET rows == DeployRows(node, a)
    IN  Ascending({p.height : p \in {q \in Range(rows) : Tx(node.chain, q).kind = "ContractDeploy"}})

----------------------------------------------------------------------------
(* The supply of a token: what its first mint that did not fail brought. What *)
(* the node's row says selects the calls, the block tells what they are.      *)

NotFailed(tx) == tx.receipt # "failed"

MintCandidate(node, tx, token) ==
    /\ node.tellsOutcome => NotFailed(tx)
    /\ tx.kind \in {"ContractCall", "Batch"}
    /\ \E s \in Range(tx.parts) : s.kind \in Calls /\ s.to = token /\ s.data \in {"mint", "long"}

(* The calldata is looked for in a call, but in a batch under another name    *)
(* than its steps have.                                                       *)
CalldataTo(tx, token) ==
    IF tx.kind \in Calls /\ tx.parts[1].to = token THEN tx.parts[1].data ELSE Absent

MintedBy(tx, token) == NotFailed(tx) /\ CalldataTo(tx, token) = "mint"

ResolveFungibleTotalSupplyFromMintFirst(node, token) ==
    LET rows == AllRows(node, token)
        candidates == IF rows = Absent THEN <<>>
                      ELSE Reverse(Among(rows, {p \in Range(rows) : MintCandidate(node, Tx(node.chain, p), token)}))
        looked == SubSeq(candidates, 1, Min({CandidateCap, Len(candidates)}))
        hits == {i \in DOMAIN looked :
                   looked[i].height \notin node.badBlocks /\ MintedBy(Tx(node.chain, looked[i]), token)}
    IN  IF hits = {} THEN Absent ELSE looked[Min(hits)]
=============================================================================
