------------------------------- MODULE Lookups -------------------------------
(***************************************************************************)
(* What the server finds out about accounts, contracts and tokens from     *)
(* nodes that may fail: one lookup per behaviour.  The code that looks     *)
(* keeps no state between requests, so a lookup is one step, of whatever   *)
(* the nodes are like then.                                                *)
(***************************************************************************)
EXTENDS TokenIndex

CONSTANTS Histories,   \* what is asked: the history of an account, of nodes in their order
          Searches,    \* the deploy and the mint of a contract, and an account's deploys
          Programs,    \* what a bytecode, given by its pieces, dispatches on
          Surveys,     \* the assets of an account, with what the storage has of its items
          Registries   \* the links of assets

\* A piece of a program: a comparison of a word with a selector, or data that is pushed.
Forms == {"loadFirst", "loadLast", "wide", "tooWide"}
Pieces == [form: Forms \cup {"data"}, selector: 0..255, inverted: BOOLEAN, at: 0..255,
           bytes: {s \in Seq(0..255) : Len(s) \in 1..32}]
Somebody == Int \ {Nobody}

ASSUME LookAssumption ==
  /\ Histories \subseteq [nodes: Seq(Nodes), account: Somebody, window: Nat \ {0}, preferScan: BOOLEAN]
  /\ Searches \subseteq [node: Nodes, target: Somebody, extra: Seq(Int), account: Somebody]
  /\ Programs \subseteq [slot: 0..255, masked: BOOLEAN, pieces: Seq(Pieces)]
  /\ Surveys \subseteq [node: Nodes, account: Somebody, window: Nat \ {0}, storage: SUBSET Int]
  /\ Registries \subseteq [slots: Seq([collection: Int, token: Int]), bad: SUBSET Nat, assets: SUBSET Somebody]

VARIABLE lookup

NotLooked == [of |-> "nothing"]
LookInit == lookup = NotLooked

-----------------------------------------------------------------------------
LookAtHistory ==
  /\ lookup = NotLooked
  /\ \E h \in Histories : \E n \in Responder(h.nodes, h.account, h.window, h.preferScan) :
       lookup' = [of |-> "history", node |-> h.nodes[n], account |-> h.account, window |-> h.window,
                  got |-> HistoryOf(h.nodes[n], h.account, h.window, h.preferScan)]

LookForDeploy ==
  /\ lookup = NotLooked
  /\ \E s \in Searches :
       lookup' = [of |-> "deploy", node |-> s.node, target |-> s.target, account |-> s.account,
                  found |-> LookupContractCode(s.node, s.target, s.extra).code,
                  heights |-> FetchAccountDeployHeights(s.node, s.account),
                  minted |-> ResolveFungibleTotalSupplyFromMintFirst(s.node, s.target)]

-----------------------------------------------------------------------------
\* Programs that dispatch on the first word of their calldata, or on a copy of it elsewhere in
\* memory, among data and comparisons of other words.
PUSH(bytes) == <<OpPush1 + Len(bytes) - 1>> \o bytes
Load(at) == PUSH(<<at>>) \o <<OpMload>>
Prologue(slot, masked) ==
  IF slot = 0 THEN <<>>
  ELSE Load(0) \o (IF masked THEN PUSH(<<255>>) \o <<OpAnd>> ELSE <<>>) \o PUSH(<<slot>>) \o <<OpMstore>>
Operands(b) ==
  CASE b.form = "loadFirst" -> Load(b.at) \o PUSH(<<b.selector>>)
    [] b.form = "loadLast" -> PUSH(<<b.selector>>) \o Load(b.at)
    [] b.form = "wide" -> Load(b.at) \o PUSH(<<0, b.selector>>)
    [] b.form = "tooWide" -> Load(b.at) \o PUSH(<<1, b.selector>>)
CodeOf(b) ==
  IF b.form = "data" THEN PUSH(b.bytes)
  ELSE Operands(b) \o <<OpEq>> \o (IF b.inverted THEN <<OpIsZero>> ELSE <<>>) \o PUSH(<<9>>) \o <<OpJumpi>>
Program(p) == Prologue(p.slot, p.masked) \o FlattenSeq([i \in DOMAIN p.pieces |-> CodeOf(p.pieces[i])])
LookAtCode ==
  /\ lookup = NotLooked
  /\ \E program \in Programs :
       lookup' = [of |-> "code", program |-> program, selectors |-> DecodeDispatchSelectors(Program(program))]

\* What a catalog and a registry make of some of them, for one contract of account 2.
Token == Nonced(2, 0)
Lone(selector) ==
  [form |-> "loadFirst", selector |-> selector, inverted |-> FALSE, at |-> 0, bytes |-> <<0>>]
Dispatching(selectors) == Program([slot |-> 0, masked |-> FALSE, pieces |-> [i \in DOMAIN selectors |-> Lone(selectors[i])]])
Codes == {Absent, Dispatching(<<1, 20>>), Dispatching(<<1, 9>>), <<OpEq>>}
Documented == {{[selector |-> 1, named |-> TRUE, types |-> {"u8"}]}, {[selector |-> 1, named |-> TRUE, types |-> {"u7"}]}}
Records == {Absent} \cup [claimer: {1, 2}, hash: {7}, uri: {"boing", "https", "ftp"}]
Served == {Absent} \cup [marked: BOOLEAN, size: {1, StoredCap + 1, DocumentCap + 1},
                        encoding: {"plain", "other"}, hash: {7, 8}, functions: Documented]
LookAtContract ==
  /\ lookup = NotLooked
  /\ \E network \in {"testnet", "mainnet"}, address \in {Token, Salted(2, 1, 1)}, code \in Codes,
        deployer \in {Nobody, 2}, record \in Records, served \in Served :
     \E nonces \in {<<1, 1>>, <<1, 0>>, <<1, Absent>>} :
       lookup' = [of |-> "contract", network |-> network, address |-> address, record |-> record,
                  nonces |-> nonces, deployer |-> deployer, served |-> served,
                  got |-> ResolveContractInterface(network, address, code, deployer, record, nonces, served)]

-----------------------------------------------------------------------------
LookAtAssets ==
  /\ lookup = NotLooked
  /\ \E s \in Surveys :
       lookup' = [of |-> "assets", node |-> s.node, storage |-> s.storage, account |-> s.account,
                  window |-> s.window, got |-> Profile(s.node, s.account, s.window, s.storage)]

LookAtLinks ==
  /\ lookup = NotLooked
  /\ \E r \in Registries :
       lookup' = [of |-> "links", slots |-> r.slots, bad |-> r.bad, peers |-> [a \in r.assets |-> Peers(r, a)]]

LookNext == LookAtHistory \/ LookForDeploy \/ LookAtCode \/ LookAtContract \/ LookAtAssets \/ LookAtLinks
LookSpec == LookInit /\ [][LookNext]_lookup

-----------------------------------------------------------------------------
\* Where a chain has transactions, which of two is the earlier, and in which of them an account
\* takes part.
Everywhere(chain) == UNION {{[height |-> h - 1, index |-> i] : i \in DOMAIN chain[h]} : h \in DOMAIN chain}
Earlier(p, q) == p.height < q.height \/ (p.height = q.height /\ p.index < q.index)
TakesPart(tx, a) == tx.sender = a \/ \E s \in Range(tx.parts) : s.to = a
PartOf(chain, a) == {p \in Everywhere(chain) : TakesPart(Tx(chain, p), a)}
InWindow(node, window) ==
  {p \in Everywhere(node.chain) : p.height \in (From(node, window)..node.head) \ node.missing}

\* The history shows every transaction of the window in which the account has a part, newest
\* first.  A page that fails never shortens it: the rows are replaced by a scan, which has all
\* but the blocks the node lacks; only the cap on pages cuts off the oldest.
PlaceOf(item) == [height |-> item.height, index |-> item.index]
HistoryOfTheWindow ==
  lookup.of = "history" =>
    LET node == lookup.node  items == lookup.got.items
        shown == {PlaceOf(items[i]) : i \in DOMAIN items}
        taking == PartOf(node.chain, lookup.account)
        seen == InWindow(node, lookup.window)
        from == From(node, lookup.window)
    IN  /\ \A i, j \in DOMAIN items : i < j => Earlier(items[j], items[i])
        /\ lookup.got.source = "scan" => taking \cap seen \subseteq shown /\ shown \subseteq seen
        /\ lookup.got.source = "indexed" =>
             /\ shown \subseteq {p \in taking : p.height >= from}
             /\ \A p \in taking \ shown : p.height < from \/ Cardinality(shown) = PageCap * PageSize

\* The code found for a contract is that of a deploy that made it, by its true sender; it is
\* found if the deployer was the first to call and nothing failed.  The heights of an account's
\* deploys are those of its plain ones, and all of them unless a page fails or there are too
\* many rows.  A supply is that of a mint that did not fail.
ListedWhole(node, a) == Cardinality(PartOf(node.chain, a)) <= PageCap * PageSize /\ node.badPages = {}
FindsAreGenuine ==
  lookup.of = "deploy" =>
    LET node == lookup.node  target == lookup.target  found == lookup.found  heights == lookup.heights
        all == Everywhere(node.chain)
        tx(p) == Tx(node.chain, p)
        calls == {p \in all : tx(p).kind \in Calls /\ tx(p).parts[1].to = target}
        deploys(a) == {p \in all : Deploys(tx(p)) /\ tx(p).sender = a}
        plain == {p.height : p \in {q \in deploys(lookup.account) : tx(q).kind = "ContractDeploy"}}
    IN  /\ found # Absent =>
             LET p == PlaceOf(found) IN
             /\ p \in deploys(found.deployer)
             /\ Predicted(tx(p)) = target /\ tx(p).code = found.code
        /\ \A c \in calls :
             LET a == tx(c).sender IN
             (/\ \A d \in calls : ~Earlier(d, c)
              /\ \E p \in deploys(a) : Predicted(tx(p)) = target
              /\ ListedWhole(node, target) /\ ListedWhole(node, a)
              /\ Cardinality(deploys(a)) <= BlockCap /\ node.badBlocks = {}) => found # Absent
        /\ \A i, j \in DOMAIN heights : i < j => heights[i] < heights[j]
        /\ Range(heights) \subseteq plain
        /\ ListedWhole(node, lookup.account) => plain \subseteq Range(heights)
        /\ lookup.minted # Absent =>
             /\ lookup.minted \in calls
             /\ tx(lookup.minted).receipt # "failed" /\ tx(lookup.minted).parts[1].data = "mint"

\* The selectors read out of a program are those it dispatches on, wherever it keeps the
\* selector and however it compares it; data and other comparisons are not taken for some.
DispatchDecodes ==
  lookup.of = "code" =>
    LET dispatching == {b \in Range(lookup.program.pieces) :
                          b.form \notin {"data", "tooWide"} /\ b.at \in {0, lookup.program.slot}}
    IN  lookup.selectors = {b.selector : b \in dispatching}

\* An interface passes for published only if its claimer is the deployer and the file is the
\* one recorded, and then it does; whatever else is shown is dispatched on by the code, if
\* that is known, and nothing is both described and unknown.
PublishedIsTheDeployers ==
  lookup.of = "contract" =>
    LET got == lookup.got  record == lookup.record  served == lookup.served
        proven == lookup.deployer = 2 \/ (lookup.address = Token /\ lookup.nonces[2] = 1)
    IN  /\ got.source = "published" =>
             /\ lookup.network = "testnet" /\ record.claimer = 2 /\ proven
             /\ served.hash = record.hash /\ \A f \in served.functions : f.types \subseteq ParamTypes
        /\ (/\ lookup.network = "testnet" /\ record # Absent /\ served # Absent
            /\ record.claimer = 2 /\ proven /\ served.hash = record.hash /\ served.size = 1
            /\ record.uri = "https" /\ ParsePublishedDoc(served.functions)) => got.source = "published"
        /\ (got.source # "published" /\ got.decoded # {}) => got.functions \subseteq got.decoded
        /\ got.functions \cap got.unknown = {} /\ got.unknown \subseteq got.decoded

\* What is found on the chain is there, and what is there is found as far as the nodes tell it.
FoundOnTheChain == HistoryOfTheWindow /\ FindsAreGenuine

\* What a contract is taken for is what its code and its deployer say.
InterfacesAreTheContracts == DispatchDecodes /\ PublishedIsTheDeployers

\* What a deploy made, by what its receipt says or else where its contract is put.
Made(tx) ==
  CASE ~Deploys(tx) \/ tx.receipt = "failed" -> {}
    [] Deploys(tx) /\ tx.receipt # "failed" /\ tx.returned # Nobody -> {tx.returned}
    [] OTHER -> {Predicted(tx)} \ {Nobody}

\* An index names every contract that a deploy of the window made, however the deploy tells
\* it, and every token registered in it, and no other, each once and the newest first; it is
\* credited to the first that made it, and was first seen when that or its registration was.
\* An account's deploys are those of the window and, of those before it, the plain ones among
\* the last the node lists.
IndexOfTheWindow ==
  lookup.of = "assets" /\ lookup.got # Absent =>
    LET node == lookup.node  got == lookup.got  account == lookup.account
        from == From(node, lookup.window)
        seen == InWindow(node, lookup.window)
        tx(p) == Tx(node.chain, p)
        registered == {r \in node.registered : r.height \in from..node.head}
        by == {p \in Everywhere(node.chain) : tx(p).sender = account}
        plain == {p \in by : tx(p).kind = "ContractDeploy"}
        first(p, among) == \A q \in among : Earlier(q, p) => Made(tx(q)) \cap Made(tx(p)) = {}
        index == Range(got.index)
    IN  /\ {e.address : e \in index} = (UNION {Made(tx(p)) : p \in seen}) \cup {r.token : r \in registered}
        /\ \A i, j \in DOMAIN got.index : i < j =>
             /\ got.index[i].address # got.index[j].address
             /\ got.index[i].firstSeen >= got.index[j].firstSeen
        /\ \A e \in index :
             /\ e.deployTx # Absent => e.deployTx \in seen /\ e.address \in Made(tx(e.deployTx))
             /\ "deploy" \in e.sources =>
                  \E p \in seen : e.address \in Made(tx(p)) /\ first(p, seen) /\ tx(p).sender = e.deployer
             /\ \A p \in seen : e.address \in Made(tx(p)) => e.firstSeen <= p.height
             /\ \A r \in registered : r.token = e.address => e.firstSeen <= r.height
        /\ \A p \in seen \cap by : first(p, seen) => Made(tx(p)) \ {account} \subseteq got.deployed
        /\ \A a \in got.deployed : \E p \in by : a \in Made(tx(p))
        /\ \A p \in plain :
             (/\ p.height < from /\ p.height \notin node.missing
              /\ first(p, {q \in Everywhere(node.chain) : q.height = p.height})
              /\ ListedWhole(node, account) /\ Cardinality({q.height : q \in plain}) <= HeightCap)
             => Made(tx(p)) \ {account} \subseteq got.deployed

\* The items that a call says are minted, moved or described.
ItemsOf(words) ==
  {id \in Range(words) :
     /\ Len(words) >= 3
     /\ \/ words[1] = TransferNft /\ id = words[3]
        \/ words[1] \in {SetMetadataHash, OwnerOf} /\ id = words[2]
        \/ /\ words[1] = MintBatch /\ words[3] \in 1..BatchCap /\ Len(words) >= 3 + 2 * words[3]
           /\ \E i \in 4..(3 + words[3]) : id = words[i]
           /\ \A i \in DOMAIN words : i > 3 + 2 * words[3] => words[i] = 0}

\* The items shown of a collection exist, none twice, and those that a call of the window
\* minted or moved are among them unless there are more than are looked for.  What one asset
\* is linked to is linked to it, in the same slot, and nothing that was taken back is shown.
CollectionsShowTheirs ==
  /\ lookup.of = "assets" /\ lookup.got # Absent =>
       LET samples == lookup.got.samples
           tx(p) == Tx(lookup.node.chain, p)
           calls == {p \in InWindow(lookup.node, lookup.window) :
                       /\ tx(p).kind = "ContractCall" /\ tx(p).receipt # "failed"
                       /\ tx(p).parts[1].to = lookup.account}
           named == UNION {ItemsOf(tx(p).parts[1].words) : p \in calls}
       IN  /\ \A i, j \in DOMAIN samples : i # j => samples[i] # samples[j]
           /\ Range(samples) \subseteq lookup.storage \cap (1..ProbeCap \cup named)
           /\ Cardinality(named) <= IdCap => named \cap lookup.storage \subseteq Range(samples)
  /\ lookup.of = "links" =>
       \A a, b \in DOMAIN lookup.peers, i \in DOMAIN lookup.slots :
         /\ a # b => ([index |-> i, role |-> "fungible", peer |-> b] \in lookup.peers[a]
                       <=> [index |-> i, role |-> "collection", peer |-> a] \in lookup.peers[b])
         /\ [index |-> i, role |-> "fungible", peer |-> b] \in lookup.peers[a]
              <=> (i <= SlotCap /\ i \notin lookup.bad /\ lookup.slots[i] = [collection |-> a, token |-> b])

\* What the pages of assets show is what the chain made: the contracts of the window with their
\* deployers, the deploys of an account, the items of a collection and its links.
AssetsAreOfTheChain == IndexOfTheWindow /\ CollectionsShowTheirs
=============================================================================
