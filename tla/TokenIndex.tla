------------------------------ MODULE TokenIndex ------------------------------
(* What is known of assets: the index of the contracts that were deployed or  *)
(* registered with the DEX within a window, the profile of one address, the   *)
(* links of collections with tokens, and the items of a collection, which are *)
(* found by number and by the calls that minted or moved them.                *)
EXTENDS ContractIdentity

CONSTANTS HeightCap,    \* older deploys that a profile looks at
          SlotCap,      \* slots of the registry that are read
          IdCap,        \* items that are looked for in calls
          ProbeCap,     \* items that are looked for by number
          BatchCap      \* items that a call may mint

ASSUME IndexAssumption == {HeightCap, SlotCap, IdCap, ProbeCap, BatchCap} \subseteq Nat \ {0}

----------------------------------------------------------------------------
InferAssetKind(purpose) ==
    IF purpose = "nft" THEN "nft" ELSE IF purpose = "token" THEN "fungible" ELSE "other"

(* The deploys of the blocks that could be fetched, in the order of the chain. *)
DeployRow(p, tx) ==
    [at |-> p, address |-> Created(tx), deployer |-> tx.sender,
     purpose |-> tx.purpose, named |-> tx.named, hash |-> tx.hash, known |-> tx.receipt # "none"]
DeployRowsOf(node, heights) ==
    LET made == Among(Places(node.chain),
                      {p \in Range(Places(node.chain)) :
                         p.height \in heights \ node.missing /\ Created(Tx(node.chain, p)) # Nobody})
    IN  [i \in DOMAIN made |-> DeployRow(made[i], Tx(node.chain, made[i]))]

(* One entry of all rows of an address: the first is where it was first seen, *)
(* the first that tells something tells it, and the last whose purpose is a   *)
(* kind decides, else a name makes it a token. A registration can only have   *)
(* seen it earlier.                                                           *)
Entry(address, all, registered) ==
    LET rows == Among(all, {row \in Range(all) : row.address = address})
        kinds == Among(rows, {row \in Range(rows) : InferAssetKind(row.purpose) # "other"})
        named == \E i \in DOMAIN rows : rows[i].named
        dex == {d.height : d \in {e \in registered : e.token = address}}
        described == Among(rows, {row \in Range(rows) : row.hash # Absent})
    IN  [address |-> address,
         sources |-> (IF rows = <<>> THEN {} ELSE {"deploy"}) \cup (IF dex = {} THEN {} ELSE {"dex"}),
         kind |-> IF kinds # <<>> THEN InferAssetKind(Last(kinds).purpose)
                  ELSE IF named THEN "fungible" ELSE "other",
         deployer |-> IF rows = <<>> THEN Nobody ELSE rows[1].deployer,
         firstSeen |-> Min(dex \cup {rows[i].at.height : i \in DOMAIN rows}),
         deployTx |-> IF rows # <<>> /\ rows[1].known THEN rows[1].at ELSE Absent,
         hash |-> IF described = <<>> THEN Absent ELSE described[1].hash]

(* Newest first, then by address. A block that fails makes the index fail; one *)
(* that is missing is left out, and without a factory the DEX is.             *)
Precedes(e, f) == e.firstSeen > f.firstSeen \/ (e.firstSeen = f.firstSeen /\ e.address < f.address)
InOrder(entries) ==
    [n \in 1..Cardinality(entries) |->
        CHOOSE e \in entries : Cardinality({f \in entries : f = e \/ Precedes(f, e)}) = n]
BuildTokenIndex(node, heights) ==
    LET rows == DeployRowsOf(node, heights)
        registered == {d \in node.registered : d.height \in heights}
        entries == {Entry(a, rows, registered) :
                      a \in {rows[i].address : i \in DOMAIN rows} \cup {d.token : d \in registered}}
    IN  IF heights \cap node.badBlocks # {} THEN Absent
        ELSE InOrder(entries)

----------------------------------------------------------------------------
(* Calls of a collection, as the words of their calldata.                     *)
OwnerOf == 3
TransferNft == 4
SetMetadataHash == 5
MintBatch == 6

IdsOfCall(words) ==
    LET n == words[3] IN
    CASE words # <<>> /\ words[1] = MintBatch ->
            IF Len(words) >= 3 /\ n \in 1..BatchCap /\ Len(words) >= 3 + 2 * n
               /\ \A i \in (4 + 2 * n)..Len(words) : words[i] = 0
            THEN SubSeq(words, 4, 3 + n) ELSE <<>>
      [] Len(words) >= 3 /\ words[1] = TransferNft -> <<words[3]>>
      [] Len(words) >= 3 /\ words[1] \in {SetMetadataHash, OwnerOf} -> <<words[2]>>
      [] OTHER -> <<>>

IdsOfAnyCall(tx, collection) == IF tx.parts = <<>> THEN <<>> ELSE IdsOfCall(tx.parts[1].words)

IdsOfTx(tx, collection) ==
    IF NotFailed(tx) /\ tx.kind = "ContractCall" /\ tx.parts[1].to = collection
    THEN IdsOfCall(tx.parts[1].words) ELSE <<>>

DiscoverTokenIds(node, collection, heights) ==
    LET places == Among(Places(node.chain),
                        {p \in Range(Places(node.chain)) : p.height \in heights \ node.missing})
        ids == Distinct(FlattenSeq([i \in DOMAIN places |-> IdsOfTx(Tx(node.chain, places[i]), collection)]))
    IN  IF heights \cap node.badBlocks # {} THEN <<>> ELSE SubSeq(ids, 1, Min({IdCap, Len(ids)}))

(* An item is one that has an owner or metadata in the storage.               *)
Samples(storage, extra) ==
    Among(Distinct([i \in 1..ProbeCap |-> i] \o extra), storage)

(* A profile indexes the window and, of older blocks, the last in which the   *)
(* node lists a deploy of the account; what it deployed is listed once. Items *)
(* that are there make the account a collection, whatever its purpose says.   *)
Profile(node, account, window, storage) ==
    LET from == From(node, window)
        index == BuildTokenIndex(node, from..node.head)
        heights == FetchAccountDeployHeights(node, account)
        older == Among(SubSeq(heights, Max({1, Len(heights) - HeightCap + 1}), Len(heights)),
                       {h \in Range(heights) : h < from})
        each == [i \in DOMAIN older |-> BuildTokenIndex(node, {older[i]})]
        all == Range(index) \cup UNION {Range(each[i]) : i \in DOMAIN each}
        samples == Samples(storage, DiscoverTokenIds(node, account, from..node.head))
    IN  IF index = Absent \/ \E i \in DOMAIN each : each[i] = Absent THEN Absent
        ELSE [index |-> index, samples |-> samples,
              kind |-> {IF samples # <<>> THEN "nft" ELSE e.kind : e \in {f \in Range(index) : f.address = account}},
              deployed |-> {e.address : e \in {f \in all : f.deployer = account /\ f.address # account}}]

----------------------------------------------------------------------------
(* The registry of links: slots of a collection and a token, either none when *)
(* the link was taken back, of which some cannot be read, and who claims what. *)
Live(registry) ==
    {i \in 1..Min({SlotCap, Len(registry.slots)}) :
       /\ i \notin registry.bad
       /\ registry.slots[i].collection # Nobody /\ registry.slots[i].token # Nobody}

PeersOfTokens(registry, asset) ==
    {[index |-> i, role |-> "fungible", peer |-> registry.slots[i].token] :
        i \in {j \in Live(registry) : registry.slots[j].collection = asset}}

Peers(registry, asset) ==
    PeersOfTokens(registry, asset)
    \cup {[index |-> i, role |-> "collection", peer |-> registry.slots[i].collection] :
            i \in {j \in Live(registry) : registry.slots[j].collection # asset /\ registry.slots[j].token = asset}}
=============================================================================
