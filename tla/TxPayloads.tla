----------------------------- MODULE TxPayloads -----------------------------
(* What the explorer reads out of signed payloads and blocks: the kind of a   *)
(* payload that arrives tagged or flat, the sections of a block page, the     *)
(* amounts that move and in which unit, tips, and what a receipt that is not  *)
(* there may mean. Amounts are small numbers and one BOING is Base of them.   *)
EXTENDS Integers, Sequences, SequencesExt, FiniteSetsExt

None == "none"

(* What the values of a function come to.                                     *)
SumOf(f) == MapThenSumSet(LAMBDA x : f[x], DOMAIN f)

(* The variants of the SDK's PayloadVariant; the two spellings of a key on    *)
(* the wire (Pascal and snake case) resolve alike and are not told apart.     *)
NameVariants == {"NameCommit", "NameRegister", "NameRenew", "NameTransfer",
                 "NameSetTarget", "NameSetPrimary", "NameRelease"}
ValidatorVariants == {"ValidatorRegister", "ValidatorDeregister", "ValidatorUnjail"}
BlobVariants == {"PutBlob", "BlobAnnounce", "RenewMediaBlobPin", "PayBlobSample",
                 "RegisterBlobSampleOffer", "SettleBlobSampleMatch", "CancelBlobSampleOffer",
                 "ChallengeBlobSampleServe", "RespondBlobSampleServe",
                 "GrantBlobDownload", "RevokeBlobDownload"}
AppealVariants == {"SubmitSlashAppeal", "ResolveSlashAppeal", "ResolveSlashAppealAttested",
                   "ResolveSlashAppealBlsAggregate"}
DeployVariants == {"ContractDeploy", "ContractDeployWithPurpose",
                   "ContractDeployWithPurposeAndMetadata"}
Variants == NameVariants \cup ValidatorVariants \cup BlobVariants \cup AppealVariants
            \cup DeployVariants
            \cup {"Transfer", "Bond", "Unbond", "ClaimUnbond", "QaPoolVote", "ContractCall",
                  "ContractCallWithValue", "Batch"}

DisplayKind(variant) == IF variant = "ContractCallWithValue" THEN "ContractCall" ELSE variant

ResolveVariant(key) == IF key \in Variants THEN key ELSE None

Resolve(key) == IF key \in Variants THEN DisplayKind(key) ELSE None

(* The fields the detail view reads of each variant: the shape of its body.   *)
Shape(variant) ==
    CASE variant = "Transfer" -> {"to", "amount"}
      [] variant \in {"Bond", "Unbond"} -> {"amount"}
      [] variant = "ClaimUnbond" -> {}
      [] variant = "QaPoolVote" -> {"subject", "vote"}
      [] variant = "ContractCall" -> {"contract", "calldata"}
      [] variant = "ContractCallWithValue" -> {"contract", "calldata", "value"}
      [] variant = "Batch" -> {"calls"}
      [] variant = "ContractDeploy" -> {"bytecode"}
      [] variant = "ContractDeployWithPurpose" -> {"bytecode", "purpose_category"}
      [] variant = "ContractDeployWithPurposeAndMetadata" ->
             {"bytecode", "purpose_category", "asset_name", "asset_symbol"}
      [] variant = "NameCommit" -> {"commitment"}
      [] variant = "NameRegister" -> {"name", "salt", "target", "years"}
      [] variant = "NameRenew" -> {"name", "years"}
      [] variant = "NameTransfer" -> {"name", "new_owner"}
      [] variant = "NameSetTarget" -> {"name", "target"}
      [] variant \in {"NameSetPrimary", "NameRelease"} -> {"name"}
      [] variant = "ValidatorRegister" -> {"node_id", "node_signature"}
      [] variant \in {"ValidatorDeregister", "ValidatorUnjail"} -> {"node_id"}
      [] variant = "PutBlob" -> {"data", "content_type", "retention"}
      [] variant = "BlobAnnounce" -> {"blob_id", "size", "content_type"}
      [] variant = "RenewMediaBlobPin" -> {"blob_id", "extend_blocks"}
      [] variant = "RegisterBlobSampleOffer" -> {"blob_id", "ask_fee"}
      [] variant = "RespondBlobSampleServe" -> {"blob_id", "chunk_index", "siblings"}
      [] variant = "SettleBlobSampleMatch" -> {"blob_id", "provider", "chunk_count"}
      [] variant = "PayBlobSample" -> {"blob_id", "chunk_index"}
      [] variant \in {"CancelBlobSampleOffer", "ChallengeBlobSampleServe"} -> {"blob_id"}
      [] variant \in {"GrantBlobDownload", "RevokeBlobDownload"} -> {"blob_id", "grantee"}
      [] variant = "SubmitSlashAppeal" -> {"slash_id"}
      [] variant = "ResolveSlashAppeal" -> {"appeal_id", "approved"}
      [] variant = "ResolveSlashAppealAttested" -> {"appeal_id", "approved", "ballot_signature"}
      [] variant = "ResolveSlashAppealBlsAggregate" ->
             {"appeal_id", "approved", "aggregate_signature"}

(* A payload: a bare string, or an object with its keys. `under` are the keys *)
(* of the value of an only key, `kind` the string in a field of that name.    *)
Text(key) == [form |-> "text", keys |-> {key}, under |-> {}, kind |-> None]
Tagged(variant, body) == [form |-> "object", keys |-> {variant}, under |-> body, kind |-> None]
Flat(body, kind) ==
    [form |-> "object", keys |-> IF kind = None THEN body ELSE body \cup {"kind"},
     under |-> {}, kind |-> kind]

Unwrap(p) ==
    LET tag == IF Cardinality(p.keys) = 1 THEN Resolve(CHOOSE k \in p.keys : TRUE) ELSE None
    IN  [tag |-> tag,
         keys |-> IF p.form = "text" THEN {} ELSE IF tag = None THEN p.keys ELSE p.under]

FirstOf(rules, otherwise) ==
    LET fits == {i \in DOMAIN rules : rules[i][1]}
    IN  IF fits = {} THEN otherwise ELSE rules[Min(fits)][2]

(* The heuristics for an object without a tag: the first that fits decides.   *)
FlatRules(keys, kind) ==
    LET has(S) == S \subseteq keys
        no(S) == S \cap keys = {}
    IN  <<  <<has({"bytecode"}) /\ no({"purpose_category"}), "ContractDeploy">>,
            <<has({"bytecode"}) /\ ~no({"asset_name", "asset_symbol"}),
              "ContractDeployWithPurposeAndMetadata">>,
            <<has({"bytecode"}), "ContractDeployWithPurpose">>,
            <<has({"contract"}), "ContractCall">>,
            <<has({"calls"}), "Batch">>,
            <<has({"to", "amount"}), "Transfer">>,
            <<Resolve(kind) # None, Resolve(kind)>>,
            <<has({"name", "salt", "target", "years"}), "NameRegister">>,
            <<has({"name", "years"}) /\ no({"salt", "target", "new_owner"}), "NameRenew">>,
            <<has({"name", "new_owner"}), "NameTransfer">>,
            <<has({"name", "target"}) /\ no({"salt", "years"}), "NameSetTarget">>,
            <<has({"commitment"}) /\ no({"name", "to", "amount"}), "NameCommit">>,
            <<has({"node_id", "node_signature"}), "ValidatorRegister">>,
            <<has({"node_id"}), "ValidatorDeregister">>,
            <<has({"amount"}) /\ keys \in {{"amount"}, {"amount", "unbond"}}, "Unbond">>,
            <<has({"amount"}) /\ Cardinality(keys) <= 2, "Bond">>,
            <<has({"amount"}), "Unbond">>,
            <<has({"subject", "vote"}), "QaPoolVote">>,
            <<has({"data"}) /\ ~no({"retention", "content_type"}), "PutBlob">>,
            <<has({"blob_id", "extend_blocks"}), "RenewMediaBlobPin">>,
            <<has({"blob_id", "ask_fee"}), "RegisterBlobSampleOffer">>,
            <<has({"blob_id"}) /\ ~no({"siblings", "challenger"}), "RespondBlobSampleServe">>,
            <<has({"blob_id", "provider", "chunk_count", "chunk_hash"}), "RespondBlobSampleServe">>,
            <<has({"blob_id", "provider", "chunk_count"}), "SettleBlobSampleMatch">>,
            <<has({"blob_id", "grantee"}), "GrantBlobDownload">>,
            <<has({"blob_id", "size"}) /\ ~no({"retention", "content_type"}), "BlobAnnounce">>,
            <<has({"blob_id", "chunk_index"}), "PayBlobSample">>,
            <<has({"slash_id"}), "SubmitSlashAppeal">>,
            <<has({"appeal_id", "aggregate_signature"}), "ResolveSlashAppealBlsAggregate">>,
            <<has({"appeal_id", "ballot_signature"}), "ResolveSlashAppealAttested">>,
            <<has({"appeal_id"}), "ResolveSlashAppeal">> >>
FlatKind(keys, kind) == FirstOf(FlatRules(keys, kind), "Unknown")

KindOf(p) == LET u == Unwrap(p)
             IN  IF u.tag # None THEN u.tag ELSE FlatKind(u.keys, p.kind)

(* What the "What you signed" sentence speaks of. A case of the switch that   *)
(* has no sentence of its own falls through to the next one.                  *)
SignedHeadline(kind, failed, sends) ==
    [about     |-> IF kind \in ValidatorVariants THEN "PutBlob" ELSE kind,
     attempted |-> failed /\ kind \in {"Bond", "Unbond", "Transfer", "Batch"},
     reverted  |-> /\ failed
                   /\ \/ kind \in {"Bond", "Unbond", "Transfer", "Batch"}
                      \/ kind = "ContractCall" /\ sends]

(* Batch steps: a transfer or a contract call, anything else is not known;    *)
(* the BOING a batch sends is what its calls carry.                           *)
StepKind(p) == LET k == KindOf(p) IN IF k \in {"Transfer", "ContractCall"} THEN k ELSE "Unknown"
BatchValue(steps) ==
    SumOf([i \in DOMAIN steps |-> IF steps[i].kind = "ContractCall" THEN steps[i].value ELSE 0])

----------------------------------------------------------------------------
(* Sections of a block page: neighbours of one kind and one signer.           *)

JoinsOfKind(group, tx) == tx.kind # "Unknown" /\ group.kind = tx.kind
Joins(group, tx) == JoinsOfKind(group, tx) /\ group.signer = tx.signer
Placed(groups, txs, i) ==
    IF groups # <<>> /\ Joins(Last(groups), txs[i])
    THEN [groups EXCEPT ![Len(groups)].items = Append(@, i)]
    ELSE Append(groups, [kind |-> txs[i].kind, signer |-> txs[i].signer, items |-> <<i>>])
GroupTxInsights(txs) ==
    LET groups[i \in 0..Len(txs)] == IF i = 0 THEN <<>> ELSE Placed(groups[i - 1], txs, i)
    IN  groups[Len(txs)]

----------------------------------------------------------------------------
(* Units. Below the height `from` of its chain an amount counts BOING, from   *)
(* it base units.                                                             *)

CONSTANT Base,        \* base units per BOING
         Switch       \* where the testnet went over to base units

ASSUME UnitAssumption == Base \in Nat \ {0} /\ Switch \in Nat \ {0}

UnitNetworks == {"testnet", "mainnet"}
RegistryKey(network) == IF network = "mainnet" THEN "mainnet" ELSE "testnet"

Fallback(network) ==
    [from |-> IF network = "mainnet" THEN 0 ELSE Switch, bps |-> 1, live |-> FALSE]

(* What a node reports overrides the fallback field by field; Silent is a call *)
(* that failed or a field the node leaves out.                                *)
Silent == -1
DeriveConfig(network, info, policy) ==
    [from |-> IF info = Silent THEN Fallback(network).from ELSE info,
     bps  |-> IF policy = Silent THEN Fallback(network).bps ELSE policy,
     live |-> info # Silent \/ policy # Silent]

(* A load that got no answer at all leaves the registry alone.                *)
LoadConfig(registry, network, info, policy) ==
    IF info = Silent /\ policy = Silent
    THEN registry
    ELSE [registry EXCEPT ![RegistryKey(network)] = DeriveConfig(network, info, policy)]

ToBaseUnits(amount, height, network, registry) ==
    IF height >= registry[RegistryKey(network)].from THEN amount ELSE amount * Base

----------------------------------------------------------------------------
(* What moved in the blocks of a sample. A block without receipts counts as   *)
(* one in which everything succeeded. The unit is looked up without naming a  *)
(* network.                                                                   *)

SucceededAll(block, i) == TRUE

Succeeded(block, i) == block.receipts = <<>> \/ block.receipts[i] # "failed"

MovedIn(block, kind, registry) ==
    SumOf([i \in {j \in DOMAIN block.txs : Succeeded(block, j) /\ block.txs[j].kind = kind} |->
              ToBaseUnits(block.txs[i].amount, block.height, None, registry)])

CountIn(block, kinds) ==
    Cardinality({i \in DOMAIN block.txs : Succeeded(block, i) /\ block.txs[i].kind \in kinds})
CountFailed(block) == Cardinality({i \in DOMAIN block.txs : ~Succeeded(block, i)})

Economics(blocks, registry) ==
    LET moved(kind) == SumOf([b \in DOMAIN blocks |-> MovedIn(blocks[b], kind, registry)])
        total == SumOf([b \in DOMAIN blocks |-> Len(blocks[b].txs)])
        failed == SumOf([b \in DOMAIN blocks |-> CountFailed(blocks[b])])
        stakes == SumOf([b \in DOMAIN blocks |-> CountIn(blocks[b], {"Bond", "Unbond", "Transfer"})])
    IN  [bond     |-> moved("Bond"),
         unbond   |-> moved("Unbond"),
         transfer |-> moved("Transfer"),
         failed   |-> failed,
         other    |-> IF total - failed - stakes > 0 THEN total - failed - stakes ELSE 0,
         total    |-> total]

(* Charts over the rows of a sample in height order: how long each block took *)
(* where the clocks of both are known and in order, the transfers so far, and *)
(* what a proposer has of the sample.                                         *)
IntervalSeries(rows) ==
    LET ordered(i) == rows[i - 1].time > 0 /\ rows[i].time >= rows[i - 1].time
    IN  [i \in {j \in 2..Len(rows) : ordered(j)} |->
            [height |-> rows[i].height, seconds |-> rows[i].time - rows[i - 1].time]]
CumulativeTransfers(moved) == [i \in DOMAIN moved |-> SumOf([j \in 1..i |-> moved[j]])]
ProposerShare(proposers) ==
    [p \in Range(proposers) |-> Cardinality({i \in DOMAIN proposers : proposers[i] = p})]

(* The fee for some gas: per begun transfer's worth below the switch, then by *)
(* price and share with a fixed part.                                         *)
Fee(gas, height, network, registry, policy) ==
    CASE gas <= 0 -> 0
      [] gas > 0 /\ height >= registry[RegistryKey(network)].from ->
             (gas * policy.price * Min({policy.bps, 10000})) \div 10000 + policy.fixed
      [] OTHER -> ((gas + policy.transfer - 1) \div policy.transfer) * Base

----------------------------------------------------------------------------
(* Tips: one per transaction, -1 for what is no number; a list in which       *)
(* nobody tipped is dropped.                                                  *)

NormalizeTips(tips, count) ==
    LET aligned == [i \in 1..count |-> IF i \in DOMAIN tips /\ tips[i] > 0 THEN tips[i] ELSE 0]
    IN  IF \E i \in 1..count : aligned[i] > 0 THEN aligned ELSE <<>>
PriorityTip(tips, i, own) ==
    IF i \in DOMAIN tips /\ tips[i] > 0 THEN tips[i] ELSE IF own > 0 THEN own ELSE 0

(* A receipt the node does not have: head and window decide what may be said. *)
Retention(node, build, default) ==
    FirstOf(<<<<node # -1, node>>, <<build # -1, build>>>>, default)
MissingReceipt(head, window) ==
    FirstOf(<<<<window = 0, "not_found">>,
              <<head = -1, "unknown">>,
              <<head - window <= 0, "not_found">>>>, "maybe_pruned")
=============================================================================
