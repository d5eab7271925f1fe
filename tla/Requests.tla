------------------------------- MODULE Requests -------------------------------
(* What the client asks, and what it makes of an answer: the calls with their *)
(* keys in the caches and the policy they pass on their way, the errors and   *)
(* what is said of them, and the answers that need more than one: a search, a *)
(* proof, the calldata of a block, and documents found elsewhere.             *)
EXTENDS Integers, Sequences, FiniteSets, SequencesExt, FiniteSetsExt

CONSTANTS Nil,            \* nothing
          TipTtl, HistoricalTtl, ReceiptTtl,
          Lookback,       \* blocks whose root is compared with that of a proof
          RestoreCap,     \* size of the calldata that is fetched again
          TextCap         \* size of the text that is read

ASSUME RequestAssumption ==
    /\ {TipTtl, HistoricalTtl, ReceiptTtl, Lookback, RestoreCap, TextCap} \subseteq Nat
    /\ TipTtl < HistoricalTtl /\ TextCap > 0
    /\ Nil \notin Int

----------------------------------------------------------------------------
(* A call: its method and parameters, and the key of its cached answer.       *)
Cached(method, args) == [method |-> method, params |-> args, key |-> <<method, args>>]
Uncached(method, args) == [method |-> method, params |-> args, key |-> Nil]

KeyWithoutCode(method, id, receipts, code) == <<method, <<id, receipts>>>>
BlockKey(method, id, receipts, code) == <<method, <<id, receipts, code>>>>
BlockCall(method, id, receipts, code) ==
    [method |-> method,
     params |-> IF code /\ ~receipts THEN <<id>> ELSE <<id, receipts, code>>,
     key |-> BlockKey(method, id, receipts, code)]

(* How long a block found by height is kept; without a tip it may be the tip. *)
BlockTtl(height, receipts, tip) ==
    IF receipts THEN ReceiptTtl
    ELSE IF tip # Nil /\ height < tip - 1 THEN HistoricalTtl ELSE TipTtl

KeptMethods == {"boing_chainHeight", "boing_getSyncState", "boing_qaPoolList", "boing_qaPoolConfig",
    "boing_getQaRegistry", "boing_getRpcMethodCatalog", "boing_getNetworkInfo", "boing_getNetworkFeePolicy"}
NameMethods == {"boing_reverseName", "boing_resolveName", "boing_getNameInfo", "boing_namesOwnedBy"}

(* Of a QA check, a parameter is given only if all before it are.             *)
QaCheckParams(given) ==
    LET upTo == {n \in 0..Len(given) : \A i \in 1..n : given[i] # Nil}
    IN  SubSeq(given, 1, Max(upTo))

ClientCalls(ids) ==
    {BlockCall(m, i, r, c) : m \in {"boing_getBlockByHeight", "boing_getBlockByHash"},
                             i \in ids, r \in BOOLEAN, c \in BOOLEAN}
    \cup {Cached(m, <<>>) : m \in KeptMethods}
    \cup {Cached(m, <<i>>) : m \in NameMethods \cup {"boing_getAccount"}, i \in ids}
    \cup {Uncached(m, <<i>>) : m \in {"boing_getTransactionReceipt", "boing_faucetRequest", "boing_getAccountProof"}, i \in ids}
    \cup {Uncached(m, <<i, j>>) : m \in {"boing_getContractStorage", "boing_verifyAccountProof"}, i \in ids, j \in ids}
    \cup {Uncached("boing_qaCheck", <<0>> \o QaCheckParams(g)) : g \in [1..4 -> {0, Nil}]}
    \cup {Uncached("boing_health", <<>>)}

(* What the proxy lets pass: one call of these, of at most so many parameters, *)
(* with an id that is a safe integer or else none.                            *)
AllowedRpcMethods == KeptMethods \cup NameMethods \cup {"boing_health", "boing_getBlockByHeight", "boing_getBlockByHash",
    "boing_getTransactionReceipt", "boing_getAccount", "boing_getContractCode", "boing_getContractStorage",
    "boing_getAccountProof", "boing_verifyAccountProof", "boing_qaCheck", "boing_faucetRequest", "boing_checkNames",
    "boing_simulateContractCall", "boing_getBlobMeta"}
MaxRpcParams == 8

ValidateProxyRequest(body) ==
    LET id == IF body.safeId THEN body.id ELSE 0 IN
    CASE ~body.single -> [kind |-> "invalid", id |-> 0]
      [] body.single /\ ~body.wellFormed -> [kind |-> "invalid", id |-> id]
      [] body.single /\ body.wellFormed /\ body.call.method \notin AllowedRpcMethods ->
             [kind |-> "method_not_allowed", id |-> id]
      [] OTHER -> [kind |-> IF Len(body.call.params) > MaxRpcParams THEN "invalid" ELSE "ok", id |-> id]

----------------------------------------------------------------------------
(* Errors. A wallet wraps the error of the node; what the node says counts.   *)
Reasons == {"unknown_sender", "stale_nonce", "insufficient_fee", "already_in_mempool", "free_pending_limit",
            "free_tx_balance_gate", "native_value_not_active", "pool_full", "deployer_cap"}
CodeSays(code) ==
    CASE code = -32016 -> "faucet_limit" [] code = -32050 -> "qa_rejected" [] code = -32051 -> "qa_unsure"
      [] code = -32052 -> "no_item" [] code = -32053 -> "not_eligible" [] code = -32054 -> "pool_off"
      [] code = -32055 -> "pool_full" [] code = -32056 -> "deployer_cap" [] code = -32057 -> "no_operator"
      [] OTHER -> "unknown"

ToRpcErrorLike(err) ==
    IF ~err.nested THEN [code |-> err.code, reason |-> err.reason]
    ELSE [code |-> IF err.inner.code # 0 THEN err.inner.code ELSE err.code, reason |-> err.inner.reason]

DescribeRpcRejection(err) ==
    LET like == ToRpcErrorLike(err)
    IN  IF like.reason \in Reasons THEN like.reason ELSE CodeSays(like.code)

GetFriendlyRpcErrorMessage(err) ==
    LET rejection == DescribeRpcRejection(err)
    IN  IF err.limited THEN "too_many_requests"
        ELSE IF rejection # "unknown" THEN rejection
        ELSE IF err.words = "unreachable" THEN "nodes_unavailable"
        ELSE IF err.words = "too_large" THEN "block_too_large"
        ELSE "message"

MapWalletErrorToUi(err) ==
    LET rejection == DescribeRpcRejection(err)
    IN  IF err.cancelled THEN "cancelled"
        ELSE IF rejection # "unknown" THEN rejection
        ELSE "message"

(* Routes that pass the answer of a service on.                               *)
AccountNftsStatus(asked, configured, up) ==
    CASE ~asked.network \/ ~asked.id -> 400
      [] asked.network /\ asked.id /\ ~configured -> 503
      [] asked.network /\ asked.id /\ configured /\ (up.down \/ ~up.json) -> 502
      [] OTHER -> IF up.status \in 200..299 THEN 200 ELSE IF up.status \in 400..599 THEN up.status ELSE 502
BlobAccessStatus(asked, configured, up) ==
    IF ~asked.network \/ ~asked.id \/ ~configured THEN 400
    ELSE IF up.down \/ ~up.json \/ up.error THEN 502 ELSE 200
NftItemStatus(asked, configured, up) ==
    IF ~asked.network \/ ~asked.id \/ ~configured THEN 400
    ELSE IF up.down \/ up.error THEN 502 ELSE IF up.found THEN 200 ELSE 404

----------------------------------------------------------------------------
(* The search bar. A text: its length, its characters, hyphens where a name   *)
(* may have none, whether it begins with 0x and whether it ends in .boing,    *)
(* both of which are not counted.                                             *)
OnlyDigits(q) == q.chars = {"digit"} /\ ~q.prefixed /\ ~q.suffixed
IsHex64(q) == q.length = 64 /\ q.chars \subseteq {"digit", "hex"} /\ ~q.suffixed
NormalizeBoingName(q) ==
    /\ ~q.prefixed /\ q.length \in 3..32
    /\ q.chars \subseteq {"digit", "hex", "letter", "hyphen"}
    /\ ~q.misplaced /\ q.chars # {"digit"}
    /\ ~(q.length >= 32 /\ q.chars \subseteq {"digit", "hex"})
LooksLikeBoingName(q) == ~OnlyDigits(q) /\ ~IsHex64(q) /\ NormalizeBoingName(q)

FoundByBoth(receipt, block) ==
    IF "fails" \in {receipt, block} THEN "asset"
    ELSE IF receipt = "found" THEN "tx" ELSE IF block = "found" THEN "block" ELSE "asset"
FoundBy(receipt, block) ==
    IF receipt = "found" THEN "tx" ELSE IF block = "found" THEN "block" ELSE "asset"
Search(q, receipt, block) ==
    IF LooksLikeBoingName(q) THEN "name"
    ELSE IF OnlyDigits(q) THEN "height"
    ELSE IF IsHex64(q) THEN FoundBy(receipt, block) ELSE "error"

(* An account proof: what the node says of it, and the newest of the blocks   *)
(* looked at whose root it ends in.                                           *)
FindRootMatch(root, heights, roots) ==
    LET same == {h \in heights : roots[h] = root} IN IF same = {} THEN Nil ELSE Max(same)
CheckAccountProof(root, verifies, head, roots, missing) ==
    LET recent == Max({0, head - Lookback + 1})..head
        matched == FindRootMatch(root, recent \ missing, roots)
    IN  IF verifies = "fails" THEN Nil
        ELSE [verified |-> verifies, matched |-> matched,
              inspected |-> {h \in recent : matched = Nil \/ h >= matched}]

(* When the storage tree changes: what the node says, null meaning never, or  *)
(* else what the build says. A field may stand one level down.                *)
Lacking == -3
Malformed == -2
NoHeight == -1
FindNodeInfoField(info) == IF info.top # Lacking THEN info.top ELSE info.below
ResolveStorageActivation(info, build) ==
    LET field == FindNodeInfoField(info)
        node == IF field = NoHeight THEN "off" ELSE IF field >= 0 THEN "height" ELSE "unknown"
    IN  IF node # "unknown" THEN [is |-> node, at |-> field]
        ELSE [is |-> IF build >= 0 THEN "height" ELSE "unknown", at |-> build]
StorageTreeModeAt(height, activation) ==
    IF activation.is = "unknown" THEN "unknown"
    ELSE IF activation.is = "height" /\ height >= activation.at THEN "v2" ELSE "legacy"
DescribeActivationStatus(head, activation) ==
    IF activation.is # "height" THEN [state |-> activation.is, remaining |-> Nil]
    ELSE IF head = NoHeight THEN [state |-> "pending", remaining |-> Nil]
    ELSE IF head >= activation.at THEN [state |-> "active", remaining |-> Nil]
    ELSE [state |-> "pending", remaining |-> activation.at - head]

(* The calldata a slim block leaves out, copied from the full one if that has *)
(* as many transactions, by the same senders.                                 *)
Restorable(tx) == tx.kind = "ContractCall" /\ tx.omitted /\ tx.size <= RestoreCap
RestoreBlockCalldata(block, full) ==
    IF full = Nil THEN block
    ELSE IF Len(full) # Len(block) THEN block
    ELSE [i \in DOMAIN block |->
            IF /\ Restorable(block[i]) /\ full[i].sender = block[i].sender
               /\ full[i].kind = "ContractCall" /\ ~full[i].omitted
            THEN [block[i] EXCEPT !.omitted = FALSE, !.data = full[i].data] ELSE block[i]]

----------------------------------------------------------------------------
(* Documents from gateways, and what is shown of them.                        *)
ReadTextCapped(body) == ~body.breaks /\ body.declared <= TextCap /\ body.size <= TextCap

(* The first gateway that serves a document decides, whatever the others do.  *)
FitsMetadata(g) ==
    /\ g.ok /\ ReadTextCapped(g) /\ g.size > 0
    /\ g.object \/ g.type = "json"
    /\ g.parses
ResolveOffchainTokenMetadata(gateways) == SelectInSeq(gateways, FitsMetadata)

(* A name, a symbol: text, the address of a medium, or an object with fields. *)
IsText(x) == x # Nil /\ x \notin {"url"}
Tells(field, key) == IF field.form = "object" THEN field[key] ELSE Nil
FirstText(fields, key) ==
    LET i == SelectInSeq(fields, LAMBDA f : IsText(Tells(f, key)))
    IN  IF i = 0 THEN Nil ELSE fields[i][key]
HumanizeMetadataField(field) ==
    IF field.form = "object" THEN (IF IsText(field.name) THEN field.name ELSE Nil)
    ELSE IF field.form = "text" THEN field.text ELSE Nil
ResolveImageUrlFromSources(fields) ==
    LET i == SelectInSeq(fields, LAMBDA f : f.form = "media" \/ Tells(f, "image") = "url")
    IN  IF i = 0 THEN Nil ELSE fields[i].of
ParseAssetDisplayMetadata(name, symbol) ==
    LET fields == <<name, symbol>>
        named == FirstText(fields, "name")
        shown == IF named # Nil THEN named ELSE HumanizeMetadataField(name)
        ticker == FirstText(fields, "symbol")
        other == HumanizeMetadataField(symbol)
    IN  [name |-> shown,
         symbol |-> IF ticker # Nil THEN ticker ELSE IF other = shown THEN Nil ELSE other,
         image |-> ResolveImageUrlFromSources(fields)]
=============================================================================
