------------------------------ MODULE Answers ------------------------------
(***************************************************************************)
(* What is asked and what is made of the answers: one request per          *)
(* behaviour, of something that small sets of texts, nodes, wallets,       *)
(* services and documents can be.                                          *)
(***************************************************************************)
EXTENDS Requests

VARIABLE answer

Unanswered == [of |-> "nothing"]
AnswerInit == answer = Unanswered
Answered(with) == answer' = with

-----------------------------------------------------------------------------
\* Two calls with the keys of their answers, and how the first passes the proxy.
AskCall ==
  \E c, d \in ClientCalls({1, 2}) : \E id \in {1, 2} :
    Answered([of |-> "call", first |-> c, second |-> d, id |-> id,
              verdict |-> ValidateProxyRequest([single |-> TRUE, wellFormed |-> TRUE, safeId |-> TRUE,
                                                id |-> id, call |-> c])])

\* A rejection by the node, as it is and as a wallet hands it on, and a failure on the way.
Rejections == [reason: {"stale_nonce", "pool_full", "other"}, code: {-32016, -32053, -32601}]
Bare(r) == [nested |-> FALSE, code |-> r.code, reason |-> r.reason, inner |-> r,
            limited |-> FALSE, cancelled |-> FALSE, words |-> "other"]
Wrapped(r, outer) == [Bare(r) EXCEPT !.nested = TRUE, !.code = outer, !.reason = "other"]
AskError ==
  \E r \in Rejections, outer \in {4900, -32603, -32053}, words \in {"unreachable", "too_large", "other"} :
    Answered([of |-> "error", rejection |-> r,
              direct |-> GetFriendlyRpcErrorMessage([Bare(r) EXCEPT !.words = words]),
              wallet |-> MapWalletErrorToUi(Wrapped(r, outer))])

Services == [down: BOOLEAN, json: BOOLEAN, error: BOOLEAN, found: BOOLEAN, status: {200, 302, 404, 500}]
AskRoutes ==
  \E asked \in [network: BOOLEAN, id: BOOLEAN], configured \in BOOLEAN, up \in Services :
    Answered([of |-> "route", asked |-> asked, configured |-> configured, up |-> up,
              nfts |-> AccountNftsStatus(asked, configured, up),
              blob |-> BlobAccessStatus(asked, configured, up),
              item |-> NftItemStatus(asked, configured, up)])

-----------------------------------------------------------------------------
Texts == {q \in [length: {2, 3, 32, 64}, chars: (SUBSET {"digit", "hex", "letter", "hyphen", "other"}) \ {{}},
                 prefixed: BOOLEAN, suffixed: BOOLEAN, misplaced: BOOLEAN] :
            q.misplaced => "hyphen" \in q.chars}
Fates == {"found", "none", "fails"}
AskSearch ==
  \E q \in Texts : \E receipt, block \in IF IsHex64(q) THEN Fates ELSE {"none"} :
    Answered([of |-> "search", q |-> q, receipt |-> receipt, block |-> block,
              goes |-> Search(q, receipt, block)])

\* A proof built on one of the blocks of a chain that goes on meanwhile.
AskProof ==
  \E roots \in [0..3 -> {1, 2}], head \in {1, 3} : \E at \in 0..head, missing \in SUBSET ((head - 1)..head) :
    Answered([of |-> "proof", roots |-> roots, head |-> head, at |-> at, missing |-> missing,
              got |-> CheckAccountProof(roots[at], "yes", head, roots, missing)])

StorageTold(top, below, build, head) ==
  LET activation == ResolveStorageActivation([top |-> top, below |-> below], build)
  IN  [of |-> "storage", top |-> top, below |-> below, build |-> build, head |-> head,
       status |-> DescribeActivationStatus(head, activation),
       modes |-> [h \in 0..3 |-> StorageTreeModeAt(h, activation)]]
AskStorage ==
  \E top, below \in {Lacking, Malformed, NoHeight, 1, 2}, build \in {NoHeight, 1, 3}, head \in -1..3 :
    Answered(StorageTold(top, below, build, head))

\* A block, the slim view of it, and what comes when it is asked for whole.
Whole == [sender: {1, 2}, kind: {"ContractCall", "Transfer"}, size: {RestoreCap, RestoreCap + 1},
          omitted: {FALSE}, data: {"swap", "approve"}]
Slim(tx) == IF tx.kind = "ContractCall" THEN [tx EXCEPT !.omitted = TRUE, !.data = "none"] ELSE tx

\* Nothing is neither a block nor a name.
ASSUME AnswerAssumption == Nil \notin [1..2 -> Whole] /\ Nil \notin {"url", "Coin", "CN"}

AskRestore ==
  \E block \in [1..2 -> Whole], other \in {Nil} \cup [1..1 -> Whole] \cup [1..2 -> {Slim(t) : t \in Whole}] :
    \E whole \in {block, other} :
      Answered([of |-> "restore", block |-> block, whole |-> whole,
                got |-> RestoreBlockCalldata([i \in 1..2 |-> Slim(block[i])], whole)])

\* Documents served by gateways, each with at most one flaw, and fields of an asset.
Proper == [ok |-> TRUE, breaks |-> FALSE, declared |-> 0, size |-> TextCap, object |-> TRUE, type |-> "text",
         parses |-> TRUE]
Documents == {Proper, [Proper EXCEPT !.ok = FALSE], [Proper EXCEPT !.breaks = TRUE], [Proper EXCEPT !.declared = TextCap + 1],
           [Proper EXCEPT !.size = TextCap + 1], [Proper EXCEPT !.size = 0], [Proper EXCEPT !.parses = FALSE],
           [Proper EXCEPT !.object = FALSE], [Proper EXCEPT !.object = FALSE, !.type = "json"]}
AskMetadata ==
  \E gateways \in UNION {[1..n -> Documents] : n \in 0..3} :
    Answered([of |-> "metadata", gateways |-> gateways, from |-> ResolveOffchainTokenMetadata(gateways)])

Fields == [form: {"object"}, name: {Nil, "url", "Coin"}, symbol: {Nil, "url", "CN"}, image: {Nil, "url"},
           text: {Nil}, of: {1, 2}]
          \cup [form: {"text"}, name: {Nil}, symbol: {Nil}, image: {Nil}, text: {"Coin", "CN"}, of: {1, 2}]
          \cup [form: {"media", "none"}, name: {Nil}, symbol: {Nil}, image: {Nil}, text: {Nil}, of: {1, 2}]
AskDisplay ==
  \E name, symbol \in Fields :
    /\ name.of = 1 /\ symbol.of = 2
    /\ Answered([of |-> "display", name |-> name, symbol |-> symbol,
                 got |-> ParseAssetDisplayMetadata(name, symbol)])

AnswerNext ==
  /\ answer = Unanswered
  /\ \/ AskCall \/ AskError \/ AskRoutes \/ AskSearch \/ AskProof \/ AskStorage \/ AskRestore
     \/ AskMetadata \/ AskDisplay
AnswerSpec == AnswerInit /\ [][AnswerNext]_answer

-----------------------------------------------------------------------------
\* Whatever the client asks passes the proxy with its id, and no two calls that the node would
\* answer differently share a cached answer.
CallsPass ==
  answer.of = "call" =>
    LET c == answer.first  d == answer.second IN
    /\ answer.verdict = [kind |-> "ok", id |-> answer.id]
    /\ (c.key = d.key /\ c.key # Nil) => c.method = d.method /\ c.params = d.params

\* A rejection that is understood is told alike whether a wallet wraps it or not, and in spite
\* of words that look like trouble on the way.
RejectionsTold ==
  answer.of = "error" =>
    LET r == answer.rejection
        understood == r.reason # "other" \/ r.code # -32601
    IN  /\ understood => answer.direct = answer.wallet
        /\ r.reason = "stale_nonce" => answer.wallet = "stale_nonce"
        /\ answer.direct = "nodes_unavailable" => ~understood

\* A route blames the caller, or itself, only if it could not ask, and the service if it could
\* not answer; it succeeds only if the service did.
BlamesRightly ==
  answer.of = "route" =>
    LET up == answer.up
        could == answer.asked.network /\ answer.asked.id /\ answer.configured
    IN  /\ \A status \in {answer.nfts, answer.blob, answer.item} :
             /\ ~could <=> status \in {400, 503}
             /\ could /\ up.down <=> status = 502 /\ up.down
        /\ could /\ up.json /\ ~up.down /\ ~up.error =>
             /\ answer.nfts = 200 <=> up.status = 200
             /\ answer.blob = 200
             /\ answer.item = IF up.found THEN 200 ELSE 404

\* What the client asks comes through: it passes the proxy, is not confused with another call,
\* and a refusal is told for what it is and blamed on whom it is due.
CallsComeThrough == CallsPass /\ RejectionsTold /\ BlamesRightly

\* A search finds what either lookup found, though the other failed; names, heights and hashes
\* are not taken for each other.
SearchFinds ==
  answer.of = "search" =>
    LET q == answer.q IN
    /\ IsHex64(q) /\ q.chars # {"digit"} =>
         /\ answer.goes = "tx" <=> answer.receipt = "found"
         /\ answer.goes = "block" <=> answer.block = "found" /\ answer.receipt # "found"
    /\ answer.goes = "name" <=> NormalizeBoingName(q)
    /\ ~q.suffixed /\ q.length = 64 /\ q.chars \subseteq {"digit", "hex"} => answer.goes \notin {"name", "error"}

\* A proof built within the lookback is found in a block that has its root, no older than the
\* block it was built on, and every newer one was looked at.
ProofsFound ==
  answer.of = "proof" =>
    LET got == answer.got  root == answer.roots[answer.at] IN
    /\ answer.head - answer.at < Lookback /\ answer.at \notin answer.missing =>
         got.matched # Nil /\ got.matched >= answer.at
    /\ got.matched # Nil =>
         /\ answer.roots[got.matched] = root /\ got.matched \notin answer.missing
         /\ got.inspected = got.matched..answer.head

\* The node's word on the storage tree outweighs the build's, and the status told of the head
\* agrees with what is told of each height: the change comes after so many blocks as remain.
ActivationAgrees ==
  answer.of = "storage" =>
    LET status == answer.status  head == answer.head  modes == answer.modes IN
    /\ answer.top = NoHeight => \A h \in 0..3 : modes[h] = "legacy"
    /\ answer.top \in {1, 2} => \A h \in 0..3 : modes[h] = "v2" <=> h >= answer.top
    /\ head >= 0 => (status.state = "active" <=> modes[head] = "v2")
    /\ status.remaining # Nil =>
         \A h \in 0..3 : modes[h] = "v2" <=> h >= head + status.remaining

\* A slim block gets back calldata that is its own, all of it that is small if the block comes
\* whole, and is otherwise left as it was.
CalldataRestored ==
  answer.of = "restore" =>
    LET block == answer.block  got == answer.got IN
    \A i \in 1..2 :
      /\ got[i].kind = "ContractCall" /\ answer.whole = block /\ block[i].size <= RestoreCap => got[i] = block[i]
      /\ got[i] \notin {block[i], Slim(block[i])} =>
           answer.whole # block /\ answer.whole[i].sender = block[i].sender
      /\ Slim(got[i]) = Slim(block[i])

\* The first document that fits is taken, though others are broken, too large or no documents;
\* what is shown as a name or symbol is no address, and an image that is offered is shown.
DocumentsShown ==
  /\ answer.of = "metadata" =>
       LET usable(g) == g = Proper \/ g = [Proper EXCEPT !.object = FALSE, !.type = "json"]
           i == answer.from
       IN  /\ i = 0 <=> \A j \in DOMAIN answer.gateways : ~usable(answer.gateways[j])
           /\ i # 0 => usable(answer.gateways[i]) /\ \A j \in 1..(i - 1) : ~usable(answer.gateways[j])
  /\ answer.of = "display" =>
       LET got == answer.got
           offers(f) == f.form = "media" \/ f.image = "url"
       IN  /\ "url" \notin {got.name, got.symbol}
           /\ got.image # Nil <=> offers(answer.name) \/ offers(answer.symbol)
           /\ answer.name.form = "text" /\ answer.symbol.form = "text" => got.name = answer.name.text
           /\ answer.symbol.symbol = "CN" /\ answer.name.symbol = Nil => got.symbol = "CN"

\* What is shown is what was asked for: a search goes where the thing is, a proof to its block,
\* a block has its own calldata, the storage tree changes when the node says, and an asset is
\* shown by a document of its own.
ShownIsWhatIsThere ==
  SearchFinds /\ ProofsFound /\ ActivationAgrees /\ CalldataRestored /\ DocumentsShown
=============================================================================
