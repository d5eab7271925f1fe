----------------------------- MODULE MCReadings -----------------------------
(* For TLC, what is shown and found: the readings of payloads and calldata,   *)
(* the lookups on the chain, requests and their answers, downloads, and the   *)
(* caches that the server keeps meanwhile.  They share no state, and a        *)
(* behaviour takes up one of them.                                            *)
EXTENDS Readings, Lookups, Answers, BlobDownload, ServerCaches, TLC

CONSTANTS tok1, tok2, acc1, acc2, net1, net2, pass1, pass2

MCCatalog == <<[id |-> "wide", selectors |-> {1, 20, 3, 4}], [id |-> "narrow", selectors |-> {1, 20}],
               [id |-> "same", selectors |-> {1, 20}]>>
MCCanonical == (Token :> "wide")
MCTemplates == (<<OpEq>> :> "narrow")

(* Chains of a few transactions, of accounts 1 and 2 and a contract of the    *)
(* latter; two of them in a block that holds them all.                        *)
Plain(sender, kind, parts) ==
    [sender |-> sender, nonce |-> 0, kind |-> kind, parts |-> parts, code |-> 0, salt |-> 0,
     listed |-> {}, returned |-> Nobody, receipt |-> "ok", purpose |-> "none", named |-> FALSE,
     hash |-> Absent]
Step(kind, to, data) == [kind |-> kind, to |-> to, data |-> data, words |-> <<>>]
Deploy(sender, nonce, kind) == [Plain(sender, kind, <<>>) EXCEPT !.nonce = nonce, !.code = 1]
CallOf(sender, data) == Plain(sender, "ContractCall", <<Step("ContractCall", Token, data)>>)
Good(chain) ==
    [chain |-> chain, head |-> Len(chain) - 1, badPages |-> {}, badBlocks |-> {}, missing |-> {},
     down |-> FALSE, breaks |-> FALSE, tellsCode |-> FALSE, codes |-> {}, tellsOutcome |-> FALSE, registered |-> {}]
Singly(txs) == [h \in DOMAIN txs |-> <<txs[h]>>]

Moves ==
    {Plain(1, "Transfer", <<Step("Transfer", 2, "none")>>),
     Plain(2, "Transfer", <<Step("Transfer", 1, "none")>>),
     Plain(2, "Batch", <<Step("Transfer", 1, "none"), Step("ContractCall", Token, "short")>>),
     [Plain(2, "Transfer", <<Step("Transfer", 2, "none")>>) EXCEPT !.listed = {1}],
     CallOf(1, "short"),
     Deploy(2, 0, "ContractDeploy"),
     [Deploy(2, 0, "ContractDeploy") EXCEPT !.receipt = "failed"]}
NodesOf(chain) ==
    LET good == Good(chain) IN
    {<<good>>, <<[good EXCEPT !.badPages = {1}]>>, <<[good EXCEPT !.badPages = {2}]>>,
     <<[good EXCEPT !.missing = {1}]>>, <<[good EXCEPT !.head = @ - 1]>>,
     <<[good EXCEPT !.breaks = TRUE], [good EXCEPT !.down = TRUE], good>>}
MCHistories ==
    UNION {[nodes: NodesOf(chain), account: {1, Token}, window: {2, 3}, preferScan: BOOLEAN] :
              chain \in {Singly(txs) : txs \in [1..3 -> Moves]} \cup {<<txs, <<txs[2], txs[1]>>>> : txs \in [1..2 -> Moves]}}

Deeds ==
    {Deploy(2, 0, "ContractDeploy"), Deploy(2, 1, "ContractDeployWithPurpose"), Deploy(1, 0, "ContractDeploy"),
     CallOf(1, "long"), CallOf(2, "mint"), [CallOf(2, "mint") EXCEPT !.receipt = "failed"]}
MCSearches ==
    [node: {[Good(Singly(deeds)) EXCEPT !.badPages = pages, !.badBlocks = blocks, !.tellsOutcome = tells] :
              deeds \in [1..4 -> Deeds], pages \in {{}, {1}, {2}}, blocks \in {{}, {0}, {2}}, tells \in BOOLEAN},
     target: {Token}, extra: {<<>>, <<1>>}, account: {2}]

(* Programs of two comparisons, in which data that looks like one or a        *)
(* comparison of another word may come first.                                 *)
Branches(slot) == [form: Forms, selector: {1, 20}, inverted: BOOLEAN, at: {slot}, bytes: {<<0>>}]
Noises == {<<>>, <<[Lone(7) EXCEPT !.form = "data", !.bytes = CodeOf(Lone(7))]>>, <<[Lone(7) EXCEPT !.at = 6]>>}
MCPrograms ==
    UNION {{[slot |-> slot, masked |-> masked, pieces |-> noise \o branches] :
              masked \in BOOLEAN, noise \in Noises, branches \in [1..2 -> Branches(slot)]} : slot \in {0, 5}}

(* What calls of a collection say, with the items they are about: none if it  *)
(* is no such call.                                                           *)
Said ==
    {[words |-> <<MintBatch, 1, 2, 8, 9, 0, 0, 0>>, items |-> {8, 9}], [words |-> <<MintBatch, 1, 2, 8, 9, 0>>, items |-> {}],
     [words |-> <<MintBatch, 1, 2, 7, 8, 0, 0, 1>>, items |-> {}], [words |-> <<TransferNft, 1, 7>>, items |-> {7}],
     [words |-> <<TransferNft, 1, 6>>, items |-> {6}], [words |-> <<SetMetadataHash, 9, 5>>, items |-> {9}]}
ASSUME ItemsAreSaid == \A s \in Said : ItemsOf(s.words) = s.items
CallWith(words) == Plain(1, "ContractCall", <<[Step("ContractCall", Token, "none") EXCEPT !.words = words]>>)
MCAssets ==
    {[Deploy(2, 0, "ContractDeployWithPurpose") EXCEPT !.purpose = "token", !.hash = 7],
     [Deploy(2, 0, "ContractDeploy") EXCEPT !.receipt = "failed"],
     [Deploy(2, 0, "ContractDeploy") EXCEPT !.receipt = "none", !.named = TRUE],
     [Deploy(2, 1, "ContractDeploy") EXCEPT !.returned = Token, !.purpose = "nft"],
     Deploy(Token, 0, "ContractDeploy"),
     [CallWith(<<TransferNft, 1, 7>>) EXCEPT !.receipt = "failed"],
     [CallWith(<<TransferNft, 1, 6>>) EXCEPT !.parts[1].to = 1]} \cup {CallWith(s.words) : s \in Said}
MCSurveys ==
    [node: {[Good(Singly(assets)) EXCEPT !.missing = missing, !.registered = registered] :
              assets \in [1..3 -> MCAssets], missing \in {{}, {2}}, registered \in {{}, {[token |-> Token, height |-> 1]}}},
     account: {2, Token}, window: {2}, storage: {{}, {1, 8, 9, 7, 6}}]

MCRegistries ==
    [slots: [1..3 -> [collection: {Nobody, 1, 2}, token: {Nobody, 2, Token}]], bad: SUBSET {1, 2}, assets: {{1, 2, Token}}]

MCTokens == <<tok1, tok2>>
Fine == <<"ok", "down">>
MCWeathers ==
    {[t \in 0..Horizon |-> IF t \in bad[1] THEN bad[2] ELSE Fine] :
       bad \in {<<{}, Fine>>} \cup ({{1}, {1, 2}} \X {<<"down", "lacks">>, <<"down", "down">>})}
Always == [t \in Things |-> Never]
MCChains == {[t \in Things |-> IF t \in late[1] THEN late[2] ELSE Never] :
               late \in {{"factory", "dex"}, {"dex"}, {"names"}, {"vault"}} \X {1}} \cup {Always}
MCAsks == {[kind |-> "context", contract |-> Vault, ids |-> <<>>],
           [kind |-> "context", contract |-> Unknown, ids |-> <<tok2, tok1>>],
           [kind |-> "page", contract |-> Unknown, ids |-> <<>>]}

MCSites == {[tokens |-> {}, override |-> Unset], [tokens |-> {pass1, Secret}, override |-> Unset],
            [tokens |-> {pass1}, override |-> net2]}
Stored(permitted, size, declares, knows) ==
    [permitted |-> permitted, size |-> size, declares |-> declares, knows |-> knows]
MCStores == {(net1 :> b @@ net2 :> Stored({acc2}, 1, TRUE, TRUE)) :
               b \in {Stored({acc1}, 1, TRUE, TRUE), Stored({acc1}, 2, TRUE, TRUE), Stored({acc1}, 2, FALSE, TRUE),
                      Stored({}, 1, TRUE, FALSE)}}

(* The others rest while one is taken up.                                     *)
Untold == [tokens |-> {}, override |-> Unset]
CachesRest ==
    /\ clock = 0 /\ \A r \in Readers : requests[r] = Unasked
    /\ since = Always /\ \A t \in 0..Horizon : weather[t] = Fine
NoDownload == <<Untold, net1 :> Stored({acc1}, 1, TRUE, TRUE) @@ net2 :> Stored({acc2}, 1, TRUE, TRUE), Unset,
                [net |-> net1, account |-> Unset, says |-> ""], Idle, 0, 0, Undone>>
DownloadsRest == gestures = 0 /\ blobVars = NoDownload
OthersRest == CachesRest /\ DownloadsRest
MCInit == ReadInit /\ LookInit /\ AnswerInit /\ CachesInit /\ BlobInit /\ (CachesRest \/ DownloadsRest)
ToRead == OthersRest /\ LookInit /\ AnswerInit /\ UNCHANGED <<lookup, answer, cachesVars, blobVars>>
ToAsk == OthersRest /\ ReadInit /\ LookInit /\ UNCHANGED <<reading, lookup, cachesVars, blobVars>>
ToLook == OthersRest /\ ReadInit /\ AnswerInit /\ UNCHANGED <<reading, answer, cachesVars, blobVars>>
Aside == ReadInit /\ LookInit /\ AnswerInit /\ UNCHANGED <<reading, lookup, answer>>
MCNext ==
    \/ ToRead /\ ReadNext
    \/ ToAsk /\ AnswerNext
    \/ ToLook /\ LookAtAssets
    \/ ToLook /\ LookAtHistory
    \/ ToLook /\ LookForDeploy
    \/ ToLook /\ LookAtCode
    \/ ToLook /\ LookAtContract
    \/ ToLook /\ LookAtLinks
    \/ Aside /\ DownloadsRest /\ CachesNext /\ UNCHANGED blobVars
    \/ Aside /\ CachesRest /\ BlobNext /\ UNCHANGED cachesVars
MCSpec == MCInit /\ [][MCNext]_<<reading, lookup, answer, cachesVars, blobVars>>

MCSymmetry == Permutations(Readers)
=============================================================================
