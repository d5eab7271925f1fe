----------------------------- MODULE TxDecoding -----------------------------
(* Reading the calldata of a contract call and its receipt. A word is a       *)
(* number: below Wide it fits in 128 bits, from Wide on it is an identifier,  *)
(* and below 256 it can be a selector. Every template takes the selector in   *)
(* word one and a word per parameter.                                         *)
EXTENDS Integers, Sequences, SequencesExt, FiniteSetsExt

CONSTANT Wide         \* the first word that is no 128-bit amount

ASSUME WideAssumption == Wide \in Nat /\ Wide > 256

IsAmount(word) == word < Wide
Nothing == <<>>       \* no call, no event, no token

(* A function of an interface: selector, name and parameters in order.        *)
Fn(selector, name, params) == [selector |-> selector, name |-> name, params |-> params]

AccountParams == {"to", "from", "spender", "recipient", "recipient_a", "recipient_b",
                  "token_a", "token_b", "admin", "pool", "account", "minter"}

FungibleV1 == {Fn(1, "transfer", <<"to", "amount">>), Fn(2, "mint_first", <<"to", "amount">>)}
FungibleV2 == FungibleV1 \cup
    {Fn(8, "approve", <<"spender", "amount">>), Fn(9, "transfer_from", <<"from", "to", "amount">>)}
PoolAdmin == {Fn(19, "set_tokens", <<"token_a", "token_b">>),
              Fn(20, "set_swap_fee_bps", <<"fee_bps">>), Fn(23, "set_fee_admin", <<"admin">>)}
PoolCustody == PoolAdmin \cup
    {Fn(16, "swap", <<"direction", "amount_in", "min_out", "deadline">>),
     Fn(21, "swap_to", <<"direction", "amount_in", "min_out", "recipient", "deadline">>),
     Fn(17, "add_liquidity", <<"amount_a", "amount_b", "min_liquidity", "deadline">>),
     Fn(18, "remove_liquidity", <<"liquidity", "min_a", "min_b", "deadline">>),
     Fn(22, "remove_liquidity_to",
        <<"liquidity", "min_a", "min_b", "recipient_a", "recipient_b", "deadline">>)}
PoolLedger == PoolAdmin \cup
    {Fn(16, "swap", <<"direction", "amount_in", "min_out">>),
     Fn(21, "swap_to", <<"direction", "amount_in", "min_out", "recipient">>),
     Fn(17, "add_liquidity", <<"amount_a", "amount_b", "min_liquidity">>),
     Fn(18, "remove_liquidity", <<"liquidity", "min_a", "min_b">>),
     Fn(22, "remove_liquidity_to",
        <<"liquidity", "min_a", "min_b", "recipient_a", "recipient_b">>)}
LpVaultV2 ==
    {Fn(192, "configure", <<"pool", "token_a", "token_b">>),
     Fn(193, "deposit", <<"amount_a", "amount_b", "min_shares", "deadline">>),
     Fn(194, "withdraw", <<"shares", "min_a", "min_b", "deadline">>),
     Fn(195, "transfer_shares", <<"to", "amount">>)}

RouterParams == <<"hops", "amount_in", "min_out", "recipient", "deadline">>
LedgerRouterName(selector) ==
    CASE selector = 224 -> "forward_pool_call"
      [] selector = 225 -> "forward_pool_call_v2"
      [] selector = 226 -> "forward_pool_call_v3"

Functions(interface) ==
    CASE interface \in {"fungible-v1", "lp-share-token"} -> FungibleV1
      [] interface = "fungible-v2" -> FungibleV2
      [] interface = "pool-custody" -> PoolCustody
      [] interface = "pool-ledger" -> PoolLedger
      [] interface = "lp-vault-v2" -> LpVaultV2
      [] OTHER -> {}

(* The selector: a word above a byte is none.                                 *)
SelectorOf(words) == IF words # <<>> /\ words[1] < 256 THEN words[1] ELSE -1

Call(interface, contract, name, params, words, hops, inner) ==
    [interface |-> interface, contract |-> contract, name |-> name,
     args |-> [p \in Range(params) |-> words[CHOOSE i \in DOMAIN params : params[i] = p]],
     hops |-> hops, inner |-> inner]

(* The function of an interface with this selector and this number of words.  *)
DecodeWithFunctions(interface, contract, words) ==
    LET fits == {f \in Functions(interface) :
                    f.selector = SelectorOf(words) /\ Len(f.params) + 1 = Len(words)}
        f == CHOOSE g \in fits : TRUE
    IN  IF fits = {} THEN Nothing
        ELSE <<Call(interface, contract, f.name, f.params, Tail(words), <<>>, Nothing)>>

DecodeAsLedger(pool, words) == DecodeWithFunctions("pool-ledger", pool, words)

(* The families are tried in turn for a pool of unknown version.              *)
DecodePoolCall(pool, words) ==
    LET custody == DecodeWithFunctions("pool-custody", pool, words)
    IN  IF custody # Nothing THEN custody ELSE DecodeWithFunctions("pool-ledger", pool, words)

DecodeCustodyRouter(contract, words) ==
    LET n == words[2]
        hops == [h \in 1..n |-> [pool |-> words[4 + 3 * h], direction |-> words[5 + 3 * h],
                                 tokenIn |-> words[6 + 3 * h]]]
    IN  IF /\ SelectorOf(words) = 241
           /\ Len(words) >= 9
           /\ n \in 1..4
           /\ Len(words) = 6 + 3 * n
           /\ \A h \in 1..n : hops[h].direction \in {0, 1}
        THEN <<Call("custody-router", contract, "swap", RouterParams, Tail(words), hops, Nothing)>>
        ELSE Nothing

(* The router forwards the rest of the calldata to the pool it names.         *)
DecodeLedgerRouter(contract, words) ==
    LET inner == DecodePoolCall(words[2], SubSeq(words, 3, Len(words)))
    IN  IF /\ SelectorOf(words) \in {224, 225, 226}
           /\ Len(words) >= 3
           /\ inner # Nothing
        THEN <<Call("ledger-router", contract, LedgerRouterName(words[1]), <<"pool">>,
                    Tail(words), <<>>, inner)>>
        ELSE Nothing

DecodeContractCall(contract, words, interface, isPool) ==
    CASE SelectorOf(words) = -1 -> Nothing
      [] interface = "custody-router" /\ SelectorOf(words) # -1 -> DecodeCustodyRouter(contract, words)
      [] interface = "ledger-router" /\ SelectorOf(words) # -1 -> DecodeLedgerRouter(contract, words)
      [] interface = "none" /\ SelectorOf(words) # -1 ->
             IF isPool THEN DecodePoolCall(contract, words) ELSE Nothing
      [] OTHER -> DecodeWithFunctions(interface, contract, words)

(* Identifiers worth a label: words that are no amounts.                      *)
ReferencedIds(words, listed) == {w \in Range(words) : ~IsAmount(w)} \cup listed

----------------------------------------------------------------------------
(* The receipt: its status, its logs of pools and vaults in order, and the    *)
(* words it returns. A log counts if it carries three 128-bit words.          *)

Events(receipt, labels) ==
    SelectSeq(receipt.logs, LAMBDA l : /\ l.label \in labels
                                       /\ Len(l.words) = 3
                                       /\ \A w \in Range(l.words) : IsAmount(w))

Tense(receipt) ==
    CASE receipt.status = "ok" -> "done"
      [] receipt.status = "failed" -> "attempted"
      [] OTHER -> "proposed"

Amount(call, name) ==
    IF name \in DOMAIN call.args /\ IsAmount(call.args[name]) THEN call.args[name] ELSE 0
Party(call, name) == IF name \in DOMAIN call.args THEN call.args[name] ELSE 0

(* A fact of a description: what is said, how much, of which token (0 when    *)
(* the tokens are not known and raw units are shown).                         *)
Fact(says, amount, token) == [says |-> says, amount |-> amount, token |-> token]
Described(kind, tense, facts, parties) ==
    [kind |-> kind, tense |-> tense, facts |-> facts, parties |-> parties]

Side(pair, which) == IF pair = <<>> THEN 0 ELSE pair[which]
PoolPair(pool, ctx) == IF pool \in DOMAIN ctx.pools THEN ctx.pools[pool] ELSE <<>>

(* Which token leaves a hop: the other one of its pool, if that is known.     *)
OtherSide(pair, tokenIn) ==
    CASE pair = <<>> -> 0
      [] pair # <<>> /\ tokenIn = Side(pair, 1) -> pair[2]
      [] pair # <<>> /\ tokenIn # Side(pair, 1) /\ tokenIn = Side(pair, 2) -> pair[1]
      [] OTHER -> 0

SwapHops(call, ctx) ==
    IF call.interface = "custody-router"
    THEN [h \in DOMAIN call.hops |->
            [in |-> call.hops[h].tokenIn,
             out |-> OtherSide(PoolPair(call.hops[h].pool, ctx), call.hops[h].tokenIn)]]
    ELSE LET pair == PoolPair(call.contract, ctx)
             ahead == Amount(call, "direction") = 0
         IN  <<[in |-> Side(pair, IF ahead THEN 1 ELSE 2), out |-> Side(pair, IF ahead THEN 2 ELSE 1)]>>

AmountReturned(receipt) ==
    IF receipt.returned # <<>> THEN Last(receipt.returned) ELSE -1

(* The output: the last swap of the logs, else the last word returned.        *)
AmountOut(receipt) ==
    LET swaps == Events(receipt, {"SWAP"})
    IN  CASE receipt.status # "ok" -> -1
          [] receipt.status = "ok" /\ swaps # <<>> -> Last(swaps).words[3]
          [] receipt.status = "ok" /\ swaps = <<>> /\ receipt.returned # <<>> ->
                 IF IsAmount(Last(receipt.returned)) THEN Last(receipt.returned) ELSE -1
          [] OTHER -> -1

DescribeSwap(call, sender, receipt, ctx) ==
    LET hops == SwapHops(call, ctx)
        sold == hops[1].in
        bought == Last(hops).out
        out == AmountOut(receipt)
        to == IF "recipient" \in DOMAIN call.args THEN call.args["recipient"] ELSE sender
    IN  Described("swap",
            IF receipt.status = "ok" /\ out = -1 THEN "proposed" ELSE Tense(receipt),
            {Fact("Sold", Amount(call, "amount_in"), sold),
             Fact("Minimum", Amount(call, "min_out"), bought)}
            \cup {Fact("Received", out, bought) : o \in {out} \ {-1}},
            <<sender, to>>)

DescribeLiquidity(call, sender, receipt, ctx) ==
    LET pair == PoolPair(call.contract, ctx)
        adds == call.name = "add_liquidity"
        events == IF receipt.status = "ok"
                  THEN Events(receipt, {IF adds THEN "ADDLP" ELSE "RMLP"}) ELSE <<>>
        told == events # <<>>
        w == IF told THEN events[1].words ELSE <<0, 0, 0>>
        a == IF told THEN w[1] ELSE Amount(call, "amount_a")
        b == IF told THEN w[2] ELSE Amount(call, "amount_b")
        side(says, n, which) == Fact(says, n, Side(pair, which))
    IN  IF adds
        THEN Described("add_liquidity", Tense(receipt),
                 {side("Deposited_A", a, 1), side("Deposited_B", b, 2),
                  IF told THEN Fact("LP_minted", w[3], 0)
                  ELSE Fact("Minimum_LP", Amount(call, "min_liquidity"), 0)}, <<sender, sender>>)
        ELSE Described("remove_liquidity", Tense(receipt),
                 {Fact("LP_burned", IF told THEN w[1] ELSE Amount(call, "liquidity"), 0)}
                 \cup IF told THEN {side("Received_A", w[2], 1), side("Received_B", w[3], 2)}
                      ELSE {side("Minimum_A", Amount(call, "min_a"), 1),
                            side("Minimum_B", Amount(call, "min_b"), 2)},
                 <<sender, Party(call, "recipient_a"), Party(call, "recipient_b")>>)

(* A vault's withdrawal log repeats the minimums: what was paid is in the     *)
(* pool's log.                                                                *)
DescribeVault(call, sender, receipt, ctx) ==
    LET pair == IF call.contract \in DOMAIN ctx.vaults THEN ctx.vaults[call.contract] ELSE <<>>
        side(says, n, which) == Fact(says, n, Side(pair, which))
        log(label) == IF receipt.status = "ok" THEN Events(receipt, {label}) ELSE <<>>
        deposit == log("DEPOSIT")
        paid == log("RMLP")
        told == deposit # <<>>
        d == IF told THEN deposit[1].words ELSE <<0, 0, 0>>
    IN  CASE call.name = "deposit" -> Described("vault_deposit", Tense(receipt),
                 IF told
                 THEN {side("Deposited_A", d[1], 1), side("Deposited_B", d[2], 2),
                       Fact("Shares_minted", d[3], 0)}
                 ELSE {side("Offered_A", Amount(call, "amount_a"), 1),
                       side("Offered_B", Amount(call, "amount_b"), 2),
                       Fact("Minimum_shares", Amount(call, "min_shares"), 0)}, <<sender, sender>>)
          [] call.name = "withdraw" -> Described("vault_withdraw", Tense(receipt),
                 {Fact("Shares_burned", Amount(call, "shares"), 0),
                  side("Minimum_A", Amount(call, "min_a"), 1),
                  side("Minimum_B", Amount(call, "min_b"), 2)}
                 \cup IF paid = <<>> THEN {}
                      ELSE {side("Received_A", paid[1].words[2], 1),
                            side("Received_B", paid[1].words[3], 2)}, <<sender, sender>>)
          [] OTHER -> Described("vault_transfer_shares", Tense(receipt),
                 {Fact("Shares", Amount(call, "amount"), 0)}, <<sender, Party(call, "to")>>)

DescribeToken(call, sender, receipt) ==
    Described(call.name, Tense(receipt), {Fact("Amount", Amount(call, "amount"), call.contract)},
              IF call.name = "transfer_from"
              THEN <<sender, Party(call, "from"), Party(call, "to")>>
              ELSE IF call.name = "approve" THEN <<sender, Party(call, "spender")>>
              ELSE <<sender, Party(call, "to")>>)

DescribeGeneric(call, sender, receipt) ==
    Described("call", IF receipt.status = "failed" THEN "attempted" ELSE "called",
              {Fact(p, Amount(call, p), 0) : p \in DOMAIN call.args \ AccountParams}, <<sender>>)

(* A call through a ledger router is described as the pool call inside it.    *)
Describe(call, sender, receipt, ctx) ==
    LET effective == IF call.inner = Nothing THEN call ELSE call.inner[1]
        pool == effective.interface \in {"pool-custody", "pool-ledger"}
    IN  CASE \/ call.interface = "custody-router"
             \/ pool /\ effective.name \in {"swap", "swap_to"} ->
                 DescribeSwap(effective, sender, receipt, ctx)
          [] pool /\ effective.name \in {"add_liquidity", "remove_liquidity", "remove_liquidity_to"} ->
                 DescribeLiquidity(effective, sender, receipt, ctx)
          [] call.interface = "lp-vault-v2"
             /\ call.name \in {"deposit", "withdraw", "transfer_shares"} ->
                 DescribeVault(call, sender, receipt, ctx)
          [] call.interface \in {"fungible-v1", "fungible-v2", "lp-share-token"}
             /\ call.name \in {"approve", "transfer", "transfer_from", "mint_first"} ->
                 DescribeToken(call, sender, receipt)
          [] OTHER -> DescribeGeneric(call, sender, receipt)
=============================================================================
