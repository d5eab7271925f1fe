------------------------------ MODULE Readings ------------------------------
(***************************************************************************)
(* What the explorer makes of the data it has fetched: one reading per     *)
(* behaviour, of something that small sets of payloads, blocks, calls and  *)
(* receipts can be.  The code that reads keeps no state.                   *)
(***************************************************************************)
EXTENDS TxPayloads, TxDecoding

CONSTANTS
  Amounts,   \* amounts and other small words
  Ids,       \* words that are identifiers
  Longest,   \* bound: transactions of a block page
  Sampled,   \* bound: blocks of a sample
  Held,      \* bound: transactions of a block of a sample
  Rows,      \* bound: rows of a chart
  LastClock  \* bound: the clock of a row, 0 if it is not known

ASSUME ReadingAssumption ==
  /\ Amounts \subseteq 1..(Wide - 1) /\ Amounts # {} /\ Ids \subseteq {i \in Nat : i >= Wide} /\ Ids # {}
  /\ {Longest, Sampled, Held, LastClock} \subseteq Nat /\ Rows \in Nat \ {0}

VARIABLE reading

Unread == [of |-> "nothing"]
ReadInit == reading = Unread

UpTo(n, S) == UNION {[1..k -> S] : k \in 0..n}

-----------------------------------------------------------------------------
\* The transactions of a block page.
ReadSections ==
  /\ reading = Unread
  /\ \E txs \in UpTo(Longest, [kind: {"Transfer", "Bond", "Unknown"}, signer: {1, 2}]) :
       reading' = [of |-> "sections", txs |-> txs, groups |-> GroupTxInsights(txs)]

\* A payload, tagged with its variant, flat, flat with its kind, and as a bare word.
ReadPayload ==
  /\ reading = Unread
  /\ \E v \in Variants :
       reading' = [of |-> "payload", variant |-> v,
                   tagged |-> KindOf(Tagged(v, Shape(v))), flat |-> KindOf(Flat(Shape(v), None)),
                   named |-> KindOf(Flat(Shape(v), v)), text |-> KindOf(Text(v)),
                   step |-> StepKind(Tagged(v, Shape(v))),
                   signed |-> SignedHeadline(KindOf(Tagged(v, Shape(v))), TRUE, FALSE)]

\* A sample of blocks of a network, after what its node said of units, if anything.
Configs ==
  LET start == [n \in UnitNetworks |-> Fallback(n)]
  IN  {LoadConfig(start, network, info, policy) :
         network \in UnitNetworks, info \in {Silent, Switch + 1}, policy \in {Silent, 2}}
SampleBlocks ==
  {b \in [height: {Switch - 1, Switch + 1}, txs: UpTo(Held, [kind: {"Transfer", "Bond", "Batch"}, amount: Amounts]),
          receipts: UpTo(Held, {"failed", "ok"})] : b.receipts = <<>> \/ Len(b.receipts) = Len(b.txs)}
ReadEconomy ==
  /\ reading = Unread
  /\ \E network \in UnitNetworks, blocks \in UpTo(Sampled, SampleBlocks), registry \in Configs :
       reading' = [of |-> "economy", network |-> network, blocks |-> blocks,
                   registry |-> registry, totals |-> Economics(blocks, registry)]

\* Calldata that a wallet encodes for a function of an interface that is told, or only
\* known to be a pool.
Argument(p) ==
  IF p \in AccountParams THEN Ids ELSE IF p = "direction" THEN {0, 1} ELSE Amounts
Arguments(f) == {args \in [Range(f.params) -> UNION {Argument(p) : p \in Range(f.params)}] :
                   \A p \in Range(f.params) : args[p] \in Argument(p)}
Encode(f, args) == <<f.selector>> \o [i \in DOMAIN f.params |-> args[f.params[i]]]
Known == {"fungible-v1", "fungible-v2", "pool-custody", "pool-ledger", "lp-vault-v2"}
Contract == CHOOSE i \in Ids : TRUE
Pools == {"pool-custody", "pool-ledger"}
ReadCall ==
  /\ reading = Unread
  /\ \E interface \in Known : \E f \in Functions(interface) : \E args \in Arguments(f) :
     \E told \in {interface, "none"} :
       /\ told = "none" => interface \in Pools
       /\ reading' = [of |-> "call", interface |-> interface, name |-> f.name, args |-> args,
                      decoded |-> DecodeContractCall(Contract, Encode(f, args), told, TRUE)]

\* A swap through several pools, a word too many, and a router that forwards to one pool.
HopWords(hops) ==
  [k \in 1..3 * Len(hops) |-> LET hop == hops[(k + 2) \div 3]
                             IN  <<hop.pool, hop.direction, hop.tokenIn>>[((k + 2) % 3) + 1]]
RouteWords(hops) == <<241, Len(hops), 1, 1, Contract, 2>> \o HopWords(hops)
Hop == [pool: {Contract}, direction: {0, 1}, tokenIn: {Wide + 1, Wide + 2}]
Routes == UpTo(2, Hop) \cup {[h \in 1..n |-> hop] : n \in 3..5, hop \in Hop}
Forwarded == <<16, 0, 1, 2>>
ReadRoute ==
  /\ reading = Unread
  /\ \E hops \in Routes :
       reading' = [of |-> "route", hops |-> hops,
                   decoded |-> DecodeContractCall(Contract, RouteWords(hops), "custody-router", FALSE),
                   longer  |-> DecodeContractCall(Contract, Append(RouteWords(hops), 1), "custody-router", FALSE),
                   inner   |-> DecodeContractCall(Contract, <<224, Contract>> \o Forwarded, "ledger-router", FALSE)[1].inner]

\* What a call and its receipt are said to have done.
Logs == UpTo(1, [label: {"SWAP", "ADDLP", "RMLP", "DEPOSIT"}, words: {<<1, 2, 3>>, <<1, Wide, 3>>}])
Receipts == [status: {"ok", "failed", "none"}, logs: Logs, returned: {<<>>, <<7>>}]
Contexts ==
  [pools: {[p \in {} |-> <<>>], [p \in {Contract} |-> <<Wide + 1, Wide + 2>>]},
   vaults: {[p \in {Contract} |-> <<Wide + 1, Wide + 2>>]}]
ReadDescription ==
  /\ reading = Unread
  /\ \E interface \in Known : \E f \in Functions(interface), receipt \in Receipts, ctx \in Contexts :
       LET args == CHOOSE a \in Arguments(f) : TRUE
           calls == {DecodeContractCall(Contract, Encode(f, args), interface, FALSE),
                     DecodeContractCall(Contract, RouteWords(<<[pool |-> Contract, direction |-> 0,
                                        tokenIn |-> Wide + 1]>>), "custody-router", FALSE)}
       IN  \E call \in calls :
             reading' = [of |-> "description", call |-> call, receipt |-> receipt,
                         ids |-> ReferencedIds(Encode(f, args), {}),
                         said |-> Describe(call[1], Contract, receipt, ctx)]

\* Charts over a few rows, whose clocks may be unknown or run back, the tips of a block as the
\* node tells them, the fee of a transaction and what is said of a receipt that is missing.
ReadCharts ==
  /\ reading = Unread
  /\ \E times \in [1..Rows -> 0..LastClock], tips \in UpTo(Rows, -1..2), own \in {0, 1} :
       reading' = [of |-> "charts", times |-> times, tips |-> tips, own |-> own,
                   intervals |-> IntervalSeries([i \in 1..Rows |-> [height |-> i, time |-> times[i]]]),
                   running |-> CumulativeTransfers(times), shares |-> ProposerShare(times),
                   kept |-> NormalizeTips(tips, Rows)]
Policy == [price |-> 2, bps |-> 5000, fixed |-> 1, transfer |-> 2]
ReadFees ==
  /\ reading = Unread
  /\ \E gas \in 0..5, height \in {Switch - 1, Switch}, head \in -1..3, node, build \in -1..2 :
       reading' = [of |-> "fee", gas |-> gas, height |-> height, head |-> head, node |-> node, build |-> build,
                   fee |-> Fee(gas, height, "testnet", [n \in UnitNetworks |-> Fallback(n)], Policy),
                   missing |-> MissingReceipt(head, Retention(node, build, 1))]

ReadNext == ReadSections \/ ReadPayload \/ ReadEconomy \/ ReadCharts \/ ReadFees \/ ReadCall \/ ReadRoute \/ ReadDescription
ReadSpec == ReadInit /\ [][ReadNext]_reading

-----------------------------------------------------------------------------
\* The sections of a page: every transaction once, in runs of one kind and signer.
SectionsPartition ==
  reading.of = "sections" =>
    LET groups == reading.groups  txs == reading.txs IN
    /\ FlattenSeq([g \in DOMAIN groups |-> groups[g].items]) = [i \in DOMAIN txs |-> i]
    /\ \A g \in DOMAIN groups : \A i \in Range(groups[g].items) :
         groups[g].kind = txs[i].kind /\ groups[g].signer = txs[i].signer
    /\ \A g \in DOMAIN groups :
         \/ g = Len(groups)
         \/ groups[g].kind = "Unknown"
         \/ <<groups[g].kind, groups[g].signer>> # <<groups[g + 1].kind, groups[g + 1].signer>>
\* A payload in its four forms; without a name some kinds cannot be told from others.
LookAlikes == {"Bond", "ClaimUnbond", "NameSetPrimary", "NameRelease", "ValidatorUnjail",
               "RevokeBlobDownload", "CancelBlobSampleOffer", "ChallengeBlobSampleServe"}
KindSurvives ==
  reading.of = "payload" =>
    LET kind == DisplayKind(reading.variant) IN
    /\ {reading.tagged, reading.named, reading.text} = {kind}
    /\ reading.variant \notin LookAlikes => reading.flat = kind

\* A block page shows every transaction once and in order, each section of one kind and signer
\* and no two neighbours that should be one; and what a payload is called does not depend on
\* whether it comes tagged, with its kind or as bare fields, in spite of the kinds that share
\* fields.
TransactionsShownAsTheyAre == SectionsPartition /\ KindSurvives

\* A transaction of a sample counts once, and moves its amount only if it succeeded; the
\* amounts of a testnet sample are in base units by the unit in force at each height.
Succeeding(b) == {i \in DOMAIN b.txs : b.receipts = <<>> \/ b.receipts[i] # "failed"}
BaseIn(block, from, kind) ==
  LET unit == IF block.height >= from THEN 1 ELSE Base
  IN  SumOf([i \in {j \in Succeeding(block) : block.txs[j].kind = kind} |-> unit * block.txs[i].amount])
InBase(blocks, from, kind) == SumOf([b \in DOMAIN blocks |-> BaseIn(blocks[b], from, kind)])
Stakes(b) == Cardinality({i \in Succeeding(b) : b.txs[i].kind # "Batch"})
SampleAddsUp ==
  reading.of = "economy" =>
    LET t == reading.totals
        counted == SumOf([b \in DOMAIN reading.blocks |-> Stakes(reading.blocks[b])])
    IN  /\ t.total = t.failed + t.other + counted
        /\ reading.network = "testnet" =>
             \A kind \in {"Bond", "Transfer"} :
               InBase(reading.blocks, reading.registry["testnet"].from, kind) =
                 IF kind = "Bond" THEN t.bond ELSE t.transfer

\* The intervals of blocks in order make up the time between the first and the last, the running
\* total ends at the total, every block has a proposer and tips survive their alignment.  Gas
\* costs more than less gas does, and a receipt may be pruned only where the node prunes.
ChartsAddUp ==
  /\ reading.of = "charts" =>
       LET t == reading.times
           seconds == [i \in DOMAIN reading.intervals |-> reading.intervals[i].seconds]
       IN  /\ 0 < t[1] /\ (\A i \in 2..Rows : t[i - 1] <= t[i]) => SumOf(seconds) = t[Rows] - t[1]
           /\ \A i \in DOMAIN seconds : seconds[i] \in 0..(LastClock - 1)
           /\ reading.running[Rows] = SumOf(t) /\ SumOf(reading.shares) = Rows
           /\ \A i \in 1..Rows : PriorityTip(reading.kept, i, reading.own) = PriorityTip(reading.tips, i, reading.own)
  /\ reading.of = "fee" =>
       /\ reading.gas > 0 <=> reading.fee > 0
       /\ reading.height < Switch => reading.fee >= reading.gas * (Base \div Policy.transfer)
       /\ reading.missing = "maybe_pruned" => reading.node # 0 /\ reading.head > Max({1, reading.node})

\* What is added up of a sample of blocks, and drawn of it, adds up.
EconomyAddsUp == SampleAddsUp /\ ChartsAddUp

\* Calldata reads back as the call it was made for, also where only the number of words tells
\* the two families of pools apart; what they have in common may read as of either.
CallsReadBack ==
  /\ reading.of = "route" =>
       /\ reading.decoded = Nothing <=> Len(reading.hops) \notin 1..4
       /\ Len(reading.hops) \in 1..4 => reading.decoded[1].hops = reading.hops
       /\ reading.longer = Nothing /\ reading.inner = DecodePoolCall(Contract, Forwarded)
  /\ reading.of = "call" =>
    /\ reading.decoded # Nothing
    /\ \/ reading.decoded[1].interface = reading.interface
       \/ reading.name \in {f.name : f \in PoolAdmin}
    /\ reading.decoded[1].name = reading.name
    /\ reading.decoded[1].args = reading.args

\* A description says that something was received or minted only of a call that succeeded.
NothingMovedWithoutSuccess ==
  (reading.of = "description" /\ reading.receipt.status # "ok") =>
    \A fact \in reading.said.facts :
      fact.says \notin {"Received", "Received_A", "Received_B", "LP_minted", "Shares_minted"}

\* Calls are told as they were made, and what they moved only if they moved it.
CallsToldAsMade == CallsReadBack /\ NothingMovedWithoutSuccess
=============================================================================
