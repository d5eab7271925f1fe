--------------------------- MODULE ContractIdentity ---------------------------
(* What a contract is taken to be: the functions its bytecode dispatches on,  *)
(* the interface of the catalog they fit, and the interface its deployer has  *)
(* published, which counts only if it is proved to be the deployer's and to   *)
(* be the file that was recorded.                                             *)
EXTENDS ChainSearch

CONSTANTS Catalog,      \* the known interfaces in their order: [id, selectors]
          Canonical,    \* testnet contracts known by address: address -> id
          Templates,    \* contracts known by their exact code: code -> id
          NonceCap,     \* nonces tried for an address
          DocumentCap,  \* size of a published document
          StoredCap     \* size of one stored on the chain

ASSUME IdentityAssumption ==
    /\ \A i \in DOMAIN Catalog : Catalog[i].selectors \subseteq 0..255
    /\ Range(Canonical) \cup Range(Templates) \subseteq {Catalog[i].id : i \in DOMAIN Catalog}
    /\ {NonceCap, DocumentCap, StoredCap} \subseteq Nat \ {0}

----------------------------------------------------------------------------
(* Bytecode: a PUSH carries the bytes that follow it, as far as there are any. *)
OpEq == 20
OpIsZero == 21
OpAnd == 22
OpMload == 81
OpMstore == 82
OpJumpi == 87
OpPush1 == 96
OpPush32 == 127

AfterOpcode(pc, n) == pc + 1

After(pc, n) == pc + 1 + n

Carried(op) == IF op \in OpPush1..OpPush32 THEN op - OpPush1 + 1 ELSE 0
ReadOp(code, acc, pc) ==
    LET op == code[pc]
        n == Carried(op)
    IN  IF pc < acc.next THEN acc
        ELSE [next |-> After(pc, n),
              ins |-> Append(acc.ins, [op |-> op, arg |-> SubSeq(code, pc + 1, Min({pc + n, Len(code)}))])]
Disassemble(code) ==
    LET read[pc \in 0..Len(code)] ==
            IF pc = 0 THEN [next |-> 1, ins |-> <<>>] ELSE ReadOp(code, read[pc - 1], pc)
    IN  read[Len(code)].ins

IsPush(ins, i) == i \in DOMAIN ins /\ ins[i].op \in OpPush1..OpPush32
Is(ins, i, op) == i \in DOMAIN ins /\ ins[i].op = op

(* The value of an argument without leading zeros, and as a byte if it is one. *)
Value(arg) ==
    LET digits == {i \in DOMAIN arg : arg[i] # 0}
    IN  IF digits = {} THEN <<>> ELSE SubSeq(arg, Min(digits), Len(arg))
ByteValues(arg) ==
    IF arg # <<>> /\ \A i \in 1..(Len(arg) - 1) : arg[i] = 0 THEN {Last(arg)} ELSE {}

(* The places in memory that hold the selector: the first word of the calldata *)
(* and where it is copied, whole or its low byte.                             *)
SelectorSlots(ins) ==
    LET masked(i) == IsPush(ins, i + 2) /\ ByteValues(ins[i + 2].arg) = {255} /\ Is(ins, i + 3, OpAnd)
        to(i) == IF masked(i) THEN i + 4 ELSE i + 2
        copies == {i \in 1..(Len(ins) - 3) :
                     /\ IsPush(ins, i) /\ Value(ins[i].arg) = <<>> /\ Is(ins, i + 1, OpMload)
                     /\ IsPush(ins, to(i)) /\ Is(ins, to(i) + 1, OpMstore)}
    IN  {<<>>} \cup {Value(ins[to(i)].arg) : i \in copies}

(* What the selector is compared with before a jump, on either side.          *)
Compared(ins, slots) ==
    LET loads(k) == Is(ins, k, OpMload) /\ IsPush(ins, k - 1) /\ Value(ins[k - 1].arg) \in slots
        target(i) == IF Is(ins, i + 1, OpIsZero) THEN i + 2 ELSE i + 1
        tests == {i \in 2..(Len(ins) - 2) :
                    Is(ins, i, OpEq) /\ IsPush(ins, target(i)) /\ Is(ins, target(i) + 1, OpJumpi)}
        compared(i) ==
            IF IsPush(ins, i - 1) /\ loads(i - 2) THEN ByteValues(ins[i - 1].arg)
            ELSE IF loads(i - 1) /\ IsPush(ins, i - 3) THEN ByteValues(ins[i - 3].arg)
            ELSE {}
    IN  UNION {compared(i) : i \in tests}

SelectorsIn(ins) == Compared(ins, SelectorSlots(ins))
DecodeDispatchSelectors(code) == IF code = Absent THEN {} ELSE SelectorsIn(Disassemble(code))

----------------------------------------------------------------------------
(* The interface of the catalog that shares most with the selectors: at least *)
(* three of five, and every mismatch counts half. The first of equals wins.   *)
MatchInterfaceBySelectors(have) ==
    LET shared(i) == Cardinality(have \cap Catalog[i].selectors)
        mismatches(i) == Cardinality((have \cup Catalog[i].selectors) \ (have \cap Catalog[i].selectors))
        fits == {i \in DOMAIN Catalog : shared(i) > 0 /\ 5 * shared(i) >= 3 * Cardinality(have)}
        best == {i \in fits : \A j \in fits : 2 * shared(j) - mismatches(j) <= 2 * shared(i) - mismatches(i)}
    IN  IF best = {} THEN Absent ELSE Catalog[Min(best)].id

SelectorsOf(id) == UNION {Catalog[i].selectors : i \in {j \in DOMAIN Catalog : Catalog[j].id = id}}

(* By address on the testnet, by exact code, or by the best match. Only what  *)
(* the code dispatches on is shown, if that could be decoded.                 *)
Guess(decoded) == IF decoded = {} THEN Absent ELSE MatchInterfaceBySelectors(decoded)
Recognised(network, address, code, guess) ==
    IF network = "testnet" /\ address \in DOMAIN Canonical THEN <<"canonical", Canonical[address]>>
    ELSE IF code \in DOMAIN Templates THEN <<"bytecode", Templates[code]>>
    ELSE <<IF guess = Absent THEN "none" ELSE "selectors", guess>>
Identified(known, decoded, described) ==
    [source |-> known[1], interface |-> known[2], decoded |-> decoded,
     functions |-> IF decoded = {} THEN described ELSE described \cap decoded,
     unknown |-> decoded \ described]
IdentifiedAs(known, decoded) == Identified(known, decoded, SelectorsOf(known[2]))
IdentifyWith(network, address, code, decoded) ==
    IdentifiedAs(Recognised(network, address, code, Guess(decoded)), decoded)
IdentifyContract(network, address, code) ==
    IdentifyWith(network, address, code, DecodeDispatchSelectors(code))

----------------------------------------------------------------------------
(* A published interface: what the registry records about a contract, and     *)
(* what is served where the record points.                                    *)

(* A contract whose address comes of a nonce the claimer has used up. An      *)
(* account that cannot be read proves nothing.                                *)
IsNonceDeployOf(nonces, sender, address) ==
    /\ nonces[sender] # Absent
    /\ \E n \in 0..(Min({nonces[sender], NonceCap}) - 1) : Nonced(sender, n) = address

DeployerTrusted(record, address, deployer, nonces) == TRUE

DeployerVerified(record, address, deployer, nonces) ==
    \/ deployer # Nobody /\ deployer = record.claimer
    \/ IsNonceDeployOf(nonces, record.claimer, address)

(* A document that the chain stores has a header that says what it is.        *)
ReadInterfaceBlob(served) ==
    /\ served.marked
    /\ served.size \in 1..StoredCap
    /\ served.encoding \in {"plain", "deflated"}
Fetched(record, served) ==
    /\ served # Absent
    /\ record.uri = "boing" => ReadInterfaceBlob(served)
    /\ served.size <= DocumentCap

ParamTypes == {"account", "u128", "u64", "bytes32", "bool", "u8"}
ParsePublishedDoc(functions) ==
    \A f \in functions : f.selector \in 0..255 /\ f.named /\ f.types \subseteq ParamTypes

ResolvePublishedInterface(record, address, deployer, nonces, served) ==
    LET deployed == DeployerVerified(record, address, deployer, nonces)
        hashed == deployed /\ record.uri \in {"boing", "https"} /\ Fetched(record, served)
                  /\ served.hash = record.hash
    IN  [claimer |-> record.claimer, deployerVerified |-> deployed, hashVerified |-> hashed,
         verified |-> hashed /\ ParsePublishedDoc(served.functions)]

(* Verified, it takes the place of what was guessed; else it is only told of. *)
ApplyPublishedInterface(id, published, served) ==
    IF ~published.verified THEN id
    ELSE LET described == {f.selector : f \in served.functions}
         IN  [id EXCEPT !.source = "published", !.functions = described,
                        !.unknown = id.decoded \ described]

(* The registry is that of the testnet; an address without a record, or a     *)
(* registry that cannot be read, leaves what was found.                       *)
WithPublished(id, network, address, deployer, record, nonces, served) ==
    IF network # "testnet" \/ record = Absent THEN id
    ELSE ApplyPublishedInterface(id,
             ResolvePublishedInterface(record, address, deployer, nonces, served), served)
ResolveContractInterface(network, address, code, deployer, record, nonces, served) ==
    WithPublished(IdentifyContract(network, address, code),
                  network, address, deployer, record, nonces, served)
=============================================================================
