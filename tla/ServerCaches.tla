----------------------------- MODULE ServerCaches -----------------------------
(* What the server keeps between requests of the token context and the DEX    *)
(* pages: the factory of the DEX, the directory of its pools and tokens, the  *)
(* names of tokens, how long not to ask a node for names, and the pair of a   *)
(* vault.  Requests overlap; every call is an await, during which something   *)
(* may come to be on the chain, nodes may fail or lack a method, and other    *)
(* requests go on.  All tokens are those of one pool, and of the vault.       *)
EXTENDS Integers, Sequences, SequencesExt, FiniteSets

CONSTANTS Readers,
          Tokens,             \* the two tokens, as a sequence
          Vault,              \* a contract that is a vault of them
          Unknown,             \* nothing known, nothing asked
          Weathers,           \* time -> how the candidates are: "ok", "lacks" the names, "down"
          Chains,             \* when each thing comes to be
          MaxLookups,         \* names asked for per request
          TokenTtl, VaultTtl, VaultReread, DirectoryTtl, DirectoryRefresh, FactoryTtl,
          UnsupportedBackoff, TransientBackoff,
          Asks,               \* what is asked for: of a context, a contract and ids; a page
          CallTime,           \* a call for a name or a vault is given up after this time
          ClientTime,         \* and one of the client that reads the directory after this
          Horizon             \* bound of the time that is looked at

ASSUME CachesAssumption ==
    /\ \A n \in {MaxLookups, TokenTtl, VaultTtl, VaultReread, DirectoryTtl, DirectoryRefresh,
                 FactoryTtl, UnsupportedBackoff, TransientBackoff, CallTime, ClientTime} : n \in Nat \ {0}
    /\ VaultReread < VaultTtl /\ DirectoryRefresh < DirectoryTtl /\ Horizon \in Nat
    /\ Tokens \in Seq(Range(Tokens))
    /\ Asks \subseteq [kind: {"context", "page"}, contract: {Vault, Unknown}, ids: Seq(Range(Tokens))]
    /\ Chains \subseteq [{"factory", "dex", "names", "vault"} -> Int]

VARIABLES clock,
          weather,            \* how the candidates are at each time
          since,              \* when a thing comes to be on the chain
          factoryCache, directory, tokenCache, backoffUntil, vaultCache, requests
kept == <<factoryCache, directory, tokenCache, backoffUntil, vaultCache>>
cachesVars == <<clock, weather, since, kept, requests>>

Things == {"factory", "dex", "names", "vault"}
nodes == weather[clock]
Exists(thing) == since[thing] <= clock
Never == -100

(* The primary node alone serves the directory; other calls go from candidate *)
(* to candidate, and if none answers the last decides what the failure is.    *)
PrimaryUp == nodes[1] # "down"
NamesFrom(ns) ==
    IF \E i \in DOMAIN ns : ns[i] = "ok" THEN "ok"
    ELSE IF ns[Len(ns)] = "lacks" THEN "unsupported" ELSE "transient"
StorageFrom(ns) == IF \E i \in DOMAIN ns : ns[i] # "down" THEN "ok" ELSE "transient"
Unasked == [phase |-> "idle"]
CachesInit ==
    /\ clock = 0 /\ weather \in Weathers /\ since \in Chains
    /\ factoryCache = Unknown /\ directory = Unknown /\ vaultCache = Unknown
    /\ tokenCache = [id \in Range(Tokens) \cup {Vault} |-> Unknown] /\ backoffUntil = Never
    /\ requests = [r \in Readers |-> Unasked]

----------------------------------------------------------------------------
(* A request until its next await; the operators give what it is then.        *)

Waits(q, phase, thing) == [q EXCEPT !.phase = phase, !.called = clock, !.saw = Exists(thing)]
Done(q) == [q EXCEPT !.phase = "done", !.called = 0, !.saw = FALSE, !.hit = Unknown, !.stamp = 0, !.todo = {}]

(* The names of the tokens, most relevant first, as many as are asked for:    *)
(* those kept are taken, and the first of the others is asked for alone.      *)
Ordered(q) ==
    (IF q.contract = Vault THEN <<Vault>> ELSE <<>>) \o (IF q.vault THEN Tokens ELSE <<>>) \o q.ids
FirstPlaces(s) == {m \in DOMAIN s : \A j \in 1..(m - 1) : s[j] # s[m]}
Wanted(q) ==
    LET s == Ordered(q)
        new == FirstPlaces(s)
    IN  {s[m] : m \in {n \in new : Cardinality({j \in new : j <= n}) <= MaxLookups}}
Foremost(q) ==
    LET s == Ordered(q)
    IN  CHOOSE id \in q.todo :
          \E m \in DOMAIN s : s[m] = id /\ \A j \in 1..(m - 1) : s[j] \notin q.todo
Kept(id) == tokenCache[id] # Unknown /\ clock - tokenCache[id].at < TokenTtl
ToNames(q) ==
    LET known == {id \in Wanted(q) : Kept(id) /\ tokenCache[id].named}
        todo == {id \in Wanted(q) : ~Kept(id)}
        asking == [q EXCEPT !.names = known, !.todo = todo]
    IN  IF todo = {} \/ clock < backoffUntil THEN Done(asking)
        ELSE Waits(asking, "probe", "names")

ToVault(q) ==
    IF q.contract # Vault THEN ToNames(q)
    ELSE IF vaultCache # Unknown /\ clock - vaultCache.at < VaultTtl
    THEN ToNames([q EXCEPT !.vault = vaultCache.paired])
    ELSE Waits(q, "vault", "vault")

(* With a factory the pools are read and then the tokens; without one the     *)
(* directory is empty, and a page is not supported.                           *)
FactoryKnown(q, published) ==
    CASE q.kind = "page" /\ published -> Waits(q, "page", "dex")
      [] q.kind = "page" /\ ~published -> Done([q EXCEPT !.supported = FALSE])
      [] q.kind = "context" /\ published -> [Waits(q, "pools", "dex") EXCEPT !.stamp = clock]
      [] OTHER -> ToVault([q EXCEPT !.dir = [at |-> clock, dex |-> FALSE], !.read = TRUE])
ToFactory(q) ==
    IF factoryCache # Unknown /\ factoryCache.expires > clock THEN FactoryKnown(q, factoryCache.value)
    ELSE Waits(q, "factory", "factory")

(* The directory is read again when it is old, or misses something wanted and *)
(* is not quite new.                                                          *)
Age == clock - directory.at
Missing(q) == q.contract = Vault \/ (q.ids # <<>> /\ ~directory.dex)
Usable(q) == Age < DirectoryTtl /\ ~(Missing(q) /\ Age > DirectoryRefresh)
Start(q) ==
    IF q.kind = "context" /\ directory # Unknown /\ Usable(q)
    THEN ToVault([q EXCEPT !.dir = directory]) ELSE ToFactory(q)

(* A directory that has been read, or is empty, replaces the one kept.        *)
Goes(r, q) ==
    /\ requests' = [requests EXCEPT ![r] = [q EXCEPT !.read = FALSE]]
    /\ directory' = IF q.read THEN q.dir ELSE directory

----------------------------------------------------------------------------
Ask(r, what) ==
    /\ requests[r] = Unasked
    /\ Goes(r, Start([phase |-> "idle", kind |-> what.kind, contract |-> what.contract, ids |-> what.ids,
                      start |-> clock, hit |-> directory, dir |-> Unknown, read |-> FALSE, stamp |-> 0,
                      stale |-> FALSE, called |-> 0, saw |-> FALSE, vault |-> FALSE, names |-> {},
                      todo |-> {}, supported |-> TRUE]))
    /\ UNCHANGED <<clock, weather, since, factoryCache, tokenCache, backoffUntil, vaultCache>>

(* What an answer says is so at some time between the call and its end.       *)
Seen(q, thing) == {q.saw, Exists(thing)}

FactoryAnswers(r) ==
    LET q == requests[r] IN
    /\ q.phase = "factory" /\ PrimaryUp
    /\ \E published \in Seen(q, "factory") :
          /\ factoryCache' = [expires |-> q.called + FactoryTtl, value |-> published]
          /\ Goes(r, FactoryKnown(q, published))
    /\ UNCHANGED <<clock, weather, since, tokenCache, backoffUntil, vaultCache>>

PoolsAnswer(r) ==
    LET q == requests[r] IN
    /\ q.phase = "pools" /\ PrimaryUp
    /\ \E dex \in Seen(q, "dex") :
          requests' = [requests EXCEPT ![r] = [q EXCEPT !.phase = "list", !.saw = dex, !.called = clock]]
    /\ UNCHANGED <<clock, weather, since, kept>>

StampedAtTheEnd(q) == clock

Stamped(q) == q.stamp

TokensAnswer(r) ==
    LET q == requests[r] IN
    /\ q.phase = "list" /\ PrimaryUp
    /\ Goes(r, ToVault([q EXCEPT !.dir = [at |-> Stamped(q), dex |-> q.saw], !.read = TRUE]))
    /\ UNCHANGED <<clock, weather, since, factoryCache, tokenCache, backoffUntil, vaultCache>>

(* A directory that cannot be read is as it was at the request, if it was.    *)
DirectoryFails(r) ==
    LET q == requests[r] IN
    /\ q.phase \in {"factory", "pools", "list", "page"} /\ ~PrimaryUp
    /\ requests' = [requests EXCEPT ![r] =
          IF q.kind = "page" \/ q.hit = Unknown THEN [Done(q) EXCEPT !.phase = "failed"]
          ELSE ToVault([q EXCEPT !.dir = q.hit, !.stale = TRUE])]
    /\ UNCHANGED <<clock, weather, since, kept>>

PageAnswers(r) ==
    /\ requests[r].phase = "page" /\ PrimaryUp
    /\ requests' = [requests EXCEPT ![r] = Done(requests[r])]
    /\ UNCHANGED <<clock, weather, since, kept>>

(* A vault without a pair is read again soon; one that cannot be read is only *)
(* left out.                                                                  *)
PairKeptWhole(paired) == [at |-> clock, paired |-> paired]

PairKept(paired) == [at |-> IF paired THEN clock ELSE clock - VaultTtl + VaultReread, paired |-> paired]

VaultAnswers(r) ==
    LET q == requests[r] IN
    /\ q.phase = "vault"
    /\ \/ /\ StorageFrom(nodes) = "ok"
          /\ \E paired \in Seen(q, "vault") :
                /\ vaultCache' = PairKept(paired)
                /\ requests' = [requests EXCEPT ![r] = ToNames([q EXCEPT !.vault = paired])]
       \/ /\ StorageFrom(nodes) # "ok"
          /\ requests' = [requests EXCEPT ![r] = ToNames(q)]
          /\ UNCHANGED vaultCache
    /\ UNCHANGED <<clock, weather, since, factoryCache, directory, tokenCache, backoffUntil>>

(* The names that were asked for and have been answered.                      *)
Learn(r, ids, named) ==
    LET q == [requests[r] EXCEPT !.names = @ \cup {id \in ids : named /\ id # Vault}, !.todo = @ \ ids]
    IN  /\ tokenCache' = [id \in DOMAIN tokenCache |->
              IF id \in ids THEN [at |-> clock, named |-> named /\ id # Vault] ELSE tokenCache[id]]
        /\ requests' = [requests EXCEPT ![r] =
              IF q.phase = "probe" /\ q.todo # {} THEN Waits(q, "rest", "names") ELSE Done(q)]

ProbeAnswers(r) ==
    LET q == requests[r] IN
    /\ q.phase = "probe"
    /\ \/ /\ NamesFrom(nodes) = "ok"
          /\ \E named \in Seen(q, "names") : Learn(r, {Foremost(q)}, named)
          /\ UNCHANGED backoffUntil
       \/ /\ NamesFrom(nodes) # "ok"
          /\ backoffUntil' = clock + (IF NamesFrom(nodes) = "unsupported" THEN UnsupportedBackoff
                                    ELSE TransientBackoff)
          /\ requests' = [requests EXCEPT ![r] = Done(q)]
          /\ UNCHANGED tokenCache
    /\ UNCHANGED <<clock, weather, since, factoryCache, directory, vaultCache>>

(* The others are asked for at once; what fails is asked for next time.       *)
RestAnswers(r) ==
    LET q == requests[r] IN
    /\ q.phase = "rest"
    /\ \E lost \in SUBSET q.todo, named \in Seen(q, "names") :
          /\ lost = {} <=> NamesFrom(nodes) = "ok"
          /\ Learn(r, q.todo \ lost, named)
    /\ UNCHANGED <<clock, weather, since, factoryCache, directory, backoffUntil, vaultCache>>

----------------------------------------------------------------------------
ClockTick ==
    /\ clock < Horizon
    /\ \A r \in Readers :
          /\ requests[r].phase \in {"vault", "probe", "rest"} => clock < requests[r].called + CallTime
          /\ requests[r].phase \in {"factory", "pools", "list", "page"} => clock < requests[r].called + ClientTime
    /\ clock' = clock + 1
    /\ UNCHANGED <<weather, since, kept, requests>>

CachesNext ==
    \/ \E r \in Readers :
         \/ \E what \in Asks : Ask(r, what)
         \/ FactoryAnswers(r) \/ PoolsAnswer(r) \/ TokensAnswer(r) \/ DirectoryFails(r) \/ PageAnswers(r)
         \/ VaultAnswers(r) \/ ProbeAnswers(r) \/ RestAnswers(r)
    \/ ClockTick
CachesSpec == CachesInit /\ [][CachesNext]_cachesVars

-----------------------------------------------------------------------------
\* What has been on the chain for as long as the answers without it are kept is shown, if the
\* nodes could tell for as long as the request and what they did before make them be left alone:
\* the pair of a vault and, of the names asked for, every one.
Since(thing, age, q) == since[thing] + age < q.start
Steady(q) ==
    \A t \in 0..clock :
        /\ NamesFrom(weather[t]) = "unsupported" => t + UnsupportedBackoff <= q.start
        /\ NamesFrom(weather[t]) = "transient" => t + TransientBackoff <= q.start
ContextCatchesUp ==
    \A r \in Readers : requests[r].phase = "done" =>
        LET q == requests[r]
            told == q.kind = "context" /\ \A t \in q.start..clock : StorageFrom(weather[t]) = "ok"
        IN  /\ told /\ q.contract = Vault /\ Since("vault", VaultReread + CallTime, q) => q.vault
            /\ told /\ Steady(q) /\ Since("names", TokenTtl + CallTime, q)
                 => Wanted(q) \ {Vault} \subseteq q.names

\* A directory that could be read has what was registered before it may be kept, or kept while
\* something wanted is missing; and the DEX is called unsupported no longer than its absence is kept.
DirectoryCatchesUp ==
    \A r \in Readers : requests[r].phase = "done" =>
        LET q == requests[r]
            wants == q.contract = Vault \/ q.ids # <<>>
            age == IF wants THEN DirectoryRefresh ELSE DirectoryTtl
        IN  /\ (/\ q.kind = "context" /\ ~q.stale
                /\ Since("dex", age, q) /\ Since("factory", age + FactoryTtl + ClientTime, q)) => q.dir.dex
            /\ q.kind = "page" /\ Since("factory", FactoryTtl, q) => q.supported

\* Nothing that is kept hides what has come to be on the chain for longer than it may be kept.
KeptAnswersCatchUp == ContextCatchesUp /\ DirectoryCatchesUp
=============================================================================
