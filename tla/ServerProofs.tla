-------------------------- MODULE ServerProofs --------------------------
(***************************************************************************)
(* What the server keeps and hands out, for any number of requests, any    *)
(* lifetimes and any nodes: downloads of blobs (BlobDownload), the caches  *)
(* behind transaction contexts and directory pages (ServerCaches), and the *)
(* token index on disk (TokenIndexCache).                                  *)
(***************************************************************************)
EXTENDS BlobDownload, ServerCaches, TokenIndexCache, TLAPS, WellFoundedInduction

-----------------------------------------------------------------------------
(* Downloads                                                                *)

\* Configuration and nodes stay what they are; networks and jobs have their types.
WellSet ==
  /\ site \in Sites /\ store \in Stores
  /\ panel \in [net: BlobNets, account: Downloaders \cup {Unset}, says: {"", "cancelled", "failed"}]
  /\ holder \in Downloaders \cup {Unset}
  /\ jobs \in [{"connect", "download"} ->
       [stage: {"idle", "accounts", "chain", "again", "sign", "sent"},
        net: BlobNets \cup {Unset}, account: Downloaders \cup {Unset}, expires: Nat,
        signer: Downloaders \cup {Unset}, token: Given \cup {Unset}]]
  /\ hour \in Nat

\* A job under way keeps the network it was clicked for.
JobsHaveNets ==
  \A j \in {"connect", "download"} : jobs[j].stage # "idle" => jobs[j].net \in BlobNets

IInv == WellSet /\ JobsHaveNets /\ DownloadsAsPermitted

-----------------------------------------------------------------------------
\* All that a job can be.
Job == [stage: {"idle", "accounts", "chain", "again", "sign", "sent"},
        net: BlobNets \cup {Unset}, account: Downloaders \cup {Unset}, expires: Nat,
        signer: Downloaders \cup {Unset}, token: Given \cup {Unset}]

\* A job at rest is a job.
LEMMA RestingIsJob == Resting \in Job
BY DEF Resting, Job

\* No download was under way at first.
LEMMA InitOK == DownloadAssumption /\ BlobInit => IInv
<1> SUFFICES ASSUME DownloadAssumption, BlobInit PROVE IInv
  OBVIOUS
<1>1. jobs = [j \in {"connect", "download"} |-> Resting] /\ Resting \in Job
  BY RestingIsJob DEF BlobInit, Idle
<1>2. WellSet
  <2>1. panel \in [net: BlobNets, account: Downloaders \cup {Unset},
                   says: {"", "cancelled", "failed"}]
    BY DEF BlobInit
  <2>2. jobs \in [{"connect", "download"} -> Job]
    BY <1>1
  <2> QED BY <2>1, <2>2 DEF BlobInit, WellSet, Job
<1>3. JobsHaveNets
  BY <1>1 DEF JobsHaveNets, Resting
<1>4. DownloadsAsPermitted
  BY DEF BlobInit, DownloadsAsPermitted, Undone
<1> QED BY <1>2, <1>3, <1>4 DEF IInv

\* What a download came to is judged by it, the configuration and the nodes alone.
LEMMA OutcomeStays ==
  ASSUME DownloadsAsPermitted, UNCHANGED <<site, store, outcome>>
  PROVE  DownloadsAsPermitted'
BY DEF DownloadsAsPermitted, DownloadBase, TooLarge

\* A job begins for the network of the page.
LEMMA Begins ==
  ASSUME IInv, NEW job \in {"connect", "download"}, NEW stage \in {"accounts", "again", "sent"},
         NEW account \in Downloaders \cup {Unset}, NEW token \in Given \cup {Unset},
         Begin(job, stage, account, token), panel' = Says(""),
         UNCHANGED <<site, store, holder, hour, outcome>>
  PROVE  IInv'
<1> DEFINE new == [Resting EXCEPT !.stage = stage, !.net = panel.net, !.account = account,
                                  !.token = token]
<1>1. jobs' = [jobs EXCEPT ![job] = new]
  BY DEF Begin
<1>2. panel.net \in BlobNets /\ jobs \in [{"connect", "download"} -> Job]
  BY DEF IInv, WellSet, Job
<1>3. new \in Job /\ new.net = panel.net
  <2> DEFINE r1 == [Resting EXCEPT !.stage = stage]
             r2 == [r1 EXCEPT !.net = panel.net]
             r3 == [r2 EXCEPT !.account = account]
             r4 == [r3 EXCEPT !.token = token]
  <2>1. r1 \in Job
    BY RestingIsJob DEF Job
  <2>2. r2 \in Job /\ r2.net = panel.net
    <3> HIDE DEF r1
    <3> QED BY <1>2, <2>1 DEF Job
  <2>3. r3 \in Job /\ r3.net = panel.net
    <3> HIDE DEF r2
    <3> QED BY <2>2 DEF Job
  <2>4. r4 \in Job /\ r4.net = panel.net
    <3> HIDE DEF r3
    <3> QED BY <2>3 DEF Job
  <2> QED BY <2>4
<1> HIDE DEF new
<1>4. jobs' \in [{"connect", "download"} -> Job]
  BY <1>1, <1>2, <1>3
<1>5. panel' \in [net: BlobNets, account: Downloaders \cup {Unset},
                  says: {"", "cancelled", "failed"}]
  BY DEF IInv, WellSet, Says
<1>6. WellSet'
  BY <1>4, <1>5 DEF IInv, WellSet, Job
<1>7. JobsHaveNets'
  BY <1>1, <1>2, <1>3 DEF IInv, JobsHaveNets
<1> QED BY <1>6, <1>7, OutcomeStays DEF IInv

\* What the page and its user do.
LEMMA PanelKeepsIt ==
  ASSUME DownloadAssumption, IInv,
         ConnectWallet \/ OnWalletDownload \/ OnOperatorDownload \/ PickNet \/ PickAccount
  PROVE  IInv'
<1>1. CASE ConnectWallet
  BY <1>1, Begins DEF ConnectWallet
<1>2. CASE OnWalletDownload
  <2>1. panel.account \in Downloaders \cup {Unset}
    BY DEF IInv, WellSet
  <2> QED BY <1>2, <2>1, Begins DEF OnWalletDownload
<1>3. CASE OnOperatorDownload
  BY <1>3, Begins DEF OnOperatorDownload
<1>4. CASE PickNet
  <2>1. panel' \in [net: BlobNets, account: Downloaders \cup {Unset},
                    says: {"", "cancelled", "failed"}]
    BY <1>4 DEF IInv, WellSet, PickNet
  <2> QED BY <1>4, <2>1, OutcomeStays DEF IInv, WellSet, JobsHaveNets, PickNet
<1>5. CASE PickAccount
  BY <1>5, OutcomeStays DEF IInv, WellSet, JobsHaveNets, PickAccount
<1> QED BY <1>1, <1>2, <1>3, <1>4, <1>5

\* A step of a job that keeps its network, or ends it.
LEMMA TakesStep ==
  ASSUME IInv, NEW job \in {"connect", "download"}, NEW new \in Job,
         new.stage # "idle" => jobs[job].stage # "idle" /\ new.net = jobs[job].net,
         jobs' = [jobs EXCEPT ![job] = new],
         panel' \in [net: BlobNets, account: Downloaders \cup {Unset},
                     says: {"", "cancelled", "failed"}],
         UNCHANGED <<site, store, holder, hour>>
  PROVE  WellSet' /\ JobsHaveNets'
BY DEF IInv, WellSet, JobsHaveNets, Job

\* What the wallet does, or leaves, keeps the network and the account of a job.
LEMMA WalletKeepsIt ==
  ASSUME DownloadAssumption, IInv, NEW job \in {"connect", "download"},
         WalletRequestAccounts(job) \/ EnsureWalletChain(job) \/ WalletRefuses(job)
           \/ WalletSignMessage \/ BlobTick
  PROVE  IInv'
<1> DEFINE PanelType == [net: BlobNets, account: Downloaders \cup {Unset},
                         says: {"", "cancelled", "failed"}]
<1>0. /\ \A j \in {"connect", "download"} : jobs[j] \in Job
      /\ panel \in PanelType /\ holder \in Downloaders \cup {Unset} /\ hour \in Nat
  BY DEF IInv, WellSet, Job
<1>1. CASE WalletRequestAccounts(job)
  <2> DEFINE new == [jobs[job] EXCEPT !.account = holder, !.stage = "chain"]
  <2>1. new \in Job /\ new.net = jobs[job].net
    BY <1>0 DEF Job
  <2>2. /\ jobs[job].stage # "idle" /\ jobs' = [jobs EXCEPT ![job] = new]
        /\ UNCHANGED <<panel, site, store, holder, hour, outcome>>
    BY <1>1 DEF WalletRequestAccounts
  <2> HIDE DEF new
  <2> QED BY <1>0, <2>1, <2>2, TakesStep, OutcomeStays DEF IInv
<1>2. CASE EnsureWalletChain(job)
  <2> DEFINE new == IF job = "connect" THEN Resting
                    ELSE [jobs[job] EXCEPT !.stage = "sign", !.expires = hour + ProofTtl]
  <2>1. new \in Job /\ (new.stage # "idle" => new.net = jobs[job].net)
    <3>1. CASE job = "connect"
      BY <3>1, RestingIsJob DEF Resting
    <3>2. CASE job = "download"
      <4>1. ProofTtl \in Nat
        BY Zenon DEF DownloadAssumption
      <4>2. hour \in Nat /\ jobs["download"] \in Job
        BY <1>0
      <4>3. hour + ProofTtl \in Nat
        BY <4>1, <4>2
      <4>4. new = [jobs["download"] EXCEPT !.stage = "sign", !.expires = hour + ProofTtl]
        BY <3>2
      <4> QED BY <3>2, <4>2, <4>3, <4>4 DEF Job
    <3> QED BY <3>1, <3>2
  <2>2. /\ jobs[job].stage # "idle" /\ jobs' = [jobs EXCEPT ![job] = new]
        /\ UNCHANGED <<site, store, holder, hour, outcome>>
    BY <1>2 DEF EnsureWalletChain
  <2>3. panel' \in PanelType
    <3>1. panel' = panel \/ panel' = [panel EXCEPT !.account = jobs[job].account]
      BY <1>2 DEF EnsureWalletChain
    <3> QED BY <1>0, <3>1 DEF Job
  <2> HIDE DEF new
  <2> QED BY <2>1, <2>2, <2>3, TakesStep, OutcomeStays DEF IInv
<1>3. CASE WalletRefuses(job)
  <2>1. /\ jobs' = [jobs EXCEPT ![job] = Resting] /\ panel' = Says("cancelled")
        /\ UNCHANGED <<site, store, holder, hour, outcome>>
    BY <1>3 DEF WalletRefuses
  <2>2. panel' \in PanelType
    BY <1>0, <2>1 DEF Says
  <2>3. Resting.stage = "idle"
    BY DEF Resting
  <2> QED BY <2>1, <2>2, <2>3, RestingIsJob, TakesStep, OutcomeStays DEF IInv
<1>4. CASE WalletSignMessage
  <2> DEFINE new == [jobs["download"] EXCEPT !.signer = holder, !.stage = "sent"]
  <2>1. new \in Job /\ new.net = jobs["download"].net
    BY <1>0 DEF Job
  <2>2. /\ jobs["download"].stage # "idle" /\ jobs' = [jobs EXCEPT !["download"] = new]
        /\ UNCHANGED <<panel, site, store, holder, hour, outcome>>
    BY <1>4 DEF WalletSignMessage
  <2> HIDE DEF new
  <2> QED BY <1>0, <2>1, <2>2, TakesStep, OutcomeStays DEF IInv
<1>5. CASE BlobTick
  <2>1. /\ hour \in Nat /\ hour' = hour + 1
        /\ UNCHANGED <<site, store, holder, panel, jobs, outcome>>
    BY <1>0, <1>5 DEF BlobTick
  <2>2. hour' \in Nat
    BY <2>1
  <2> QED BY <2>1, <2>2, OutcomeStays DEF IInv, WellSet, JobsHaveNets
<1> QED BY <1>1, <1>2, <1>3, <1>4, <1>5

\* The route's answer: a proof never travels beside a token, so that what the node admits is
\* either the one or the other.
LEMMA RouteIsRight ==
  ASSUME DownloadAssumption, IInv, RouteAnswers
  PROVE  IInv'
<1> DEFINE job == jobs["download"]
           at == DownloadBase(job.net)
           auth == UpstreamAuth(job)
           status(answer) == RouteStatus(job, answer)
<1>1. PICK answer \in {NodeAnswers(job, auth), "down"} :
        /\ outcome' = [job |-> job, status |-> status(answer), up |-> answer # "down", hour |-> hour]
        /\ panel' = IF status(answer) = "200" THEN panel ELSE Says("failed")
        /\ jobs' = [jobs EXCEPT !["download"] = Resting]
  BY DEF RouteAnswers
<1>2. /\ job.stage = "sent" /\ job.net \in BlobNets /\ at \in BlobNets
      /\ job.signer \in Downloaders \cup {Unset} /\ job.token \in Given \cup {Unset}
      /\ site.tokens \subseteq Given \cup {Secret} /\ UNCHANGED <<site, store, holder, hour>>
      /\ Unset \notin Given \cup {Secret} /\ Unset \notin Downloaders
      /\ \A n \in BlobNets : store[n].permitted \subseteq Downloaders
  BY DEF RouteAnswers, DownloadAssumption, IInv, WellSet, JobsHaveNets, DownloadBase
<1>3. WellSet' /\ JobsHaveNets'
  BY <1>1, <1>2 DEF IInv, WellSet, JobsHaveNets, Says, Resting
<1> DEFINE known == job.signer = Unset /\ job.token \in site.tokens
           signed == /\ job.signer = job.account /\ job.account \in store[job.net].permitted
                     /\ hour <= job.expires
<1>4. ASSUME status(answer) = "200"
      PROVE  (known \/ signed) /\ ~ TooLarge(at)
  <2>1. Admitted(job) /\ answer = NodeAnswers(job, auth) /\ answer = "200" /\ ~ TooLarge(at)
    BY <1>1, <1>4 DEF RouteStatus, NodeAnswers
  <2>2. CASE HasProof(job)
    BY <1>2, <2>1, <2>2 DEF NodeAnswers, UpstreamAuth, HasProof
  <2>3. CASE ~ HasProof(job)
    BY <2>1, <2>3 DEF Admitted, HasProof
  <2> QED BY <2>1, <2>2, <2>3
<1>5. ASSUME known \/ (signed /\ at = job.net), answer # "down", store[at].knows, ~ TooLarge(at)
      PROVE  status(answer) = "200"
  <2>1. Admitted(job)
    BY <1>2, <1>5 DEF Admitted, HasProof
  <2>2. answer = NodeAnswers(job, auth)
    BY <1>1, <1>5
  <2>3. NodeAnswers(job, auth) = "200"
    BY <1>2, <1>5 DEF NodeAnswers, UpstreamAuth, OwnToken, HasProof
  <2> QED BY <1>5, <2>1, <2>2, <2>3 DEF RouteStatus
<1>6. DownloadsAsPermitted'
  <2> HIDE DEF status, auth
  <2>1. /\ outcome'.job = job /\ outcome'.status = status(answer) /\ outcome'.hour = hour
        /\ outcome'.up = (answer # "down")
        /\ site' = site /\ store' = store
    BY <1>1, <1>2
  <2> QED BY <1>4, <1>5, <2>1 DEF DownloadsAsPermitted, DownloadBase, TooLarge
<1> QED BY <1>3, <1>6 DEF IInv

\* What a download comes to is what the node of the clicked network permits, for any accounts,
\* tokens and nodes, however the wallet and the page change meanwhile (app/api/blob/download).
THEOREM Permitted == DownloadAssumption => (BlobSpec => []DownloadsAsPermitted)
<1> SUFFICES ASSUME DownloadAssumption PROVE BlobSpec => []DownloadsAsPermitted
  OBVIOUS
<1>1. BlobInit => IInv
  BY InitOK
<1>2. IInv /\ [BlobNext]_blobVars => IInv'
  <2> SUFFICES ASSUME IInv, [BlobNext]_blobVars PROVE IInv'
    OBVIOUS
  <2>1. CASE UNCHANGED blobVars
    BY <2>1, OutcomeStays DEF IInv, WellSet, JobsHaveNets, blobVars
  <2>2. CASE BlobNext
    BY <2>2, PanelKeepsIt, WalletKeepsIt, RouteIsRight DEF BlobNext
  <2> QED BY <2>1, <2>2
<1>3. IInv => DownloadsAsPermitted
  BY DEF IInv
<1> QED BY <1>1, <1>2, <1>3, PTL DEF BlobSpec

-----------------------------------------------------------------------------
(* What is kept between requests                                            *)

TokenIds == Range(Tokens) \cup {Vault}
Directories == [at: Int, dex: BOOLEAN]
Phases == {"idle", "factory", "pools", "list", "page", "vault", "probe", "rest", "done", "failed"}
Queries == [phase: Phases, kind: {"context", "page"}, contract: {Vault, Unknown},
            ids: Seq(Range(Tokens)), start: Int, hit: Directories \cup {Unknown},
            dir: Directories \cup {Unknown}, read: BOOLEAN, stamp: Int, stale: BOOLEAN,
            called: Int, saw: BOOLEAN, vault: BOOLEAN, names: SUBSET TokenIds, todo: SUBSET TokenIds,
            supported: BOOLEAN]

CachesType ==
  /\ clock \in Nat
  /\ since \in [Things -> Int]
  /\ factoryCache \in [expires: Int, value: BOOLEAN] \cup {Unknown}
  /\ directory \in Directories \cup {Unknown}
  /\ tokenCache \in [TokenIds -> [at: Int, named: BOOLEAN] \cup {Unknown}]
  /\ backoffUntil \in Int
  /\ vaultCache \in [at: Int, paired: BOOLEAN] \cup {Unknown}
  /\ requests \in [Readers -> Queries \cup {Unasked}]

-----------------------------------------------------------------------------
\* What a kept answer denies was not on the chain when the call for it was made, which is no
\* longer ago than a call may take.
FactoryDenial == factoryCache # Unknown /\ ~ factoryCache.value =>
                   since["factory"] > factoryCache.expires - FactoryTtl
VaultDenial == vaultCache # Unknown /\ ~ vaultCache.paired =>
                 since["vault"] + CallTime > vaultCache.at + VaultTtl - VaultReread
NameDenials == \A id \in TokenIds \ {Vault} :
                 tokenCache[id] # Unknown /\ ~ tokenCache[id].named =>
                   since["names"] + CallTime > tokenCache[id].at

\* A directory without what is wanted: that was registered later, or the factory was not known.
LacksOnlyLate(d) == ~ d.dex => \/ since["dex"] > d.at
                         \/ since["factory"] + FactoryTtl + ClientTime > d.at
DirectoryDenial == directory # Unknown => LacksOnlyLate(directory)

\* Nodes are left alone for what they did at some time.
BackedOff(t, until) ==
  \/ NamesFrom(weather[t]) = "unsupported" /\ until = t + UnsupportedBackoff
  \/ NamesFrom(weather[t]) = "transient" /\ until = t + TransientBackoff
BackoffHasReason == backoffUntil = Never \/ \E t \in 0..clock : BackedOff(t, backoffUntil)

KeptDenials == FactoryDenial /\ VaultDenial /\ NameDenials /\ DirectoryDenial /\ BackoffHasReason

-----------------------------------------------------------------------------
\* What a request has been told so far, at time t.
Recent(thing, age, q) == since[thing] + age >= q.start
Unsteady(q, t) == \E u \in 0..t : NamesFrom(weather[u]) # "ok"
                    /\ u + (IF NamesFrom(weather[u]) = "unsupported" THEN UnsupportedBackoff
                            ELSE TransientBackoff) > q.start
StorageFailed(q, t) == \E u \in q.start..t : StorageFrom(weather[u]) # "ok"

Patience(phase) == IF phase \in {"vault", "probe", "rest"} THEN CallTime ELSE ClientTime
Thing(phase) == CASE phase = "factory" -> "factory" [] phase = "pools" -> "dex"
                  [] phase = "vault" -> "vault" [] OTHER -> "names"

\* A call under way was made after the request, and is given up in time; what it has not seen
\* was not there.
CallRight(q, t) ==
  q.phase \notin {"idle", "done", "failed"} =>
    /\ q.start <= q.called /\ q.called <= t /\ t <= q.called + Patience(q.phase)
    /\ q.phase \in {"factory", "pools", "vault", "probe", "rest"} /\ ~ q.saw =>
         since[Thing(q.phase)] > q.called
    /\ q.phase = "pools" => q.stamp = q.called
    /\ q.phase = "list" => q.start <= q.stamp /\ (~ q.saw => since["dex"] > q.stamp)

\* The directory at hand lacks only what is late.
Wants(q) == q.contract = Vault \/ q.ids # <<>>
DirectoryAge(q) == IF Wants(q) THEN DirectoryRefresh ELSE DirectoryTtl
DirectoryRight(q) ==
  ~ q.stale => /\ q.dir \in Directories
               /\ q.dir.dex \/ Recent("dex", DirectoryAge(q), q)
                    \/ Recent("factory", DirectoryAge(q) + FactoryTtl + ClientTime, q)

\* A pair that is not known is late, or the nodes failed.
VaultRight(q, t) ==
  q.contract = Vault => q.vault \/ Recent("vault", VaultReread + CallTime, q) \/ StorageFailed(q, t)

\* A name that is not known is asked for, is late, or the nodes failed.
NamesRight(q, t) ==
  \A id \in Wanted(q) \ {Vault} :
    \/ id \in q.names
    \/ q.phase \in {"probe", "rest"} /\ id \in q.todo
    \/ Recent("names", TokenTtl + CallTime, q)
    \/ Unsteady(q, t)

QueryRight(q, t) ==
  /\ 0 <= q.start /\ q.start <= t
  /\ CallRight(q, t)
  /\ q.kind = "context" =>
       /\ q.phase # "page"
       /\ q.phase \in {"vault", "probe", "rest", "done"} => DirectoryRight(q)
       /\ q.phase \in {"probe", "rest", "done"} => VaultRight(q, t) /\ NamesRight(q, t)
       /\ q.phase = "probe" => q.todo # {} /\ q.todo \subseteq Wanted(q)
  /\ q.kind = "page" =>
       /\ q.phase \in {"factory", "page", "done", "failed"}
       /\ q.supported \/ Recent("factory", FactoryTtl, q)

QueriesRight == \A r \in Readers : requests[r] # Unasked =>
                  ~ requests[r].read /\ QueryRight(requests[r], clock)

CachesInv == CachesType /\ KeptDenials /\ QueriesRight

-----------------------------------------------------------------------------
\* What a request keeps when it goes on.
Same(x, q) ==
  /\ x.kind = q.kind /\ x.contract = q.contract /\ x.ids = q.ids /\ x.start = q.start
  /\ x.dir = q.dir /\ x.read = q.read /\ x.stale = q.stale /\ x.vault = q.vault
  /\ x.supported = q.supported

\* A request that knows the same has the same right to what it shows.
LEMMA SameIsRight ==
  ASSUME NEW x, NEW q, Same(x, q), NEW t
  PROVE  /\ Wanted(x) = Wanted(q)
         /\ DirectoryRight(q) => DirectoryRight(x)
         /\ VaultRight(q, t) => VaultRight(x, t)
         /\ \A thing, age : Recent(thing, age, x) <=> Recent(thing, age, q)
         /\ Unsteady(x, t) <=> Unsteady(q, t)
<1>1. Ordered(x) = Ordered(q)
  BY DEF Same, Ordered
<1>2. Wanted(x) = Wanted(q)
  BY <1>1 DEF Wanted
<1>3. \A thing, age : Recent(thing, age, x) <=> Recent(thing, age, q)
  BY DEF Same, Recent
<1>4. Unsteady(x, t) <=> Unsteady(q, t)
  BY DEF Same, Unsteady
<1>5. DirectoryRight(q) => DirectoryRight(x)
  BY <1>3 DEF Same, DirectoryRight, DirectoryAge, Wants
<1>6. VaultRight(q, t) => VaultRight(x, t)
  BY <1>3 DEF Same, VaultRight, StorageFailed
<1> QED BY <1>2, <1>3, <1>4, <1>5, <1>6

\* A query with one thing changed is a query.
LEMMA Put ==
  ASSUME NEW q \in Queries
  PROVE  /\ \A v \in Phases : [q EXCEPT !.phase = v] \in Queries
         /\ \A v \in Directories \cup {Unknown} : [q EXCEPT !.hit = v] \in Queries
         /\ \A v \in Directories \cup {Unknown} : [q EXCEPT !.dir = v] \in Queries
         /\ \A v \in BOOLEAN : [q EXCEPT !.read = v] \in Queries
         /\ \A v \in Int : [q EXCEPT !.stamp = v] \in Queries
         /\ \A v \in BOOLEAN : [q EXCEPT !.stale = v] \in Queries
         /\ \A v \in Int : [q EXCEPT !.called = v] \in Queries
         /\ \A v \in BOOLEAN : [q EXCEPT !.saw = v] \in Queries
         /\ \A v \in BOOLEAN : [q EXCEPT !.vault = v] \in Queries
         /\ \A v \in SUBSET TokenIds : [q EXCEPT !.names = v] \in Queries
         /\ \A v \in SUBSET TokenIds : [q EXCEPT !.todo = v] \in Queries
         /\ \A v \in BOOLEAN : [q EXCEPT !.supported = v] \in Queries
BY DEF Queries

\* A request that is done knows what it knew.
LEMMA DoneIs ==
  ASSUME NEW q \in Queries
  PROVE  /\ Done(q) \in Queries /\ Same(Done(q), q)
         /\ Done(q).phase = "done" /\ Done(q).names = q.names
<1>0. "done" \in Phases
  BY DEF Phases
<1>1. Done(q) \in Queries
  <2> DEFINE a == [q EXCEPT !.phase = "done"]
             b == [a EXCEPT !.called = 0]
             c == [b EXCEPT !.saw = FALSE]
             d == [c EXCEPT !.hit = Unknown]
             e == [d EXCEPT !.stamp = 0]
  <2>1. a \in Queries
    BY <1>0, Put
  <2> HIDE DEF a
  <2>2. b \in Queries
    BY <2>1, Put
  <2> HIDE DEF b
  <2>3. c \in Queries
    BY <2>2, Put
  <2> HIDE DEF c
  <2>4. d \in Queries
    BY <2>3, Put
  <2> HIDE DEF d
  <2>5. e \in Queries
    BY <2>4, Put
  <2> HIDE DEF e
  <2>6. [e EXCEPT !.todo = {}] \in Queries
    BY <2>5, Put
  <2> QED BY <2>6 DEF a, b, c, d, e, Done
<1>2. Same(Done(q), q)
  BY DEF Done, Queries, Same
<1>3. Done(q).phase = "done" /\ Done(q).names = q.names
  BY DEF Done, Queries
<1> QED BY <1>1, <1>2, <1>3

\* A request that waits for a node knows what it knew, and whether the node has changed.
LEMMA WaitsIs ==
  ASSUME CachesType, NEW q \in Queries, NEW phase \in Phases, NEW thing \in Things
  PROVE  /\ Waits(q, phase, thing) \in Queries /\ Same(Waits(q, phase, thing), q)
         /\ Waits(q, phase, thing).phase = phase /\ Waits(q, phase, thing).called = clock
         /\ (~ Waits(q, phase, thing).saw => since[thing] > clock)
         /\ Waits(q, phase, thing).names = q.names /\ Waits(q, phase, thing).todo = q.todo
         /\ Waits(q, phase, thing).stamp = q.stamp
<1>1. Exists(thing) \in BOOLEAN /\ clock \in Int
  BY DEF Exists, CachesType, Things
<1>2. Waits(q, phase, thing) \in Queries
  BY <1>1 DEF Waits, Queries
<1>3. Same(Waits(q, phase, thing), q)
  BY DEF Waits, Queries, Same
<1>4. Waits(q, phase, thing).saw = Exists(thing)
  BY DEF Waits, Queries
<1>5. ~ Exists(thing) => since[thing] > clock
  BY DEF Exists, CachesType, Things
<1> QED BY <1>2, <1>3, <1>4, <1>5 DEF Waits, Queries

\* The ids of a page, in an order.
LEMMA OrderedIs ==
  ASSUME CachesAssumption, NEW q \in Queries
  PROVE  Ordered(q) \in Seq(TokenIds) /\ Wanted(q) \subseteq {Ordered(q)[m] : m \in DOMAIN Ordered(q)}
         /\ Wanted(q) \subseteq TokenIds
<1>1. Tokens \in Seq(TokenIds) /\ q.ids \in Seq(TokenIds) /\ <<Vault>> \in Seq(TokenIds)
      /\ <<>> \in Seq(TokenIds)
  BY DEF CachesAssumption, TokenIds, Queries
<1>2. Ordered(q) \in Seq(TokenIds)
  BY <1>1 DEF Ordered
<1>3. Wanted(q) \subseteq {Ordered(q)[m] : m \in DOMAIN Ordered(q)}
  BY DEF Wanted, FirstPlaces
<1> QED BY <1>2, <1>3

Below == {p \in Nat \X Nat : p[1] < p[2]}

\* A set of naturals has a least one.
LEMMA Least ==
  ASSUME NEW T, T \subseteq Nat, T # {}
  PROVE  \E x \in T : \A y \in T : x <= y
<1>1. OpToRel(<, Nat) = Below
  BY Zenon DEF Below, OpToRel
<1>2. IsWellFoundedOn(OpToRel(<, Nat), Nat)
  BY Zenon, NatLessThanWellFounded
<1>3. IsWellFoundedOn(Below, Nat)
  BY Zenon, <1>1, <1>2
<1>4. PICK x \in T : \A y \in T : ~ (<<y, x>> \in Below)
  BY <1>3, WFMin
<1>5. ASSUME NEW y \in T PROVE x <= y
  <2>1. x \in Nat /\ y \in Nat /\ <<y, x>> \notin Below
    BY <1>4, <1>5
  <2>2. ~ (y < x)
    BY <2>1 DEF Below
  <2> QED BY <2>1, <2>2
<1> QED BY <1>5

\* Of the names wanted, the first that are asked for is one of them.
LEMMA ForemostIs ==
  ASSUME CachesAssumption, NEW q \in Queries, q.todo # {}, q.todo \subseteq Wanted(q)
  PROVE  Foremost(q) \in q.todo
<1> DEFINE s == Ordered(q)
           T == {m \in DOMAIN s : s[m] \in q.todo}
<1>1. s \in Seq(TokenIds) /\ DOMAIN s \subseteq Nat
  BY OrderedIs
<1>2. T # {} /\ T \subseteq Nat
  BY <1>1, OrderedIs
<1>3. PICK m \in T : \A n \in T : m <= n
  BY <1>2, Least
<1>4. ASSUME NEW j \in 1..(m - 1) PROVE s[j] \notin q.todo
  <2>1. j \in DOMAIN s /\ ~ (m <= j)
    BY <1>1, <1>3
  <2> QED BY <1>3, <2>1
<1>5. \E id \in q.todo : \E n \in DOMAIN s : s[n] = id /\ \A j \in 1..(n - 1) : s[j] \notin q.todo
  BY <1>3, <1>4
<1> QED BY <1>5 DEF Foremost

\* The lifetimes are naturals.
LEMMA Spans ==
  ASSUME CachesAssumption
  PROVE  /\ TokenTtl \in Nat /\ VaultTtl \in Nat /\ VaultReread \in Nat /\ DirectoryTtl \in Nat
         /\ DirectoryRefresh \in Nat /\ FactoryTtl \in Nat /\ UnsupportedBackoff \in Nat \ {0}
         /\ TransientBackoff \in Nat \ {0} /\ CallTime \in Nat /\ ClientTime \in Nat
BY DEF CachesAssumption

\* A call that is made now is right.
LEMMA CallIsRight ==
  ASSUME CachesAssumption, CachesType, NEW q \in Queries, q.start <= clock,
         NEW phase \in {"factory", "page", "vault", "probe", "rest"}, NEW thing \in Things,
         phase # "page" => thing = Thing(phase)
  PROVE  CallRight(Waits(q, phase, thing), clock)
<1> DEFINE x == Waits(q, phase, thing)
<1>1. phase \in Phases
  BY DEF Phases
<1>2. /\ x \in Queries /\ x.phase = phase /\ x.called = clock /\ x.start = q.start
      /\ (~ x.saw => since[thing] > clock)
  BY <1>1, WaitsIs DEF Same
<1> HIDE DEF x
<1>3. Patience(phase) \in Nat /\ clock \in Nat
  BY Spans DEF Patience, CachesType
<1>4. x.start <= x.called /\ x.called <= clock /\ clock <= x.called + Patience(x.phase)
  BY <1>2, <1>3
<1>5. phase # "page" /\ ~ x.saw => since[Thing(x.phase)] > x.called
  BY <1>2
<1>6. x.phase \notin {"pools", "list"}
  BY <1>2
<1> QED BY <1>2, <1>4, <1>5, <1>6 DEF CallRight, x

-----------------------------------------------------------------------------
\* What may be asked next, and what it then is.
Asking(q) == /\ q \in Queries /\ q.kind = "context" /\ 0 <= q.start /\ q.start <= clock
             /\ DirectoryRight(q)
Goal(x, q) == x \in Queries /\ QueryRight(x, clock) /\ x.read = q.read /\ x.dir = q.dir

\* Once the pair is known the request goes on to the names, from the cache or from the node.
LEMMA NamesCome ==
  ASSUME CachesAssumption, CachesType, KeptDenials, NEW q, Asking(q), VaultRight(q, clock)
  PROVE  Goal(ToNames(q), q)
<1> DEFINE known == {id \in Wanted(q) : Kept(id) /\ tokenCache[id].named}
           todo == {id \in Wanted(q) : ~Kept(id)}
           asking == [[q EXCEPT !.names = known] EXCEPT !.todo = todo]
<1>1. q \in Queries /\ q.kind = "context" /\ 0 <= q.start /\ q.start <= clock /\ DirectoryRight(q)
  BY DEF Asking
<1>2. Wanted(q) \subseteq TokenIds
  BY <1>1, OrderedIs
<1>3. known \in SUBSET TokenIds /\ todo \in SUBSET TokenIds
  BY <1>2
<1>4. asking \in Queries /\ Same(asking, q) /\ asking.names = known /\ asking.todo = todo
  <2> HIDE DEF known, todo
  <2>1. [q EXCEPT !.names = known] \in Queries
    BY <1>1, <1>3, Put
  <2>2. asking \in Queries
    BY <1>3, <2>1, Put
  <2> QED BY <1>1, <2>2 DEF Queries, Same
<1>5. ASSUME NEW id \in Wanted(q) \ {Vault}, id \notin known, id \notin todo
      PROVE  Recent("names", TokenTtl + CallTime, q)
  <2>1. Kept(id) /\ ~ tokenCache[id].named /\ id \in TokenIds \ {Vault}
    BY <1>2, <1>5
  <2>2. since["names"] + CallTime > tokenCache[id].at /\ clock - tokenCache[id].at < TokenTtl
    BY <2>1 DEF KeptDenials, NameDenials, Kept
  <2>3. tokenCache[id].at \in Int /\ since["names"] \in Int /\ clock \in Int /\ q.start \in Int
    BY <1>1, <2>1 DEF CachesType, Kept, Queries, Things
  <2>4. since["names"] + (TokenTtl + CallTime) >= q.start
    <3>1. \A a, b, c, d \in Int, m, n \in Nat : a + n > b /\ c - b < m /\ d <= c => a + (m + n) >= d
      BY SMTT(60)
    <3>2. TokenTtl \in Nat /\ CallTime \in Nat /\ q.start <= clock
      BY <1>1, Spans
    <3> QED BY <2>2, <2>3, <3>1, <3>2
  <2> QED BY <2>4 DEF Recent
<1> HIDE DEF known, todo, asking
<1>6. CASE todo = {} \/ clock < backoffUntil
  <2>1. ToNames(q) = Done(asking)
    BY <1>6 DEF ToNames, known, todo, asking
  <2> DEFINE x == Done(asking)
  <2>2. x \in Queries /\ x.phase = "done" /\ x.names = known /\ Same(x, q)
    BY <1>4, DoneIs DEF Same
  <2> HIDE DEF x
  <2>3. ASSUME todo # {} PROVE Unsteady(q, clock)
    <3>1. clock < backoffUntil /\ clock \in Nat
      BY <1>6, <2>3 DEF CachesType
    <3>2. PICK t \in 0..clock : BackedOff(t, backoffUntil)
      BY SMTT(60), <3>1 DEF KeptDenials, BackoffHasReason, Never
    <3>3. backoffUntil > q.start
      BY <1>1, <3>1 DEF CachesType, Queries
    <3> QED BY <3>2, <3>3 DEF BackedOff, Unsteady
  <2>4. NamesRight(x, clock)
    BY <1>5, <2>2, <2>3, SameIsRight DEF NamesRight
  <2>5. DirectoryRight(x) /\ VaultRight(x, clock)
    BY <1>1, <2>2, SameIsRight
  <2>6. CallRight(x, clock)
    BY <2>2 DEF CallRight
  <2>7. QueryRight(x, clock)
    BY <1>1, <2>2, <2>4, <2>5, <2>6 DEF QueryRight, Same
  <2> QED BY <2>1, <2>2, <2>7 DEF Goal, Same, x
<1>7. CASE ~ (todo = {} \/ clock < backoffUntil)
  <2>1. ToNames(q) = Waits(asking, "probe", "names")
    BY <1>7 DEF ToNames, known, todo, asking
  <2> DEFINE x == Waits(asking, "probe", "names")
  <2>0. "probe" \in Phases /\ "names" \in Things
    BY DEF Phases, Things
  <2>2. /\ x \in Queries /\ x.phase = "probe" /\ x.names = known /\ x.todo = todo
        /\ x.called = clock /\ (~ x.saw => since["names"] > clock) /\ Same(x, q)
    BY <1>4, <2>0, WaitsIs DEF Same
  <2> HIDE DEF x
  <2>4. NamesRight(x, clock)
    BY <1>5, <2>2, SameIsRight DEF NamesRight
  <2>5. DirectoryRight(x) /\ VaultRight(x, clock)
    BY <1>1, <2>2, SameIsRight
  <2>6. CallRight(x, clock)
    <3>1. asking.start <= clock /\ "names" = Thing("probe")
      BY <1>1, <1>4 DEF Same, Thing
    <3> QED BY <1>4, <2>0, <3>1, CallIsRight DEF x
  <2>7. x.todo # {} /\ x.todo \subseteq Wanted(x)
    BY <1>7, <2>2, SameIsRight DEF todo
  <2>8. QueryRight(x, clock)
    BY <1>1, <2>2, <2>4, <2>5, <2>6, <2>7 DEF QueryRight, Same
  <2> QED BY <2>1, <2>2, <2>8 DEF Goal, Same, x
<1> QED BY <1>6, <1>7

\* Once the factory is known the request goes on to the pair.
LEMMA PairComes ==
  ASSUME CachesAssumption, CachesType, KeptDenials, NEW q, Asking(q)
  PROVE  Goal(ToVault(q), q)
<1>1. q \in Queries /\ q.kind = "context" /\ 0 <= q.start /\ q.start <= clock /\ DirectoryRight(q)
  BY DEF Asking
<1>2. CASE q.contract # Vault
  <2>1. VaultRight(q, clock)
    BY <1>2 DEF VaultRight
  <2> QED BY <1>2, <2>1, NamesCome DEF ToVault
<1>3. CASE q.contract = Vault /\ vaultCache # Unknown /\ clock - vaultCache.at < VaultTtl
  <2> DEFINE x == [q EXCEPT !.vault = vaultCache.paired]
  <2>1. vaultCache \in [at: Int, paired: BOOLEAN]
    BY <1>3 DEF CachesType
  <2>2. x \in Queries
    BY <1>1, <2>1, Put
  <2>3. /\ x.kind = q.kind /\ x.start = q.start /\ x.contract = q.contract /\ x.ids = q.ids
        /\ x.stale = q.stale /\ x.dir = q.dir /\ x.read = q.read /\ x.vault = vaultCache.paired
    BY <1>1 DEF Queries
  <2> HIDE DEF x
  <2>4. DirectoryRight(x)
    BY <1>1, <2>3 DEF DirectoryRight, DirectoryAge, Wants, Recent
  <2>5. VaultRight(x, clock)
    <3>1. vaultCache.paired \/ since["vault"] + CallTime > vaultCache.at + VaultTtl - VaultReread
      BY <1>3 DEF KeptDenials, VaultDenial
    <3>2. since["vault"] \in Int /\ clock \in Int /\ vaultCache.at \in Int /\ q.start \in Int
      BY <1>1, <2>1 DEF CachesType, Things, Queries
    <3>3. CallTime \in Nat /\ VaultTtl \in Nat /\ VaultReread \in Nat
      BY Spans
    <3>4. \A a, b, c, d \in Int, k, l, m \in Nat :
            a + k > b + l - m /\ c - b < l /\ d <= c => a + (m + k) >= d
      BY SMTT(30)
    <3>5. vaultCache.paired \/ since["vault"] + (VaultReread + CallTime) >= q.start
      BY <1>1, <1>3, <3>1, <3>2, <3>3, <3>4
    <3> QED BY <2>3, <3>5 DEF VaultRight, Recent
  <2>6. Goal(ToNames(x), x)
    BY <1>1, <2>2, <2>3, <2>4, <2>5, NamesCome DEF Asking
  <2>7. ToVault(q) = ToNames(x)
    BY <1>3 DEF ToVault, x
  <2> QED BY <2>3, <2>6, <2>7 DEF Goal
<1>4. CASE q.contract = Vault /\ ~ (vaultCache # Unknown /\ clock - vaultCache.at < VaultTtl)
  <2> DEFINE x == Waits(q, "vault", "vault")
  <2>1. "vault" \in Phases /\ "vault" \in Things /\ "vault" = Thing("vault")
    BY DEF Phases, Things, Thing
  <2>2. x \in Queries /\ x.phase = "vault" /\ Same(x, q)
    BY <1>1, <2>1, WaitsIs
  <2>3. CallRight(x, clock)
    BY <1>1, <2>1, CallIsRight
  <2>4. ToVault(q) = x
    BY <1>4 DEF ToVault
  <2> HIDE DEF x
  <2>5. DirectoryRight(x)
    BY <1>1, <2>2, SameIsRight
  <2>6. QueryRight(x, clock)
    BY <1>1, <2>2, <2>3, <2>5 DEF QueryRight, Same
  <2> QED BY <2>2, <2>4, <2>6 DEF Goal, Same
<1> QED BY <1>2, <1>3, <1>4

-----------------------------------------------------------------------------
\* A request that goes on, and what it replaces the directory with.
Ready(x) == x \in Queries /\ QueryRight(x, clock) /\ (x.read => x.dir \in Directories /\ LacksOnlyLate(x.dir))
Begun(q) == /\ q \in Queries /\ 0 <= q.start /\ q.start <= clock /\ ~ q.read
            /\ q.kind = "page" => q.supported \/ Recent("factory", FactoryTtl, q)

\* The factory comes from the cache if that is recent, and else from the node.
LEMMA FactoryComes ==
  ASSUME CachesAssumption, CachesType, KeptDenials, NEW q, Begun(q), NEW published \in BOOLEAN,
         ~ published => /\ since["factory"] + FactoryTtl >= q.start
                        /\ since["factory"] + FactoryTtl + ClientTime > clock
  PROVE  Ready(FactoryKnown(q, published))
<1>1. q \in Queries /\ 0 <= q.start /\ q.start <= clock /\ ~ q.read /\ q.kind \in {"context", "page"}
  BY DEF Begun, Queries
<1>2. CASE q.kind = "page" /\ published
  <2> DEFINE x == Waits(q, "page", "dex")
  <2>1. "page" \in Phases /\ "dex" \in Things
    BY DEF Phases, Things
  <2>2. x \in Queries /\ x.phase = "page" /\ Same(x, q)
    BY <1>1, <2>1, WaitsIs
  <2>3. CallRight(x, clock)
    BY <1>1, <2>1, CallIsRight
  <2>4. FactoryKnown(q, published) = x
    BY <1>2 DEF FactoryKnown
  <2> HIDE DEF x
  <2>5. QueryRight(x, clock)
    BY <1>1, <1>2, <2>2, <2>3, SameIsRight DEF QueryRight, Same, Begun
  <2> QED BY <1>1, <2>2, <2>4, <2>5 DEF Ready, Same
<1>3. CASE q.kind = "page" /\ ~ published
  <2> DEFINE y == [q EXCEPT !.supported = FALSE]
             x == Done(y)
  <2>1. y \in Queries
    BY <1>1, Put
  <2>2. y.kind = q.kind /\ y.start = q.start /\ y.read = q.read
    BY <1>1 DEF Queries
  <2>3. FactoryKnown(q, published) = x
    BY <1>3 DEF FactoryKnown
  <2> HIDE DEF y
  <2>4. x \in Queries /\ x.phase = "done" /\ Same(x, y)
    BY <2>1, DoneIs
  <2> HIDE DEF x
  <2>5. Recent("factory", FactoryTtl, x)
    BY <1>3, <2>2, <2>4 DEF Recent, Same
  <2>6. QueryRight(x, clock)
    BY <1>1, <1>3, <2>2, <2>4, <2>5 DEF QueryRight, CallRight, Same
  <2> QED BY <1>1, <2>2, <2>3, <2>4, <2>6 DEF Ready, Same
<1>4. CASE q.kind = "context" /\ published
  <2> DEFINE y == Waits(q, "pools", "dex")
             x == [y EXCEPT !.stamp = clock]
  <2>1. "pools" \in Phases /\ "dex" \in Things /\ "dex" = Thing("pools") /\ clock \in Nat
    BY DEF Phases, Things, Thing, CachesType
  <2>2. /\ y \in Queries /\ y.phase = "pools" /\ y.called = clock
        /\ (~ y.saw => since["dex"] > clock) /\ Same(y, q)
    BY <1>1, <2>1, WaitsIs
  <2>3. FactoryKnown(q, published) = x
    BY <1>4 DEF FactoryKnown
  <2> HIDE DEF y
  <2>4. x \in Queries
    BY <2>1, <2>2, Put
  <2>5. /\ x.phase = "pools" /\ x.called = clock /\ x.stamp = clock /\ x.saw = y.saw
        /\ x.kind = q.kind /\ x.start = q.start /\ x.read = q.read
    BY <2>2 DEF Queries, Same
  <2> HIDE DEF x
  <2>6. CallRight(x, clock)
    <3>1. Patience("pools") \in Nat
      BY Spans DEF Patience
    <3>2. x.start <= x.called /\ x.called <= clock /\ clock <= x.called + Patience(x.phase)
      BY <1>1, <2>1, <2>5, <3>1
    <3> QED BY <2>1, <2>2, <2>5, <3>2 DEF CallRight
  <2>7. QueryRight(x, clock)
    BY <1>1, <1>4, <2>5, <2>6 DEF QueryRight
  <2> QED BY <1>1, <2>3, <2>4, <2>5, <2>7 DEF Ready
<1>5. CASE q.kind = "context" /\ ~ published
  <2> DEFINE d == [at |-> clock, dex |-> FALSE]
             y == [q EXCEPT !.dir = d]
             x == [y EXCEPT !.read = TRUE]
  <2>1. d \in Directories /\ d.dex = FALSE /\ d.at = clock
    BY DEF Directories, CachesType
  <2>2. FactoryKnown(q, published) = ToVault(x)
    BY <1>5 DEF FactoryKnown
  <2> HIDE DEF d
  <2>3. y \in Queries
    BY <1>1, <2>1, Put
  <2>4. /\ y.kind = q.kind /\ y.start = q.start /\ y.dir = d
        /\ y.contract = q.contract /\ y.ids = q.ids /\ y.stale = q.stale
    BY <1>1 DEF Queries
  <2> HIDE DEF y
  <2>5. x \in Queries
    BY <2>3, Put
  <2>6. /\ x.kind = q.kind /\ x.start = q.start /\ x.dir = d /\ x.read
        /\ x.contract = q.contract /\ x.ids = q.ids /\ x.stale = q.stale
    BY <2>3, <2>4 DEF Queries
  <2> HIDE DEF x
  <2>7. Recent("factory", DirectoryAge(x) + FactoryTtl + ClientTime, x)
    <3>1. DirectoryAge(x) \in Nat /\ FactoryTtl \in Nat /\ ClientTime \in Nat
      BY Spans DEF DirectoryAge
    <3>2. since["factory"] \in Int /\ q.start \in Int /\ clock \in Int
      BY <1>1 DEF CachesType, Things, Queries
    <3>3. since["factory"] + (DirectoryAge(x) + FactoryTtl + ClientTime) >= q.start
      <4>1. \A a, c, e \in Int, k, l, m \in Nat : a + l + m > c /\ e <= c => a + (k + l + m) >= e
        OBVIOUS
      <4> QED BY <1>1, <1>5, <3>1, <3>2, <4>1
    <3> QED BY <2>6, <3>3 DEF Recent
  <2>8. DirectoryRight(x)
    BY <2>1, <2>6, <2>7 DEF DirectoryRight
  <2>9. Goal(ToVault(x), x)
    BY <1>1, <1>5, <2>5, <2>6, <2>8, PairComes DEF Asking
  <2>10. LacksOnlyLate(d)
    BY <1>5, <2>1 DEF LacksOnlyLate
  <2> QED BY <2>1, <2>2, <2>6, <2>9, <2>10 DEF Ready, Goal
<1> QED BY <1>1, <1>2, <1>3, <1>4, <1>5

\* A request that starts is ready for what comes first.
LEMMA StartIs ==
  ASSUME CachesAssumption, CachesType, KeptDenials, NEW q, Begun(q), q.start = clock, q.supported
  PROVE  Ready(Start(q))
<1>1. q \in Queries /\ ~ q.read /\ clock \in Nat /\ q.kind \in {"context", "page"}
      /\ 0 <= q.start /\ q.start <= clock
  BY DEF Begun, Queries, CachesType
<1>2. CASE q.kind = "context" /\ directory # Unknown /\ Usable(q)
  <2> DEFINE x == [q EXCEPT !.dir = directory]
  <2>1. directory \in Directories
    BY <1>2 DEF CachesType
  <2>2. x \in Queries
    BY <1>1, <2>1, Put
  <2>3. /\ x.kind = q.kind /\ x.start = q.start /\ x.contract = q.contract /\ x.ids = q.ids
        /\ x.dir = directory /\ x.read = q.read
    BY <1>1 DEF Queries
  <2>4. Start(q) = ToVault(x)
    BY <1>2 DEF Start
  <2> HIDE DEF x
  <2>5. ASSUME ~ directory.dex
        PROVE  \/ Recent("dex", DirectoryAge(x), x)
               \/ Recent("factory", DirectoryAge(x) + FactoryTtl + ClientTime, x)
    <3>1. clock - directory.at <= DirectoryAge(x)
      <4>1. Wants(x) <=> Missing(q)
        BY <2>3, <2>5 DEF Wants, Missing
      <4>2. DirectoryTtl \in Nat /\ DirectoryRefresh \in Nat /\ directory.at \in Int /\ clock \in Int
        BY <1>1, <2>1, Spans DEF Directories
      <4> QED BY <1>2, <4>1, <4>2 DEF Usable, Age, DirectoryAge
    <3>2. \/ since["dex"] > directory.at
          \/ since["factory"] + FactoryTtl + ClientTime > directory.at
      BY <1>2, <2>5 DEF KeptDenials, DirectoryDenial, LacksOnlyLate
    <3>3. /\ since["dex"] \in Int /\ since["factory"] \in Int /\ directory.at \in Int /\ clock \in Int
          /\ DirectoryAge(x) \in Nat /\ FactoryTtl \in Nat /\ ClientTime \in Nat
      BY <1>1, <2>1, Spans DEF CachesType, Things, Directories, DirectoryAge
    <3>4. \A a, b, c \in Int, k \in Nat : a > b /\ c - b <= k => a + k >= c
      OBVIOUS
    <3>5. \A a, b, c \in Int, k, l, m \in Nat : a + l + m > b /\ c - b <= k => a + (k + l + m) >= c
      OBVIOUS
    <3>6. CASE since["dex"] > directory.at
      <4>1. since["dex"] + DirectoryAge(x) >= clock
        BY <3>1, <3>3, <3>4, <3>6
      <4> QED BY <2>3, <4>1 DEF Recent
    <3>7. CASE since["factory"] + FactoryTtl + ClientTime > directory.at
      <4>1. since["factory"] + (DirectoryAge(x) + FactoryTtl + ClientTime) >= clock
        BY <3>1, <3>3, <3>5, <3>7
      <4> QED BY <2>3, <4>1 DEF Recent
    <3> QED BY <3>2, <3>6, <3>7
  <2>6. DirectoryRight(x)
    BY <2>1, <2>3, <2>5 DEF DirectoryRight
  <2>7. Goal(ToVault(x), x)
    BY <1>1, <1>2, <2>2, <2>3, <2>6, PairComes DEF Asking
  <2> QED BY <1>1, <2>3, <2>4, <2>7 DEF Goal, Ready
<1>3. CASE ~ (q.kind = "context" /\ directory # Unknown /\ Usable(q))
  <2>1. Start(q) = ToFactory(q)
    BY <1>3 DEF Start
  <2>2. CASE factoryCache # Unknown /\ factoryCache.expires > clock
    <3>1. factoryCache \in [expires: Int, value: BOOLEAN]
      BY <2>2 DEF CachesType
    <3>2. ~ factoryCache.value => since["factory"] > factoryCache.expires - FactoryTtl
      BY <2>2 DEF KeptDenials, FactoryDenial
    <3>3. since["factory"] \in Int /\ FactoryTtl \in Nat /\ ClientTime \in Nat
      BY Spans DEF CachesType, Things
    <3>4. ASSUME ~ factoryCache.value
          PROVE  since["factory"] + FactoryTtl >= clock /\ since["factory"] + FactoryTtl + ClientTime > clock
      <4>1. \A a, b, c \in Int, k, l \in Nat : a > b - k /\ b > c => a + k >= c /\ a + k + l > c
        OBVIOUS
      <4>2. factoryCache.expires \in Int
        BY <3>1
      <4>3. since["factory"] > factoryCache.expires - FactoryTtl /\ factoryCache.expires > clock /\ clock \in Int
        BY <1>1, <2>2, <3>2, <3>4
      <4> QED BY <3>3, <4>1, <4>2, <4>3
    <3>5. Ready(FactoryKnown(q, factoryCache.value))
      BY <3>1, <3>4, FactoryComes
    <3> QED BY <2>1, <2>2, <3>5 DEF ToFactory
  <2>3. CASE ~ (factoryCache # Unknown /\ factoryCache.expires > clock)
    <3> DEFINE x == Waits(q, "factory", "factory")
    <3>1. "factory" \in Phases /\ "factory" \in Things /\ "factory" = Thing("factory")
      BY DEF Phases, Things, Thing
    <3>2. x \in Queries /\ x.phase = "factory" /\ Same(x, q)
      BY <1>1, <3>1, WaitsIs
    <3>3. CallRight(x, clock)
      BY <1>1, <3>1, CallIsRight
    <3>4. Start(q) = x
      BY <2>1, <2>3 DEF ToFactory
    <3> HIDE DEF x
    <3>5. QueryRight(x, clock)
      BY <1>1, <3>2, <3>3 DEF QueryRight, Same
    <3> QED BY <1>1, <3>2, <3>4, <3>5 DEF Ready, Same
  <2> QED BY <2>2, <2>3
<1> QED BY <1>2, <1>3

-----------------------------------------------------------------------------
\* Each step keeps what is kept right, and the requests.

\* What is right for a request stays so while the chain and the nodes are the same.
LEMMA RightAfterwards ==
  ASSUME UNCHANGED <<clock, weather, since>>, QueriesRight, NEW r \in Readers, NEW x,
         requests' = [requests EXCEPT ![r] = x], ~ x.read, QueryRight(x, clock)
  PROVE  QueriesRight'
<1>1. \A s \in Readers : requests'[s] # Unasked => ~ requests'[s].read /\ QueryRight(requests'[s], clock)
  BY DEF QueriesRight
<1> QED BY <1>1 DEF QueriesRight, QueryRight, CallRight, DirectoryRight, VaultRight, NamesRight, Recent,
              Unsteady, StorageFailed

\* The same of a request that goes on and replaces the directory.
LEMMA GoesOn ==
  ASSUME CachesInv, UNCHANGED <<clock, weather, since>>, NEW r \in Readers, NEW x, Ready(x), Goes(r, x)
  PROVE  /\ requests' \in [Readers -> Queries \cup {Unasked}] /\ QueriesRight'
         /\ directory' \in Directories \cup {Unknown} /\ DirectoryDenial'
<1> DEFINE y == [x EXCEPT !.read = FALSE]
<1>1. x \in Queries /\ QueryRight(x, clock)
  BY DEF Ready
<1>2. y \in Queries
  BY <1>1, Put
<1>3. /\ Same([y EXCEPT !.read = x.read], x) /\ y.phase = x.phase /\ y.called = x.called
      /\ y.saw = x.saw /\ y.stamp = x.stamp /\ y.names = x.names /\ y.todo = x.todo
      /\ y.start = x.start /\ y.kind = x.kind /\ y.stale = x.stale /\ y.dir = x.dir /\ y.ids = x.ids
      /\ y.contract = x.contract /\ y.vault = x.vault /\ y.supported = x.supported
  BY <1>1 DEF Queries, Same
<1>4. requests' = [requests EXCEPT ![r] = y] /\ directory' = IF x.read THEN x.dir ELSE directory
  BY DEF Goes
<1> HIDE DEF y
<1>5. Ordered(y) = Ordered(x)
  BY <1>3 DEF Ordered
<1>6. Wanted(y) = Wanted(x)
  BY <1>5 DEF Wanted
<1>7. QueryRight(y, clock)
  <2>1. CallRight(y, clock)
    BY <1>1, <1>3 DEF QueryRight, CallRight
  <2>2. DirectoryRight(x) => DirectoryRight(y)
    BY <1>3 DEF DirectoryRight, DirectoryAge, Wants, Recent
  <2>3. VaultRight(x, clock) => VaultRight(y, clock)
    BY <1>3 DEF VaultRight, Recent, StorageFailed
  <2>4. NamesRight(x, clock) => NamesRight(y, clock)
    BY <1>3, <1>6 DEF NamesRight, Recent, Unsteady
  <2> QED BY <1>1, <1>3, <1>6, <2>1, <2>2, <2>3, <2>4 DEF QueryRight, Recent
<1>8. QueriesRight'
  <2>1. ~ y.read
    BY <1>1 DEF y, Queries
  <2> QED BY <1>4, <1>7, <2>1, RightAfterwards DEF CachesInv
<1>9. requests' \in [Readers -> Queries \cup {Unasked}]
  BY <1>2, <1>4 DEF CachesInv, CachesType
<1>10. directory' \in Directories \cup {Unknown} /\ DirectoryDenial'
  BY <1>4 DEF Ready, CachesInv, CachesType, KeptDenials, DirectoryDenial, LacksOnlyLate
<1> QED BY <1>8, <1>9, <1>10

\* A request that starts keeps the caches.
LEMMA AskStep ==
  ASSUME CachesAssumption, CachesInv, NEW r \in Readers, NEW what \in Asks, Ask(r, what)
  PROVE  CachesInv'
<1> DEFINE q == [phase |-> "idle", kind |-> what.kind, contract |-> what.contract, ids |-> what.ids,
                 start |-> clock, hit |-> directory, dir |-> Unknown, read |-> FALSE, stamp |-> 0,
                 stale |-> FALSE, called |-> 0, saw |-> FALSE, vault |-> FALSE, names |-> {},
                 todo |-> {}, supported |-> TRUE]
<1>1. CachesType /\ KeptDenials
  BY DEF CachesInv
<1>2. /\ what.kind \in {"context", "page"} /\ what.contract \in {Vault, Unknown}
      /\ what.ids \in Seq(Range(Tokens))
  BY DEF CachesAssumption
<1>3. q \in Queries
  <2>1. "idle" \in Phases
    BY DEF Phases
  <2>2. clock \in Int /\ directory \in Directories \cup {Unknown}
    BY <1>1 DEF CachesType
  <2> QED BY <1>2, <2>1, <2>2 DEF Queries
<1>4. Begun(q) /\ q.start = clock /\ q.supported
  BY <1>1, <1>3 DEF Begun, CachesType
<1>5. Goes(r, Start(q)) /\ UNCHANGED <<clock, weather, since, factoryCache, tokenCache, backoffUntil, vaultCache>>
  BY DEF Ask
<1> HIDE DEF q
<1>6. Ready(Start(q))
  BY <1>1, <1>4, StartIs
<1>7. /\ requests' \in [Readers -> Queries \cup {Unasked}] /\ QueriesRight'
      /\ directory' \in Directories \cup {Unknown} /\ DirectoryDenial'
  BY <1>5, <1>6, GoesOn
<1>8. CachesType'
  BY <1>1, <1>5, <1>7 DEF CachesType
<1>9. KeptDenials'
  BY <1>1, <1>5, <1>7 DEF KeptDenials, FactoryDenial, VaultDenial, NameDenials, BackoffHasReason, BackedOff
<1> QED BY <1>7, <1>8, <1>9 DEF CachesInv

\* Whether a thing was seen is true or false.
LEMMA SeenIs ==
  ASSUME NEW q \in Queries, NEW thing
  PROVE  Seen(q, thing) \subseteq BOOLEAN
<1>1. q.saw \in BOOLEAN
  BY DEF Queries
<1>2. Exists(thing) \in BOOLEAN
  BY DEF Exists
<1> QED BY <1>1, <1>2, Zenon DEF Seen

\* A call that has been answered without a thing was made when it was not yet there.
LEMMA Unseen ==
  ASSUME CachesType, NEW q \in Queries, CallRight(q, clock),
         q.phase \in {"factory", "pools", "vault", "probe", "rest"},
         NEW told \in Seen(q, Thing(q.phase)), ~ told
  PROVE  since[Thing(q.phase)] > q.called
<1>1. Thing(q.phase) \in Things /\ clock \in Int /\ q.called \in Int /\ since[Thing(q.phase)] \in Int
  BY DEF Thing, Things, CachesType, Queries
<1>2. q.called <= clock /\ (~ q.saw => since[Thing(q.phase)] > q.called)
  BY DEF CallRight
<1>3. CASE ~ q.saw
  BY <1>2, <1>3
<1>4. CASE ~ Exists(Thing(q.phase))
  BY <1>1, <1>2, <1>4 DEF Exists
<1> QED BY <1>3, <1>4 DEF Seen

\* A request that is under way is one, and has been right so far.
LEMMA QueryIs ==
  ASSUME CachesInv, NEW r \in Readers, requests[r].phase # "idle"
  PROVE  requests[r] \in Queries /\ ~ requests[r].read /\ QueryRight(requests[r], clock)
BY DEF CachesInv, CachesType, QueriesRight, Unasked

\* An answer about the factory keeps the caches.
LEMMA FactoryStep ==
  ASSUME CachesAssumption, CachesInv, NEW r \in Readers, FactoryAnswers(r)
  PROVE  CachesInv'
<1> DEFINE q == requests[r]
<1>1. CachesType /\ KeptDenials /\ q.phase = "factory"
  BY DEF CachesInv, FactoryAnswers
<1>2. q \in Queries /\ ~ q.read /\ QueryRight(q, clock)
  BY <1>1, QueryIs DEF CachesInv
<1>3. PICK published \in Seen(q, "factory") :
        /\ factoryCache' = [expires |-> q.called + FactoryTtl, value |-> published]
        /\ Goes(r, FactoryKnown(q, published))
  BY DEF FactoryAnswers
<1>4. UNCHANGED <<clock, weather, since, tokenCache, backoffUntil, vaultCache>>
  BY DEF FactoryAnswers
<1>5. published \in BOOLEAN
  BY <1>2, <1>3, SeenIs
<1>6. CallRight(q, clock) /\ 0 <= q.start /\ q.start <= clock
  BY <1>2 DEF QueryRight
<1>7. Thing("factory") = "factory" /\ Patience("factory") = ClientTime
  BY DEF Thing, Patience
<1>8. q.start <= q.called /\ clock <= q.called + ClientTime
  BY <1>1, <1>6, <1>7 DEF CallRight
<1>9. ~ published => since["factory"] > q.called
  BY <1>1, <1>2, <1>3, <1>6, <1>7, Unseen
<1>10. since["factory"] \in Int /\ q.called \in Int /\ q.start \in Int /\ clock \in Int
  BY <1>1, <1>2 DEF CachesType, Things, Queries
<1>11. ASSUME ~ published
       PROVE  since["factory"] + FactoryTtl >= q.start /\ since["factory"] + FactoryTtl + ClientTime > clock
  <2>1. \A a, b, c, d \in Int, k, l \in Nat :
          a > b /\ d <= b /\ c <= b + l => a + k >= d /\ a + k + l > c
    BY SMTT(30)
  <2>2. FactoryTtl \in Nat /\ ClientTime \in Nat
    BY Spans
  <2> QED BY <1>8, <1>9, <1>10, <1>11, <2>1, <2>2
<1> HIDE DEF q
<1>12. Begun(q)
  BY <1>1, <1>2, <1>6 DEF Begun, QueryRight
<1>13. Ready(FactoryKnown(q, published))
  BY <1>1, <1>5, <1>11, <1>12, FactoryComes
<1>14. /\ requests' \in [Readers -> Queries \cup {Unasked}] /\ QueriesRight'
       /\ directory' \in Directories \cup {Unknown} /\ DirectoryDenial'
  BY <1>3, <1>4, <1>13, GoesOn
<1>15. FactoryDenial' /\ factoryCache' \in [expires: Int, value: BOOLEAN]
  <2>1. q.called + FactoryTtl \in Int /\ \A e : e = q.called + FactoryTtl => e - FactoryTtl = q.called
    <3>1. \A b \in Int, k \in Nat : b + k \in Int /\ \A e : e = b + k => e - k = b
      OBVIOUS
    <3>2. FactoryTtl \in Nat
      BY Spans
    <3> QED BY <1>10, <3>1, <3>2
  <2>2. factoryCache'.expires = q.called + FactoryTtl /\ factoryCache'.value = published
    BY <1>3
  <2>3. factoryCache' \in [expires: Int, value: BOOLEAN]
    BY <1>3, <1>5, <2>1
  <2>4. ASSUME ~ published PROVE since'["factory"] > factoryCache'.expires - FactoryTtl
    <3>1. since' = since
      BY <1>4
    <3>2. factoryCache'.expires - FactoryTtl = q.called
      BY <2>1, <2>2
    <3> QED BY <1>9, <2>4, <3>1, <3>2
  <2> QED BY <2>2, <2>3, <2>4 DEF FactoryDenial
<1>16. CachesType'
  BY <1>1, <1>4, <1>14, <1>15 DEF CachesType
<1>17. KeptDenials'
  BY <1>1, <1>4, <1>14, <1>15 DEF KeptDenials, VaultDenial, NameDenials, BackoffHasReason, BackedOff
<1> QED BY <1>14, <1>16, <1>17 DEF CachesInv

\* So does one about the pools.
LEMMA PoolsStep ==
  ASSUME CachesAssumption, CachesInv, NEW r \in Readers, PoolsAnswer(r)
  PROVE  CachesInv'
<1> DEFINE q == requests[r]
<1>1. CachesType /\ KeptDenials /\ q.phase = "pools"
  BY DEF CachesInv, PoolsAnswer
<1>2. q \in Queries /\ ~ q.read /\ QueryRight(q, clock)
  BY <1>1, QueryIs DEF CachesInv
<1>3. PICK dex \in Seen(q, "dex") :
        requests' = [requests EXCEPT ![r] = [[[q EXCEPT !.phase = "list"] EXCEPT !.saw = dex] EXCEPT !.called = clock]]
  BY DEF PoolsAnswer
<1>4. UNCHANGED <<clock, weather, since, factoryCache, directory, tokenCache, backoffUntil, vaultCache>>
  BY DEF PoolsAnswer, kept
<1> DEFINE a == [q EXCEPT !.phase = "list"]
           b == [a EXCEPT !.saw = dex]
           x == [b EXCEPT !.called = clock]
<1>5. x \in Queries
  <2>1. "list" \in Phases /\ dex \in BOOLEAN /\ clock \in Int
    BY <1>1, <1>2, <1>3, SeenIs DEF Phases, CachesType
  <2>2. a \in Queries
    BY <1>2, <2>1, Put
  <2>3. b \in Queries
    BY <2>1, <2>2, Put
  <2> QED BY <2>1, <2>3, Put
<1>6. /\ x.phase = "list" /\ x.called = clock /\ x.saw = dex /\ x.stamp = q.stamp
      /\ x.kind = q.kind /\ x.start = q.start /\ x.read = q.read
  BY <1>2 DEF Queries
<1>7. requests' = [requests EXCEPT ![r] = x]
  BY <1>3
<1> HIDE DEF x, q
<1>8. CallRight(q, clock) /\ 0 <= q.start /\ q.start <= clock /\ q.kind = "context"
  BY <1>1, <1>2 DEF QueryRight, Queries
<1>9. CallRight(x, clock)
  <2>1. Thing("pools") = "dex" /\ Patience("list") \in Nat /\ clock \in Int
    BY <1>1, Spans DEF Thing, Patience, CachesType
  <2>2. q.stamp = q.called /\ q.start <= q.called
    BY <1>1, <1>8 DEF CallRight
  <2>3. ~ dex => since["dex"] > q.called
    <3>1. dex \in Seen(q, Thing(q.phase))
      BY <1>1, <1>3, <2>1
    <3> QED BY <1>1, <1>2, <1>8, <2>1, <3>1, Unseen
  <2>4. x.start <= x.called /\ x.called <= clock /\ clock <= x.called + Patience(x.phase)
    BY <1>6, <1>8, <2>1
  <2>5. x.start <= x.stamp /\ (~ x.saw => since["dex"] > x.stamp)
    BY <1>6, <2>2, <2>3
  <2> QED BY <1>6, <2>4, <2>5 DEF CallRight
<1>10. QueryRight(x, clock)
  BY <1>6, <1>8, <1>9 DEF QueryRight
<1>11. QueriesRight'
  BY <1>2, <1>4, <1>6, <1>7, <1>10, RightAfterwards DEF CachesInv
<1>12. CachesType'
  BY <1>1, <1>4, <1>5, <1>7 DEF CachesType
<1>13. KeptDenials'
  BY <1>1, <1>4 DEF KeptDenials, FactoryDenial, DirectoryDenial, LacksOnlyLate, VaultDenial, NameDenials,
                    BackoffHasReason, BackedOff
<1> QED BY <1>11, <1>12, <1>13 DEF CachesInv

\* So does one about the tokens.
LEMMA TokensStep ==
  ASSUME CachesAssumption, CachesInv, NEW r \in Readers, TokensAnswer(r)
  PROVE  CachesInv'
<1> DEFINE q == requests[r]
           d == [at |-> q.stamp, dex |-> q.saw]
           a == [q EXCEPT !.dir = d]
           x == [a EXCEPT !.read = TRUE]
<1>1. CachesType /\ KeptDenials /\ q.phase = "list"
  BY DEF CachesInv, TokensAnswer
<1>2. q \in Queries /\ ~ q.read /\ QueryRight(q, clock)
  BY <1>1, QueryIs DEF CachesInv
<1>3. Goes(r, ToVault(x))
  BY DEF TokensAnswer, Stamped
<1>4. UNCHANGED <<clock, weather, since, factoryCache, tokenCache, backoffUntil, vaultCache>>
  BY DEF TokensAnswer
<1> HIDE DEF q
<1>5. d \in Directories /\ d.at = q.stamp /\ d.dex = q.saw
  BY <1>2 DEF Directories, Queries
<1> HIDE DEF d
<1>6. a \in Queries /\ x \in Queries
  <2>1. a \in Queries
    BY <1>2, <1>5, Put
  <2> QED BY <2>1, Put
<1>7. x.kind = q.kind /\ x.start = q.start /\ x.dir = d /\ x.read /\ x.stamp = q.stamp
  BY <1>2 DEF Queries
<1> HIDE DEF x
<1>8. CallRight(q, clock) /\ 0 <= q.start /\ q.start <= clock /\ q.kind = "context"
  BY <1>1, <1>2 DEF QueryRight, Queries
<1>9. q.start <= q.stamp /\ (~ q.saw => since["dex"] > q.stamp)
  BY <1>1, <1>8 DEF CallRight
<1>10. LacksOnlyLate(d)
  BY <1>5, <1>9 DEF LacksOnlyLate
<1>11. DirectoryRight(x)
  <2>1. ASSUME ~ q.saw PROVE Recent("dex", DirectoryAge(x), x)
    <3>1. \A a_, b, c \in Int, k \in Nat : a_ > b /\ c <= b => a_ + k >= c
      OBVIOUS
    <3>2. DirectoryAge(x) \in Nat /\ since["dex"] \in Int /\ q.stamp \in Int /\ q.start \in Int
      BY <1>1, <1>2, Spans DEF DirectoryAge, CachesType, Things, Queries
    <3>3. since["dex"] + DirectoryAge(x) >= q.start
      BY <1>9, <2>1, <3>1, <3>2
    <3> QED BY <1>7, <3>3 DEF Recent
  <2> QED BY <1>5, <1>7, <2>1 DEF DirectoryRight
<1>12. Goal(ToVault(x), x)
  BY <1>1, <1>6, <1>7, <1>8, <1>11, PairComes DEF Asking
<1>13. Ready(ToVault(x))
  BY <1>5, <1>7, <1>10, <1>12 DEF Ready, Goal
<1>14. /\ requests' \in [Readers -> Queries \cup {Unasked}] /\ QueriesRight'
       /\ directory' \in Directories \cup {Unknown} /\ DirectoryDenial'
  BY <1>3, <1>4, <1>13, GoesOn
<1>15. CachesType'
  BY <1>1, <1>4, <1>14 DEF CachesType
<1>16. KeptDenials'
  BY <1>1, <1>4, <1>14 DEF KeptDenials, FactoryDenial, VaultDenial, NameDenials, BackoffHasReason, BackedOff
<1> QED BY <1>14, <1>15, <1>16 DEF CachesInv

\* A step that is only of a request, which may end.
LEMMA OnlyRequest ==
  ASSUME CachesInv, UNCHANGED <<clock, weather, since, kept>>, NEW r \in Readers, NEW x,
         x \in Queries, ~ x.read, QueryRight(x, clock), requests' = [requests EXCEPT ![r] = x]
  PROVE  CachesInv'
<1>1. QueriesRight'
  BY RightAfterwards DEF CachesInv
<1>2. CachesType'
  BY DEF CachesInv, CachesType, kept
<1>3. KeptDenials'
  BY DEF CachesInv, kept, KeptDenials, FactoryDenial, DirectoryDenial, LacksOnlyLate, VaultDenial, NameDenials,
         BackoffHasReason, BackedOff
<1> QED BY <1>1, <1>2, <1>3 DEF CachesInv

\* So does a failure of the directory.
LEMMA FailsStep ==
  ASSUME CachesAssumption, CachesInv, NEW r \in Readers, DirectoryFails(r)
  PROVE  CachesInv'
<1> DEFINE q == requests[r]
<1>1. CachesType /\ KeptDenials /\ q.phase \in {"factory", "pools", "list", "page"}
  BY DEF CachesInv, DirectoryFails
<1>2. q \in Queries /\ ~ q.read /\ QueryRight(q, clock)
  BY <1>1, QueryIs DEF CachesInv
<1>3. UNCHANGED <<clock, weather, since, kept>>
  BY DEF DirectoryFails
<1>4. 0 <= q.start /\ q.start <= clock
  BY <1>2 DEF QueryRight
<1>5. CASE q.kind = "page" \/ q.hit = Unknown
  <2> DEFINE x == [Done(q) EXCEPT !.phase = "failed"]
  <2>1. requests' = [requests EXCEPT ![r] = x]
    BY <1>5 DEF DirectoryFails
  <2> HIDE DEF q
  <2>2. Done(q) \in Queries /\ Same(Done(q), q)
    BY <1>2, DoneIs
  <2>3. "failed" \in Phases
    BY DEF Phases
  <2>4. x \in Queries
    BY <2>2, <2>3, Put
  <2>5. x.phase = "failed" /\ x.read = q.read /\ x.kind = q.kind /\ x.start = q.start /\ x.supported = q.supported
    BY <2>2 DEF Queries, Same
  <2> HIDE DEF x
  <2>6. QueryRight(x, clock)
    BY <1>2, <1>4, <2>5 DEF QueryRight, CallRight, Recent
  <2> QED BY <1>2, <1>3, <2>1, <2>4, <2>5, <2>6, OnlyRequest
<1>6. CASE ~ (q.kind = "page" \/ q.hit = Unknown)
  <2> DEFINE a == [q EXCEPT !.dir = q.hit]
             x == [a EXCEPT !.stale = TRUE]
  <2>1. requests' = [requests EXCEPT ![r] = ToVault(x)]
    BY <1>6 DEF DirectoryFails
  <2> HIDE DEF q
  <2>2. q.hit \in Directories \cup {Unknown} /\ q.kind = "context"
    BY <1>2, <1>6 DEF Queries
  <2>3. a \in Queries
    BY <1>2, <2>2, Put
  <2>4. x \in Queries
    BY <2>3, Put
  <2>5. x.kind = q.kind /\ x.start = q.start /\ x.read = q.read /\ x.stale
    BY <1>2 DEF Queries
  <2> HIDE DEF x
  <2>6. DirectoryRight(x)
    BY <2>5 DEF DirectoryRight
  <2>7. Goal(ToVault(x), x)
    BY <1>1, <1>4, <2>2, <2>4, <2>5, <2>6, PairComes DEF Asking
  <2> QED BY <1>2, <1>3, <2>1, <2>5, <2>7, OnlyRequest DEF Goal
<1> QED BY <1>5, <1>6

\* So does a page of names.
LEMMA PageStep ==
  ASSUME CachesAssumption, CachesInv, NEW r \in Readers, PageAnswers(r)
  PROVE  CachesInv'
<1> DEFINE q == requests[r]
<1>1. q.phase = "page" /\ requests' = [requests EXCEPT ![r] = Done(q)] /\ UNCHANGED <<clock, weather, since, kept>>
  BY DEF PageAnswers
<1>2. q \in Queries /\ ~ q.read /\ QueryRight(q, clock)
  BY <1>1, QueryIs
<1> HIDE DEF q
<1>3. Done(q) \in Queries /\ Same(Done(q), q) /\ Done(q).phase = "done"
  BY <1>2, DoneIs
<1>4. q.kind = "page"
  BY <1>1, <1>2 DEF QueryRight, Queries
<1>5. QueryRight(Done(q), clock)
  BY <1>2, <1>3, <1>4, SameIsRight DEF QueryRight, CallRight, Same
<1> QED BY <1>1, <1>2, <1>3, <1>5, OnlyRequest DEF Same

\* What is right of a request that has come to the vault or beyond.
LEMMA Onward ==
  ASSUME NEW q \in Queries, QueryRight(q, clock), q.phase \in {"vault", "probe", "rest"}
  PROVE  /\ q.kind = "context" /\ 0 <= q.start /\ q.start <= clock /\ CallRight(q, clock) /\ DirectoryRight(q)
         /\ q.start <= q.called /\ clock <= q.called + CallTime
         /\ q.phase # "vault" => VaultRight(q, clock) /\ NamesRight(q, clock)
         /\ q.phase = "probe" => q.todo # {} /\ q.todo \subseteq Wanted(q)
<1>1. q.kind = "context"
  BY DEF QueryRight, Queries
<1>2. Patience(q.phase) = CallTime
  BY DEF Patience
<1>3. CallRight(q, clock)
  BY DEF QueryRight
<1>4. q.start <= q.called /\ clock <= q.called + CallTime
  BY <1>2, <1>3 DEF CallRight
<1> QED BY <1>1, <1>3, <1>4 DEF QueryRight

\* So does an answer about the vault.
LEMMA VaultStep ==
  ASSUME CachesAssumption, CachesInv, NEW r \in Readers, VaultAnswers(r)
  PROVE  CachesInv'
<1> DEFINE q == requests[r]
<1>1. CachesType /\ KeptDenials /\ q.phase = "vault"
  BY DEF CachesInv, VaultAnswers
<1>2. q \in Queries /\ ~ q.read /\ QueryRight(q, clock)
  BY <1>1, QueryIs DEF CachesInv
<1>3. UNCHANGED <<clock, weather, since, factoryCache, directory, tokenCache, backoffUntil>>
  BY DEF VaultAnswers
<1>4. /\ q.kind = "context" /\ 0 <= q.start /\ q.start <= clock /\ CallRight(q, clock) /\ DirectoryRight(q)
      /\ q.start <= q.called /\ clock <= q.called + CallTime
  BY <1>1, <1>2, Onward
<1>5. clock \in Int /\ since["vault"] \in Int /\ q.start \in Int /\ q.called \in Int
  BY <1>1, <1>2 DEF CachesType, Things, Queries
<1>6. CASE StorageFrom(nodes) = "ok"
  <2>1. PICK paired \in Seen(q, "vault") :
          /\ vaultCache' = PairKept(paired)
          /\ requests' = [requests EXCEPT ![r] = ToNames([q EXCEPT !.vault = paired])]
    BY <1>6 DEF VaultAnswers
  <2> DEFINE x == [q EXCEPT !.vault = paired]
  <2> HIDE DEF q
  <2>2. paired \in BOOLEAN
    BY <1>2, <2>1, SeenIs
  <2>3. x \in Queries
    BY <1>2, <2>2, Put
  <2>4. /\ x.kind = q.kind /\ x.start = q.start /\ x.contract = q.contract /\ x.ids = q.ids
        /\ x.stale = q.stale /\ x.dir = q.dir /\ x.read = q.read /\ x.vault = paired
    BY <1>2 DEF Queries
  <2>5. requests' = [requests EXCEPT ![r] = ToNames(x)]
    BY <2>1
  <2> HIDE DEF x
  <2>6. ASSUME ~ paired PROVE since["vault"] > q.called
    <3>1. Thing("vault") = "vault"
      BY DEF Thing
    <3>2. paired \in Seen(q, Thing(q.phase))
      BY <1>1, <2>1, <3>1
    <3> QED BY <1>1, <1>2, <1>4, <2>6, <3>1, <3>2, Unseen
  <2>7. DirectoryRight(x)
    BY <1>4, <2>4 DEF DirectoryRight, DirectoryAge, Wants, Recent
  <2>8. VaultRight(x, clock)
    <3>1. ASSUME ~ paired PROVE Recent("vault", VaultReread + CallTime, x)
      <4>1. \A a, b, c \in Int, k, l \in Nat : a > b /\ c <= b => a + (k + l) >= c
        OBVIOUS
      <4>2. VaultReread \in Nat /\ CallTime \in Nat
        BY Spans
      <4>3. since["vault"] + (VaultReread + CallTime) >= q.start
        BY <1>4, <1>5, <2>6, <3>1, <4>1, <4>2
      <4> QED BY <2>4, <4>3 DEF Recent
    <3> QED BY <2>4, <3>1 DEF VaultRight
  <2>9. Goal(ToNames(x), x)
    BY <1>1, <1>4, <2>3, <2>4, <2>7, <2>8, NamesCome DEF Asking
  <2>10. QueriesRight' /\ requests' \in [Readers -> Queries \cup {Unasked}]
    <3>1. QueriesRight'
      BY <1>2, <1>3, <2>4, <2>5, <2>9, RightAfterwards DEF Goal, CachesInv
    <3> QED BY <1>1, <2>5, <2>9, <3>1 DEF Goal, CachesType
  <2>11. vaultCache' \in [at: Int, paired: BOOLEAN] /\ VaultDenial'
    <3>1. VaultTtl \in Nat /\ VaultReread \in Nat /\ CallTime \in Nat
      BY Spans
    <3> DEFINE at == IF paired THEN clock ELSE clock - VaultTtl + VaultReread
    <3>2. vaultCache' = [at |-> at, paired |-> paired]
      BY <2>1 DEF PairKept
    <3>3. at \in Int
      BY <1>5, <3>1
    <3>4. ASSUME ~ paired PROVE since["vault"] + CallTime > at + VaultTtl - VaultReread
      <4>1. \A a, b, c \in Int, k, l, m \in Nat : a > b /\ c <= b + k => a + k > c - l + m + l - m
        <5> TAKE a, b, c \in Int, k, l, m \in Nat
        <5> HAVE a > b /\ c <= b + k
        <5>1. c - l + m + l - m = c
          OBVIOUS
        <5>2. a + k > c
          OBVIOUS
        <5> QED BY <5>1, <5>2
      <4> QED BY <1>4, <1>5, <2>6, <3>1, <3>4, <4>1
    <3> HIDE DEF at
    <3>5. vaultCache'.at = at /\ vaultCache'.paired = paired /\ since' = since
      BY <1>3, <3>2
    <3>6. vaultCache' \in [at: Int, paired: BOOLEAN]
      BY <2>2, <3>2, <3>3
    <3> QED BY <3>4, <3>5, <3>6 DEF VaultDenial
  <2>12. CachesType'
    BY <1>1, <1>3, <2>10, <2>11 DEF CachesType
  <2>13. KeptDenials'
    BY <1>1, <1>3, <2>11 DEF KeptDenials, FactoryDenial, DirectoryDenial, LacksOnlyLate, NameDenials,
                             BackoffHasReason, BackedOff
  <2> QED BY <2>10, <2>12, <2>13 DEF CachesInv
<1>7. CASE StorageFrom(nodes) # "ok"
  <2>1. requests' = [requests EXCEPT ![r] = ToNames(q)] /\ UNCHANGED <<clock, weather, since, kept>>
    BY <1>7 DEF VaultAnswers, kept
  <2>2. VaultRight(q, clock)
    BY <1>4, <1>5, <1>7 DEF VaultRight, StorageFailed, nodes
  <2>3. Goal(ToNames(q), q)
    BY <1>1, <1>2, <1>4, <2>2, NamesCome DEF Asking
  <2> HIDE DEF q
  <2> QED BY <1>2, <2>1, <2>3, OnlyRequest DEF Goal
<1> QED BY <1>6, <1>7

\* What is learnt of names: those that were asked for are known, late, or asked for next.
LEMMA LearnStep ==
  ASSUME CachesAssumption, CachesInv, NEW r \in Readers, requests[r].phase \in {"probe", "rest"},
         NEW ids \in SUBSET requests[r].todo, NEW named \in Seen(requests[r], "names"), Learn(r, ids, named),
         UNCHANGED <<clock, weather, since, factoryCache, directory, vaultCache>>,
         backoffUntil' \in Int, BackoffHasReason',
         requests[r].phase = "rest" /\ requests[r].todo \ ids # {} => Unsteady(requests[r], clock)
  PROVE  CachesInv'
<1> DEFINE q == requests[r]
           more == {id \in ids : named /\ id # Vault}
           a == [q EXCEPT !.names = q.names \cup more]
           b == [a EXCEPT !.todo = q.todo \ ids]
           x == IF q.phase = "probe" /\ b.todo # {} THEN Waits(b, "rest", "names") ELSE Done(b)
<1>1. CachesType /\ KeptDenials /\ q.phase \in {"probe", "rest"}
  BY DEF CachesInv
<1>2. q \in Queries /\ ~ q.read /\ QueryRight(q, clock)
  BY <1>1, QueryIs DEF CachesInv
<1>3. /\ tokenCache' = [id \in DOMAIN tokenCache |->
             IF id \in ids THEN [at |-> clock, named |-> named /\ id # Vault] ELSE tokenCache[id]]
      /\ requests' = [requests EXCEPT ![r] = x]
  <2>1. a.todo = q.todo /\ a.phase = q.phase
    BY <1>2 DEF Queries
  <2>2. b.phase = q.phase
    BY <1>2 DEF Queries
  <2>3. [q EXCEPT !.names = @ \cup more, !.todo = @ \ ids] = b
    BY <1>2, <2>1 DEF Queries
  <2> QED BY <2>1, <2>2, <2>3 DEF Learn
<1>20. x = IF q.phase = "probe" /\ b.todo # {} THEN Waits(b, "rest", "names") ELSE Done(b)
  OBVIOUS
<1> HIDE DEF x
<1>4. /\ q.kind = "context" /\ 0 <= q.start /\ q.start <= clock /\ CallRight(q, clock) /\ DirectoryRight(q)
      /\ q.start <= q.called /\ clock <= q.called + CallTime /\ VaultRight(q, clock) /\ NamesRight(q, clock)
  BY <1>1, <1>2, Onward
<1>5. clock \in Int /\ since["names"] \in Int /\ q.start \in Int /\ q.called \in Int
  BY <1>1, <1>2 DEF CachesType, Things, Queries
<1>6. named \in BOOLEAN /\ ids \subseteq q.todo /\ q.todo \subseteq TokenIds /\ q.names \subseteq TokenIds
  BY <1>2, SeenIs DEF Queries
<1>7. ASSUME q.phase = "rest", q.todo \ ids # {} PROVE Unsteady(q, clock)
  BY <1>7
<1>8. ASSUME ~ named PROVE since["names"] > q.called
  <2>1. Thing(q.phase) = "names"
    BY <1>1 DEF Thing
  <2>2. named \in Seen(q, Thing(q.phase))
    BY <2>1
  <2> HIDE DEF q
  <2> QED BY <1>1, <1>2, <1>4, <1>8, <2>1, <2>2, Unseen
<1> HIDE DEF q
<1>9. b \in Queries
  <2>1. a \in Queries
    BY <1>2, <1>6, Put
  <2>2. q.todo \ ids \in SUBSET TokenIds
    BY <1>6
  <2> QED BY <2>1, <2>2, Put
<1>10. Same(b, q) /\ b.names = q.names \cup more /\ b.todo = q.todo \ ids
  BY <1>2 DEF Queries, Same
<1> HIDE DEF b
<1>11. ASSUME ~ named PROVE Recent("names", TokenTtl + CallTime, q)
  <2>1. \A m, n, o \in Int, k, l \in Nat : m > n /\ o <= n => m + (k + l) >= o
    OBVIOUS
  <2>2. TokenTtl \in Nat /\ CallTime \in Nat
    BY Spans
  <2>3. since["names"] + (TokenTtl + CallTime) >= q.start
    BY <1>4, <1>5, <1>8, <1>11, <2>1, <2>2
  <2> QED BY <2>3 DEF Recent
<1>12. \A id \in Wanted(q) \ {Vault} :
         \/ id \in q.names \cup more
         \/ id \in q.todo \ ids
         \/ Recent("names", TokenTtl + CallTime, q)
         \/ Unsteady(q, clock)
  BY <1>4, <1>11 DEF NamesRight
<1> HIDE DEF more
<1>13. ASSUME q.phase = "probe" /\ b.todo # {}
       PROVE  x \in Queries /\ ~ x.read /\ QueryRight(x, clock)
  <2>0. "rest" \in Phases /\ "names" \in Things /\ "names" = Thing("rest")
    BY DEF Phases, Things, Thing
  <2>1. x = Waits(b, "rest", "names")
    BY <1>13, <1>20
  <2>7. x \in Queries /\ Same(x, b) /\ x.phase = "rest" /\ x.names = b.names /\ x.todo = b.todo
    BY <1>1, <1>9, <2>0, <2>1, WaitsIs
  <2>2. x \in Queries /\ Same(x, q) /\ x.phase = "rest" /\ x.names = b.names /\ x.todo = b.todo
    BY <1>10, <2>7 DEF Same
  <2>3. CallRight(x, clock)
    <3>1. b.start <= clock
      BY <1>4, <1>10 DEF Same
    <3> QED BY <1>1, <1>9, <2>0, <2>1, <3>1, CallIsRight
  <2>4. NamesRight(x, clock)
    BY <1>10, <1>12, <2>2, SameIsRight DEF NamesRight
  <2>5. DirectoryRight(x) /\ VaultRight(x, clock)
    BY <1>4, <2>2, SameIsRight
  <2>6. QueryRight(x, clock)
    BY <1>4, <2>2, <2>3, <2>4, <2>5 DEF QueryRight, Same
  <2> QED BY <1>2, <2>2, <2>6 DEF Same
<1>14. ASSUME ~ (q.phase = "probe" /\ b.todo # {})
       PROVE  x \in Queries /\ ~ x.read /\ QueryRight(x, clock)
  <2>1. x = Done(b)
    BY <1>14, <1>20
  <2>2. x \in Queries /\ Same(x, q) /\ x.phase = "done" /\ x.names = b.names
    BY <1>9, <1>10, <2>1, DoneIs DEF Same
  <2>3. b.todo # {} => Unsteady(q, clock)
    BY <1>1, <1>7, <1>10, <1>14
  <2>4. NamesRight(x, clock)
    BY <1>10, <1>12, <2>2, <2>3, SameIsRight DEF NamesRight
  <2>5. DirectoryRight(x) /\ VaultRight(x, clock)
    BY <1>4, <2>2, SameIsRight
  <2>6. QueryRight(x, clock)
    BY <1>4, <2>2, <2>4, <2>5 DEF QueryRight, CallRight, Same
  <2> QED BY <1>2, <2>2, <2>6 DEF Same
<1>15. x \in Queries /\ ~ x.read /\ QueryRight(x, clock)
  BY <1>13, <1>14
<1>16. QueriesRight'
  BY <1>3, <1>15, RightAfterwards DEF CachesInv
<1>17. tokenCache' \in [TokenIds -> [at: Int, named: BOOLEAN] \cup {Unknown}] /\ NameDenials'
  <2>1. DOMAIN tokenCache = TokenIds
    BY <1>1 DEF CachesType
  <2>2. \A id \in TokenIds : tokenCache'[id] =
          IF id \in ids THEN [at |-> clock, named |-> named /\ id # Vault] ELSE tokenCache[id]
    BY <1>3, <2>1
  <2>3. \A id \in TokenIds : (named /\ id # Vault) \in BOOLEAN
    BY <1>6
  <2>4. tokenCache' \in [TokenIds -> [at: Int, named: BOOLEAN] \cup {Unknown}]
    BY <1>1, <1>3, <1>5, <2>1, <2>3 DEF CachesType
  <2>5. NameDenials'
    <3> SUFFICES ASSUME NEW id \in TokenIds \ {Vault}, tokenCache'[id] # Unknown, ~ tokenCache'[id].named
                 PROVE  since'["names"] + CallTime > tokenCache'[id].at
      BY DEF NameDenials
    <3>1. since' = since
      OBVIOUS
    <3>2. CASE id \in ids
      <4> DEFINE shown == named /\ id # Vault
      <4>0. tokenCache'[id] = [at |-> clock, named |-> shown]
        BY <2>2, <3>2
      <4> HIDE DEF shown
      <4>1. tokenCache'[id].at = clock /\ ~ shown
        BY <4>0
      <4>6. ~ named
        BY <4>1 DEF shown
      <4>2. \A m, n, o \in Int, k \in Nat : m > n /\ o <= n + k => m + k > o
        OBVIOUS
      <4>3. since["names"] + CallTime > clock
        BY <1>4, <1>5, <1>8, <4>6, <4>2, Spans
      <4> QED BY <3>1, <4>1, <4>3
    <3>3. CASE id \notin ids
      BY <1>1, <2>2, <3>1, <3>3 DEF KeptDenials, NameDenials
    <3> QED BY <3>2, <3>3
  <2> QED BY <2>4, <2>5
<1>18. CachesType'
  <2>1. requests' \in [Readers -> Queries \cup {Unasked}]
    BY <1>1, <1>3, <1>15 DEF CachesType
  <2> QED BY <1>1, <1>17, <2>1 DEF CachesType
<1>19. KeptDenials'
  BY <1>1, <1>17 DEF KeptDenials, FactoryDenial, DirectoryDenial, LacksOnlyLate, VaultDenial
<1> QED BY <1>16, <1>18, <1>19 DEF CachesInv

\* So does a probe of the method.
LEMMA ProbeStep ==
  ASSUME CachesAssumption, CachesInv, NEW r \in Readers, ProbeAnswers(r)
  PROVE  CachesInv'
<1> DEFINE q == requests[r]
<1>1. CachesType /\ KeptDenials /\ q.phase = "probe"
  BY DEF CachesInv, ProbeAnswers
<1>2. q \in Queries /\ ~ q.read /\ QueryRight(q, clock)
  BY <1>1, QueryIs DEF CachesInv
<1>3. UNCHANGED <<clock, weather, since, factoryCache, directory, vaultCache>>
  BY DEF ProbeAnswers
<1>4. q.todo # {} /\ q.todo \subseteq Wanted(q)
  BY <1>1, <1>2, Onward
<1>5. CASE NamesFrom(nodes) = "ok"
  <2>1. PICK named \in Seen(q, "names") : Learn(r, {Foremost(q)}, named)
    BY <1>5 DEF ProbeAnswers
  <2>2. {Foremost(q)} \in SUBSET q.todo
    BY <1>2, <1>4, ForemostIs
  <2>3. backoffUntil' = backoffUntil
    BY <1>5 DEF ProbeAnswers
  <2>4. backoffUntil' \in Int /\ BackoffHasReason'
    BY <1>1, <1>3, <2>3 DEF CachesType, KeptDenials, BackoffHasReason, BackedOff
  <2> QED BY <1>1, <1>3, <2>1, <2>2, <2>4, LearnStep
<1>6. CASE NamesFrom(nodes) # "ok"
  <2> DEFINE span == IF NamesFrom(nodes) = "unsupported" THEN UnsupportedBackoff ELSE TransientBackoff
  <2>1. backoffUntil' = clock + span /\ requests' = [requests EXCEPT ![r] = Done(q)] /\ tokenCache' = tokenCache
    BY <1>6 DEF ProbeAnswers
  <2>2. span \in Nat \ {0} /\ clock \in Nat
    BY <1>1, Spans DEF CachesType
  <2>3. NamesFrom(weather[clock]) \in {"unsupported", "transient"}
    BY <1>6 DEF nodes, NamesFrom
  <2>4. BackedOff(clock, clock + span)
    BY <2>3 DEF BackedOff, nodes
  <2>5. Unsteady(q, clock)
    <3>1. q.start \in Int /\ q.start <= clock
      BY <1>2 DEF Queries, QueryRight
    <3>2. clock + span > q.start
      <4>1. \A a, c \in Int, k \in Nat \ {0} : c <= a => a + k > c
        OBVIOUS
      <4> HIDE DEF span, q
      <4> QED BY <2>2, <3>1, <4>1
    <3> QED BY <2>2, <2>3, <3>2 DEF Unsteady, nodes
  <2> HIDE DEF q
  <2> DEFINE x == Done(q)
  <2>6. x \in Queries /\ Same(x, q) /\ x.phase = "done"
    BY <1>2, DoneIs
  <2>9. requests' = [requests EXCEPT ![r] = x]
    BY <2>1
  <2> HIDE DEF x
  <2>7. QueryRight(x, clock)
    <3>1. /\ q.kind = "context" /\ 0 <= q.start /\ q.start <= clock /\ DirectoryRight(q) /\ VaultRight(q, clock)
      BY <1>1, <1>2, Onward
    <3>2. NamesRight(x, clock)
      BY <2>5, <2>6, SameIsRight DEF NamesRight
    <3>3. DirectoryRight(x) /\ VaultRight(x, clock)
      BY <2>6, <3>1, SameIsRight
    <3> QED BY <2>6, <3>1, <3>2, <3>3 DEF QueryRight, CallRight, Same
  <2>8. QueriesRight'
    BY <1>2, <1>3, <2>6, <2>7, <2>9, RightAfterwards DEF Same, CachesInv
  <2>10. backoffUntil' \in Int /\ BackoffHasReason'
    <3>1. clock \in 0..clock /\ clock + span \in Int
      BY <2>2
    <3>2. clock' = clock /\ weather' = weather /\ backoffUntil' = clock + span
      BY <1>3, <2>1
    <3> QED BY <2>4, <3>1, <3>2 DEF BackoffHasReason, BackedOff
  <2>11. CachesType'
    BY <1>1, <1>3, <2>1, <2>6, <2>9, <2>10 DEF CachesType
  <2>12. KeptDenials'
    BY <1>1, <1>3, <2>1, <2>10 DEF KeptDenials, FactoryDenial, DirectoryDenial, LacksOnlyLate, VaultDenial, NameDenials
  <2> QED BY <2>8, <2>11, <2>12 DEF CachesInv
<1> QED BY <1>5, <1>6

\* So does the answer of the rest.
LEMMA RestStep ==
  ASSUME CachesAssumption, CachesInv, NEW r \in Readers, RestAnswers(r)
  PROVE  CachesInv'
<1> DEFINE q == requests[r]
<1>1. CachesType /\ KeptDenials /\ q.phase = "rest"
  BY DEF CachesInv, RestAnswers
<1>2. q \in Queries /\ QueryRight(q, clock)
  BY <1>1, QueryIs DEF CachesInv
<1>3. UNCHANGED <<clock, weather, since, factoryCache, directory, backoffUntil, vaultCache>>
  BY DEF RestAnswers
<1>4. PICK lost \in SUBSET q.todo, named \in Seen(q, "names") :
        (lost = {} <=> NamesFrom(nodes) = "ok") /\ Learn(r, q.todo \ lost, named)
  BY DEF RestAnswers
<1>5. backoffUntil' \in Int /\ BackoffHasReason'
  BY <1>1, <1>3 DEF CachesType, KeptDenials, BackoffHasReason, BackedOff
<1>6. ASSUME q.todo \ (q.todo \ lost) # {} PROVE Unsteady(q, clock)
  <2>1. NamesFrom(weather[clock]) # "ok"
    BY <1>4, <1>6 DEF nodes
  <2>2. clock \in Nat /\ q.start \in Int /\ q.start <= clock
    BY <1>1, <1>2 DEF CachesType, Queries, QueryRight
  <2> DEFINE span == IF NamesFrom(weather[clock]) = "unsupported" THEN UnsupportedBackoff ELSE TransientBackoff
  <2>3. span \in Nat \ {0}
    BY Spans
  <2>4. clock + span > q.start
    BY <2>2, <2>3
  <2>5. clock \in 0..clock
    BY <2>2
  <2> HIDE DEF q
  <2> QED BY <2>1, <2>4, <2>5 DEF Unsteady
<1>7. q.todo \ lost \in SUBSET q.todo
  OBVIOUS
<1> QED BY <1>1, <1>3, <1>4, <1>5, <1>6, <1>7, LearnStep

\* Time passes: what is kept only gets older.
LEMMA TickStep ==
  ASSUME CachesAssumption, CachesInv, ClockTick
  PROVE  CachesInv'
<1>1. clock' = clock + 1 /\ UNCHANGED <<weather, since, requests>> /\ UNCHANGED kept
  BY DEF ClockTick
<1>2. CachesType /\ KeptDenials /\ clock \in Nat
  BY DEF CachesInv, CachesType
<1>3. CachesType'
  BY <1>1, <1>2 DEF CachesType, kept
<1>4. KeptDenials'
  <2>1. BackoffHasReason'
    <3>1. 0..clock \subseteq 0..(clock + 1)
      BY <1>2
    <3> QED BY <1>1, <1>2, <3>1 DEF kept, KeptDenials, BackoffHasReason, BackedOff
  <2> QED BY <1>1, <1>2, <2>1 DEF kept, KeptDenials, FactoryDenial, DirectoryDenial, LacksOnlyLate, VaultDenial,
                                  NameDenials
<1>5. ASSUME NEW r \in Readers, requests[r] # Unasked
      PROVE  QueryRight(requests[r], clock + 1)
  <2> DEFINE q == requests[r]
  <2>1. q \in Queries /\ QueryRight(q, clock)
    BY <1>5 DEF CachesInv, CachesType, QueriesRight
  <2>2. /\ q.phase \in {"vault", "probe", "rest"} => clock < q.called + CallTime
        /\ q.phase \in {"factory", "pools", "list", "page"} => clock < q.called + ClientTime
    BY DEF ClockTick
  <2> HIDE DEF q
  <2>3. CallRight(q, clock + 1)
    <3> SUFFICES ASSUME q.phase \notin {"idle", "done", "failed"} PROVE CallRight(q, clock + 1)
      BY DEF CallRight
    <3>1. clock < q.called + Patience(q.phase)
      BY <2>1, <2>2 DEF Patience, Queries, Phases
    <3>2. Patience(q.phase) \in Nat /\ q.called \in Int
      BY <2>1, Spans DEF Patience, Queries
    <3>3. q.called <= clock + 1 /\ clock + 1 <= q.called + Patience(q.phase)
      BY <1>2, <2>1, <3>1, <3>2 DEF QueryRight, CallRight
    <3> QED BY <2>1, <3>3 DEF QueryRight, CallRight
  <2>4. 0..clock \subseteq 0..(clock + 1) /\ q.start..clock \subseteq q.start..(clock + 1)
    <3>1. clock \in Int /\ q.start \in Int
      BY <1>2, <2>1 DEF Queries
    <3> QED BY SMTT(60), <3>1
  <2>5. VaultRight(q, clock) => VaultRight(q, clock + 1)
    BY <2>4 DEF VaultRight, StorageFailed
  <2>6. NamesRight(q, clock) => NamesRight(q, clock + 1)
    BY <2>4 DEF NamesRight, Unsteady
  <2>7. 0 <= q.start /\ q.start <= clock + 1
    <3>1. q.start \in Int
      BY <2>1 DEF Queries
    <3>2. 0 <= q.start /\ q.start <= clock
      BY <2>1 DEF QueryRight
    <3> QED BY <1>2, <3>1, <3>2
  <2> QED BY <2>1, <2>3, <2>5, <2>6, <2>7 DEF QueryRight, q
<1>6. QueriesRight'
  <2>1. \A r \in Readers : requests[r] # Unasked => ~ requests[r].read /\ QueryRight(requests[r], clock + 1)
    BY <1>5 DEF CachesInv, QueriesRight
  <2> QED BY <1>1, <2>1 DEF QueriesRight, QueryRight, CallRight, DirectoryRight, VaultRight, NamesRight, Recent,
              Unsteady, StorageFailed
<1> QED BY <1>3, <1>4, <1>6 DEF CachesInv

\* Nothing was kept at first.
LEMMA CachesStart == ASSUME CachesAssumption, CachesInit PROVE CachesInv
<1>1. since \in [Things -> Int] /\ clock = 0
  BY DEF CachesInit, CachesAssumption, Things
<1>2. CachesType
  BY <1>1 DEF CachesInit, CachesType, TokenIds, Never
<1>3. KeptDenials
  BY <1>2 DEF CachesInit, KeptDenials, FactoryDenial, VaultDenial, NameDenials, DirectoryDenial, BackoffHasReason,
              TokenIds
<1>4. QueriesRight
  BY DEF CachesInit, QueriesRight
<1> QED BY <1>2, <1>3, <1>4 DEF CachesInv

\* Every step keeps the caches.
LEMMA CachesSteps == ASSUME CachesAssumption, CachesInv, [CachesNext]_cachesVars PROVE CachesInv'
<1>1. CASE UNCHANGED cachesVars
  <2>1. UNCHANGED <<clock, weather, since, kept, requests>>
    BY <1>1 DEF cachesVars
  <2>2. CachesType'
    BY <2>1 DEF CachesInv, CachesType, kept
  <2>3. KeptDenials'
    BY <2>1 DEF CachesInv, kept, KeptDenials, FactoryDenial, DirectoryDenial, LacksOnlyLate, VaultDenial, NameDenials,
                BackoffHasReason, BackedOff
  <2>4. QueriesRight'
    BY <2>1 DEF CachesInv, QueriesRight, QueryRight, CallRight, DirectoryRight, VaultRight, NamesRight, Recent,
                Unsteady, StorageFailed
  <2> QED BY <2>2, <2>3, <2>4 DEF CachesInv
<1>2. CASE CachesNext
  BY <1>2, AskStep, FactoryStep, PoolsStep, TokensStep, FailsStep, PageStep, VaultStep, ProbeStep, RestStep,
     TickStep DEF CachesNext
<1> QED BY <1>1, <1>2

\* What the invariant says of a request that has ended.
LEMMA CatchesUp == ASSUME CachesAssumption, CachesInv PROVE KeptAnswersCatchUp
<1>1. ASSUME NEW r \in Readers, requests[r].phase = "done"
      PROVE  LET q == requests[r]
                 told == q.kind = "context" /\ \A t \in q.start..clock : StorageFrom(weather[t]) = "ok"
             IN  /\ told /\ q.contract = Vault /\ Since("vault", VaultReread + CallTime, q) => q.vault
                 /\ told /\ Steady(q) /\ Since("names", TokenTtl + CallTime, q)
                      => Wanted(q) \ {Vault} \subseteq q.names
  <2> DEFINE q == requests[r]
  <2>1. q \in Queries /\ QueryRight(q, clock) /\ q.phase = "done"
    BY <1>1, QueryIs
  <2> HIDE DEF q
  <2>2. since \in [Things -> Int] /\ q.start \in Int
    BY <2>1 DEF CachesInv, CachesType, Queries
  <2>3. \A thing \in Things, age \in Nat : Since(thing, age, q) => ~ Recent(thing, age, q)
    BY <2>2 DEF Since, Recent
  <2>4. VaultReread + CallTime \in Nat /\ TokenTtl + CallTime \in Nat /\ "vault" \in Things /\ "names" \in Things
    BY SMTT(30), Spans DEF Things
  <2>5. Steady(q) => ~ Unsteady(q, clock)
    <3> SUFFICES ASSUME Steady(q), NEW u \in 0..clock, NamesFrom(weather[u]) # "ok",
                        u + (IF NamesFrom(weather[u]) = "unsupported" THEN UnsupportedBackoff
                             ELSE TransientBackoff) > q.start
                 PROVE  FALSE
      BY DEF Unsteady
    <3>1. u \in Int /\ UnsupportedBackoff \in Nat /\ TransientBackoff \in Nat
      BY Spans
    <3>2. NamesFrom(weather[u]) \in {"unsupported", "transient"}
      BY DEF NamesFrom
    <3> QED BY <2>2, <3>1, <3>2 DEF Steady
  <2>6. ASSUME q.kind = "context", \A t \in q.start..clock : StorageFrom(weather[t]) = "ok"
        PROVE  VaultRight(q, clock) /\ NamesRight(q, clock) /\ ~ StorageFailed(q, clock)
    BY <2>1, <2>6 DEF QueryRight, StorageFailed
  <2>7. ASSUME q.kind = "context", \A t \in q.start..clock : StorageFrom(weather[t]) = "ok",
               q.contract = Vault, Since("vault", VaultReread + CallTime, q)
        PROVE  q.vault
    BY <2>3, <2>4, <2>6, <2>7 DEF VaultRight
  <2>8. ASSUME q.kind = "context", \A t \in q.start..clock : StorageFrom(weather[t]) = "ok",
               Steady(q), Since("names", TokenTtl + CallTime, q)
        PROVE  Wanted(q) \ {Vault} \subseteq q.names
    BY <2>1, <2>3, <2>4, <2>5, <2>6, <2>8 DEF NamesRight
  <2> QED BY <2>7, <2>8 DEF q
<1>2. ASSUME NEW r \in Readers, requests[r].phase = "done"
      PROVE  LET q == requests[r]
                 wants == q.contract = Vault \/ q.ids # <<>>
                 age == IF wants THEN DirectoryRefresh ELSE DirectoryTtl
             IN  /\ (/\ q.kind = "context" /\ ~q.stale
                     /\ Since("dex", age, q) /\ Since("factory", age + FactoryTtl + ClientTime, q)) => q.dir.dex
                 /\ q.kind = "page" /\ Since("factory", FactoryTtl, q) => q.supported
  <2> DEFINE q == requests[r]
             age == IF q.contract = Vault \/ q.ids # <<>> THEN DirectoryRefresh ELSE DirectoryTtl
  <2>1. q \in Queries /\ QueryRight(q, clock) /\ q.phase = "done"
    BY <1>2, QueryIs
  <2> HIDE DEF q
  <2>2. since \in [Things -> Int] /\ q.start \in Int
    BY <2>1 DEF CachesInv, CachesType, Queries
  <2>3. \A thing \in Things, span \in Nat : Since(thing, span, q) => ~ Recent(thing, span, q)
    BY <2>2 DEF Since, Recent
  <2>4. age \in Nat /\ age + FactoryTtl + ClientTime \in Nat /\ FactoryTtl \in Nat /\ {"dex", "factory"} \subseteq Things
    <3>1. DirectoryRefresh \in Nat /\ DirectoryTtl \in Nat /\ FactoryTtl \in Nat /\ ClientTime \in Nat
      BY Spans
    <3>2. age \in Nat
      BY <3>1
    <3> QED BY <3>1, <3>2 DEF Things
  <2>5. DirectoryAge(q) = age
    BY DEF DirectoryAge, Wants
  <2> HIDE DEF age
  <2>6. ASSUME q.kind = "context", ~ q.stale, Since("dex", age, q),
               Since("factory", age + FactoryTtl + ClientTime, q)
        PROVE  q.dir.dex
    <3>1. DirectoryRight(q)
      BY <2>1, <2>6 DEF QueryRight
    <3> QED BY <2>3, <2>4, <2>5, <2>6, <3>1 DEF DirectoryRight
  <2>7. ASSUME q.kind = "page", Since("factory", FactoryTtl, q) PROVE q.supported
    BY <2>1, <2>3, <2>4, <2>7 DEF QueryRight
  <2> QED BY <2>6, <2>7 DEF q, age
<1> QED BY <1>1, <1>2 DEF KeptAnswersCatchUp, ContextCatchesUp, DirectoryCatchesUp

\* What is on the chain for longer than the caches may keep an answer, a transaction's context and a
\* page of the directory know, unless the nodes failed them (app/api/tx/context/route.ts,
\* lib/tx-context-rpc.ts, app/api/dex/tokens-page/route.ts).
THEOREM CatchUp == CachesAssumption => (CachesSpec => []KeptAnswersCatchUp)
<1> SUFFICES ASSUME CachesAssumption PROVE CachesSpec => []KeptAnswersCatchUp
  OBVIOUS
<1>1. CachesInit => CachesInv
  BY CachesStart
<1>2. CachesInv /\ [CachesNext]_cachesVars => CachesInv'
  BY CachesSteps
<1>3. CachesInv => KeptAnswersCatchUp
  BY CatchesUp
<1> QED BY <1>1, <1>2, <1>3, PTL DEF CachesSpec

-----------------------------------------------------------------------------
(* The token index on disk                                                  *)

\* All that a request can be.
Looking == [state: {"looking"}, since: Nat]
Scans == [state: {"scanning"}, since: Nat, scannedAt: 0..MaxTime]
Saving == [state: {"opening", "unlinking", "answered"}, since: Nat, snap: Snapshots]
Writing == [state: {"writing", "renaming", "unlinking", "answered"}, since: Nat,
            snap: Snapshots, file: 1..Files]
Refused == [state: {"answered"}, since: Nat]
Hits == [state: {"answered"}, since: Nat, hit: Snapshots, readAt: Nat]
Request == {NoRequest} \cup Looking \cup Scans \cup Saving \cup Writing \cup Refused \cup Hits

Contents == Snapshots \cup {Empty} \cup {Torn(n) : n \in Lengths}

Typed ==
  /\ TypeOK
  /\ req \in [Requests -> Request]

\* No request takes longer than MaxDuration, its scan is part of it, and so it is with every
\* scan that was ever saved: here is where the platform's limit counts.
InTime(s, t) == s.savedAt <= t /\ s.savedAt - s.scannedAt <= MaxDuration
Timely(q, t) ==
  /\ q # NoRequest => q.since <= t /\ t - q.since <= MaxDuration
  /\ q.state = "scanning" => q.since <= q.scannedAt /\ q.scannedAt <= t
  /\ "snap" \in DOMAIN q => InTime(q.snap, t)
Punctual ==
  /\ \A r \in Requests : Timely(req[r], now)
  /\ \A f \in 1..Files : Whole(content[f]) => InTime(content[f], now)

Filing(r) == req[r].state \in {"writing", "renaming"}
Writers == {r \in Requests : req[r].state = "writing"}

\* As long as no two requests of a process have written at once: a process has one writer, ...
OneWriter ==
  ~ overlapped => \A q, r \in Requests : Filing(q) /\ Filing(r) /\ Host[q] = Host[r] => q = r

\* ... the file it has open is empty, is its own and no other process's, and is not the snapshot; ...
OwnFile ==
  ~ overlapped => \A r \in Writers :
    LET f == req[r].file
    IN  /\ f <= created /\ f # final /\ content[f] = Empty
        /\ tmp[Host[r]] \in {0, f}
        /\ \A p \in Processes : f # 0 /\ tmp[p] = f => p = Host[r]
        /\ \A q \in Writers : req[q].file = f => q = r

\* ... and what it moves to the name of the snapshot is whole.
MovesWhole ==
  ~ overlapped => \A r \in Requests :
    req[r].state = "renaming" /\ tmp[Host[r]] # 0 => Whole(content[tmp[Host[r]]])


-----------------------------------------------------------------------------
\* What a request is can be told from its state.
LEMMA KindOfRequest ==
  ASSUME NEW q \in Request
  PROVE  /\ q.state \in States
         /\ q.state = "idle" <=> q = NoRequest
         /\ q.state = "looking" => q \in Looking
         /\ q.state = "scanning" => q \in Scans
         /\ q.state = "opening" => q \in Saving
         /\ q.state \in {"writing", "renaming"} => q \in Writing
         /\ q.state = "unlinking" => q \in Saving \/ q \in Writing
         /\ q # NoRequest => q.since \in Nat
BY DEF Request, NoRequest, Looking, Scans, Saving, Writing, Refused, Hits, States

\* A text that is saved differs from what a torn or an empty file holds.
LEMMA TornIsNot ==
  ASSUME NEW c \in Contents
  PROVE  /\ Whole(c) <=> c \in Snapshots
         /\ \A n \in Lengths : ~ Whole(Torn(n))
         /\ ~ Whole(Empty)
         /\ c.length \in 0..2
<1>1. \A s \in Snapshots : DOMAIN s = {"scannedAt", "savedAt", "length"} /\ s.length \in 0..2
  BY DEF Snapshots, Lengths
<1>2. \A n \in Lengths : DOMAIN Torn(n) = {"length", "torn"} /\ Torn(n).length \in 0..2
  BY DEF Torn, Lengths
<1>3. DOMAIN Empty = {"length"} /\ Empty.length = 0
  BY DEF Empty
<1>4. "savedAt" \notin {"length", "torn"} /\ "savedAt" \notin {"length"}
  OBVIOUS
<1>5. \A n \in Lengths : Torn(n) \notin Snapshots
  BY <1>1, <1>2, <1>4
<1>6. Empty \notin Snapshots
  BY <1>1, <1>3, <1>4
<1> QED BY <1>1, <1>2, <1>3, <1>5, <1>6 DEF Whole, Contents

\* The file of a writer, and what a request has under way, keep their types.
LEMMA TypedStep ==
  ASSUME TokenIndexAssumption, Typed, Next
  PROVE  Typed'
<1>0. /\ req \in [Requests -> Request] /\ content \in [1..Files -> Contents]
      /\ tmp \in [Processes -> 0..created] /\ final \in 0..created
      /\ created \in 0..Files /\ now \in 0..MaxTime /\ arrivals \in 0..MaxArrivals
      /\ overlapped \in BOOLEAN
      /\ \A p \in Processes, q \in Processes :
           tmp[p] # 0 => tmp[p] # final /\ (tmp[p] = tmp[q] => p = q)
      /\ Host \in [Requests -> Processes]
      /\ Files \in Nat /\ MaxTime \in Nat /\ MaxArrivals \in Nat
      /\ NoRequest \in Request
  BY DEF Typed, TypeOK, TokenIndexAssumption, Contents, Request
<1>a. ASSUME   /\ req' \in [Requests -> Request] /\ content' \in [1..Files -> Contents]
               /\ tmp' \in [Processes -> 0..created'] /\ final' \in 0..created'
               /\ created' \in 0..Files /\ now' \in 0..MaxTime /\ arrivals' \in 0..MaxArrivals
               /\ overlapped' \in BOOLEAN
               /\ \A p \in Processes, q \in Processes :
                    tmp'[p] # 0 => tmp'[p] # final' /\ (tmp'[p] = tmp'[q] => p = q)
      PROVE    Typed'
  <2>1. ASSUME req' \in [Requests -> Request]
        PROVE  \A r \in Requests : req'[r].state \in States
    BY <2>1, KindOfRequest
  <2> QED BY <1>a, <2>1 DEF Typed, TypeOK, Contents
<1>b. \A r \in Requests : req[r] \in Request
  BY <1>0
<1>1. ASSUME NEW r \in Requests, NEW refresh \in BOOLEAN, Arrive(r, refresh)
      PROVE  Typed'
  <2>1. Scanning(now) \in Request /\ [state |-> "looking", since |-> now] \in Request
    BY <1>0 DEF Request, Scanning, Scans, Looking
  <2>2. arrivals' \in 0..MaxArrivals
    BY <1>0, <1>1 DEF Arrive
  <2> QED BY <1>a, <1>0, <1>1, <2>1, <2>2 DEF Arrive
<1>2. ASSUME NEW r \in Requests, Look(r)
      PROVE  Typed'
  <2>1. req[r] \in Looking
    BY <1>b, <1>2, KindOfRequest DEF Look
  <2>2. Scanning(req[r].since) \in Request
    BY <1>0, <2>1 DEF Request, Scanning, Scans, Looking
  <2>3. final # 0 /\ Whole(content[final]) =>
          [state |-> "answered", since |-> req[r].since, hit |-> content[final], readAt |-> now]
            \in Request
    BY <1>0, <2>1 DEF Request, Hits, Looking, Whole
  <2> QED BY <1>a, <1>0, <1>2, <2>2, <2>3 DEF Look
<1>3. ASSUME NEW r \in Requests, NEW n \in Lengths, Scanned(r, n)
      PROVE  Typed'
  <2>1. req[r] \in Scans
    BY <1>b, <1>3, KindOfRequest DEF Scanned
  <2>2. [state |-> "opening", since |-> req[r].since,
         snap |-> [scannedAt |-> req[r].scannedAt, savedAt |-> now, length |-> n]] \in Request
    BY <1>0, <2>1 DEF Request, Saving, Scans, Snapshots
  <2> QED BY <1>a, <1>0, <1>3, <2>2 DEF Scanned
<1>4. ASSUME NEW r \in Requests, ScanFails(r)
      PROVE  Typed'
  <2>1. req[r] \in Scans
    BY <1>b, <1>4, KindOfRequest DEF ScanFails
  <2>2. [state |-> "answered", since |-> req[r].since] \in Request
    BY <2>1 DEF Request, Refused, Scans
  <2> QED BY <1>a, <1>0, <1>4, <2>2 DEF ScanFails
<1>5. ASSUME NEW r \in Requests, Open(r)
      PROVE  Typed'
  <2> DEFINE f == IF tmp[Host[r]] = 0 THEN created + 1 ELSE tmp[Host[r]]
  <2>1. req[r] \in Saving
    BY <1>b, <1>5, KindOfRequest DEF Open
  <2>2. f \in 1..Files /\ created' \in 0..Files /\ created <= created' /\ f <= created'
    BY <1>0, <1>5 DEF Open, TmpName
  <2>3. [state |-> "writing", since |-> req[r].since, snap |-> req[r].snap, file |-> f] \in Request
    BY <2>1, <2>2 DEF Request, Writing, Saving
  <2>4. req' \in [Requests -> Request]
    BY <1>0, <1>5, <2>3 DEF Open, TmpName
  <2>5. content' = [content EXCEPT ![f] = Empty] /\ tmp' = [tmp EXCEPT ![Host[r]] = f]
        /\ UNCHANGED <<now, arrivals, final>> /\ overlapped' \in BOOLEAN
    BY <1>0, <1>5 DEF Open, TmpName
  <2>6. content' \in [1..Files -> Contents]
    BY <1>0, <2>5 DEF Contents
  <2>7. tmp' \in [Processes -> 0..created'] /\ final' \in 0..created'
    BY <1>0, <2>2, <2>5
  <2>8. \A p \in Processes : p # Host[r] => tmp[p] # f
    BY <1>0
  <2>9. \A p \in Processes, q \in Processes :
          tmp'[p] # 0 => tmp'[p] # final' /\ (tmp'[p] = tmp'[q] => p = q)
    BY <1>0, <2>2, <2>5, <2>8
  <2> QED BY <1>a, <1>0, <2>2, <2>4, <2>5, <2>6, <2>7, <2>9
<1>6. ASSUME NEW r \in Requests, Write(r)
      PROVE  Typed'
  <2>1. req[r] \in Writing
    BY <1>b, <1>6, KindOfRequest DEF Write
  <2>2. [req[r] EXCEPT !.state = "renaming"] \in Writing
    BY <2>1 DEF Writing
  <2>3. req' \in [Requests -> Request]
    <3>1. req' = [req EXCEPT ![r] = [req[r] EXCEPT !.state = "renaming"]]
      BY <1>6 DEF Write, Goto
    <3> QED BY <1>0, <2>2, <3>1 DEF Request
  <2> DEFINE f == req[r].file
  <2>4. f \in 1..Files /\ req[r].snap \in Snapshots
    BY <2>1 DEF Writing
  <2>5. ~ (req[r].snap.length >= content[f].length) => content[f].length \in Lengths
    <3>1. content[f].length \in 0..2 /\ req[r].snap.length \in 1..2
      BY <1>0, <2>4, TornIsNot DEF Snapshots, Lengths
    <3> QED BY <3>1 DEF Lengths
  <2>6. content' \in [1..Files -> Contents]
    BY <1>0, <1>6, <2>4, <2>5 DEF Write, Contents
  <2> QED BY <1>a, <1>0, <1>6, <2>3, <2>6 DEF Write
<1>7. ASSUME NEW r \in Requests, DiskFails(r)
      PROVE  Typed'
  <2>1. req[r] \in Saving \/ req[r] \in Writing
    BY <1>b, <1>7, KindOfRequest DEF DiskFails
  <2>2. [req[r] EXCEPT !.state = "unlinking"] \in Request
    BY <2>1 DEF Writing, Saving, Request
  <2>3. req' = [req EXCEPT ![r] = [req[r] EXCEPT !.state = "unlinking"]]
    BY <1>7 DEF DiskFails, Goto
  <2> QED BY <1>a, <1>0, <1>7, <2>2, <2>3 DEF DiskFails
<1>8. ASSUME NEW r \in Requests, Rename(r)
      PROVE  Typed'
  <2> DEFINE f == tmp[Host[r]]
             s == IF f = 0 THEN "unlinking" ELSE "answered"
  <2>1. req[r] \in Writing
    BY <1>b, <1>8, KindOfRequest DEF Rename
  <2>2. [req[r] EXCEPT !.state = s] \in Request
    BY <2>1 DEF Writing, Request
  <2>3. req' = [req EXCEPT ![r] = [req[r] EXCEPT !.state = s]]
    BY <1>8 DEF Rename, Goto, TmpName
  <2>4. final' = (IF f = 0 THEN final ELSE f) /\ tmp' = [tmp EXCEPT ![Host[r]] = 0]
    BY <1>8 DEF Rename, TmpName
  <2>5. \A p \in Processes, q \in Processes :
          tmp'[p] # 0 => tmp'[p] # final' /\ (tmp'[p] = tmp'[q] => p = q)
    BY <1>0, <2>4
  <2>6. final' \in 0..created /\ tmp' \in [Processes -> 0..created]
    BY <1>0, <2>4
  <2>7. UNCHANGED <<now, arrivals, created, content, overlapped>>
    BY <1>8 DEF Rename
  <2>8. req' \in [Requests -> Request]
    BY <1>0, <2>2, <2>3
  <2> QED BY <1>a, <1>0, <2>5, <2>6, <2>7, <2>8
<1>9. ASSUME NEW r \in Requests, Unlink(r)
      PROVE  Typed'
  <2>1. req[r] \in Saving \/ req[r] \in Writing
    BY <1>b, <1>9, KindOfRequest DEF Unlink
  <2>2. [req[r] EXCEPT !.state = "answered"] \in Request
    BY <2>1 DEF Writing, Saving, Request
  <2>3. req' = [req EXCEPT ![r] = [req[r] EXCEPT !.state = "answered"]]
    BY <1>9 DEF Unlink, Goto
  <2>4. tmp' = [tmp EXCEPT ![Host[r]] = 0]
    BY <1>9 DEF Unlink, TmpName
  <2>5. tmp' \in [Processes -> 0..created]
        /\ \A p \in Processes, q \in Processes :
             tmp'[p] # 0 => tmp'[p] # final /\ (tmp'[p] = tmp'[q] => p = q)
    BY <1>0, <2>4
  <2> QED BY <1>a, <1>0, <1>9, <2>2, <2>3, <2>5 DEF Unlink
<1>10. ASSUME NEW r \in Requests, Respond(r)
       PROVE  Typed'
  BY <1>a, <1>0, <1>10 DEF Respond
<1>11. ASSUME NEW p \in Processes, Crash(p)
       PROVE  Typed'
  BY <1>a, <1>0, <1>11 DEF Crash
<1>12. ASSUME Tick
       PROVE  Typed'
  BY <1>a, <1>0, <1>12 DEF Tick
<1> QED
  BY <1>1, <1>2, <1>3, <1>4, <1>5, <1>6, <1>7, <1>8, <1>9, <1>10, <1>11, <1>12 DEF Next

-----------------------------------------------------------------------------
\* The state of a request moves on: what it saves stays in time.
LEMMA TimelyGoesOn ==
  ASSUME NEW q \in Request, NEW s \in States \ {"idle", "looking", "scanning"}, NEW t \in Nat,
         Timely(q, t), q \in Saving \/ q \in Writing
  PROVE  Timely([q EXCEPT !.state = s], t)
BY DEF Timely, InTime, Saving, Writing, NoRequest, States

\* Nothing else changes what a request saves than the end of its scan, and nothing that was
\* saved in time is late afterwards.
LEMMA PunctualStep ==
  ASSUME TokenIndexAssumption, Typed, Punctual, Next
  PROVE  Punctual'
<1>0. /\ req \in [Requests -> Request] /\ content \in [1..Files -> Contents]
      /\ now \in 0..MaxTime /\ now \in Nat /\ MaxDuration \in Nat /\ MaxTime \in Nat
      /\ \A r \in Requests : req[r] \in Request /\ Timely(req[r], now)
  BY DEF Typed, TypeOK, TokenIndexAssumption, Contents, Punctual
<1>1. \A f \in 1..Files : Whole(content[f]) => InTime(content[f], now)
  BY DEF Punctual
<1>2. ASSUME now' = now, NEW r \in Requests, NEW q, Timely(q, now),
             req' = [req EXCEPT ![r] = q]
      PROVE  \A x \in Requests : Timely(req'[x], now')
  BY <1>0, <1>2
<1>3. ASSUME now' = now, content' = content, NEW r \in Requests, NEW q, Timely(q, now),
             req' = [req EXCEPT ![r] = q]
      PROVE  Punctual'
  <2>1. \A f \in 1..Files : Whole(content'[f]) => InTime(content'[f], now')
    BY <1>1, <1>3
  <2> QED BY <1>2, <1>3, <2>1 DEF Punctual
<1>4. ASSUME NEW r \in Requests, NEW refresh \in BOOLEAN, Arrive(r, refresh)
      PROVE  Punctual'
  <2> DEFINE q == IF refresh THEN Scanning(now) ELSE [state |-> "looking", since |-> now]
  <2>1. Timely(q, now)
    BY <1>0 DEF Timely, Scanning
  <2> QED BY <1>3, <1>4, <2>1 DEF Arrive
<1>5. ASSUME NEW r \in Requests, Look(r)
      PROVE  Punctual'
  <2> DEFINE q == IF final # 0 /\ Whole(content[final]) /\ IsCacheFresh(content[final])
                  THEN [state |-> "answered", since |-> req[r].since, hit |-> content[final],
                        readAt |-> now]
                  ELSE Scanning(req[r].since)
  <2>1. req[r] \in Looking
    BY <1>0, <1>5, KindOfRequest DEF Look
  <2>2. Timely(q, now)
    BY <1>0, <2>1 DEF Timely, Scanning, Looking, NoRequest
  <2> QED BY <1>3, <1>5, <2>2 DEF Look
<1>6. ASSUME NEW r \in Requests, NEW n \in Lengths, Scanned(r, n)
      PROVE  Punctual'
  <2> DEFINE q == [state |-> "opening", since |-> req[r].since,
                   snap |-> [scannedAt |-> req[r].scannedAt, savedAt |-> now, length |-> n]]
  <2>1. req[r] \in Scans
    BY <1>0, <1>6, KindOfRequest DEF Scanned
  <2>2. Timely(q, now)
    BY <1>0, <2>1 DEF Timely, Scans, InTime, NoRequest
  <2> QED BY <1>3, <1>6, <2>2 DEF Scanned
<1>7. ASSUME NEW r \in Requests, ScanFails(r)
      PROVE  Punctual'
  <2> DEFINE q == [state |-> "answered", since |-> req[r].since]
  <2>1. req[r] \in Scans
    BY <1>0, <1>7, KindOfRequest DEF ScanFails
  <2>2. Timely(q, now)
    BY <1>0, <2>1 DEF Timely, Scans, NoRequest
  <2> QED BY <1>3, <1>7, <2>2 DEF ScanFails
<1>8. ASSUME NEW r \in Requests, Open(r)
      PROVE  Punctual'
  <2> DEFINE f == IF tmp[Host[r]] = 0 THEN created + 1 ELSE tmp[Host[r]]
             q == [state |-> "writing", since |-> req[r].since, snap |-> req[r].snap, file |-> f]
  <2>1. req[r] \in Saving
    BY <1>0, <1>8, KindOfRequest DEF Open
  <2>2. Timely(q, now)
    BY <1>0, <2>1 DEF Timely, Saving, NoRequest
  <2>3. req' = [req EXCEPT ![r] = q] /\ now' = now /\ content' = [content EXCEPT ![f] = Empty]
    BY <1>8 DEF Open, TmpName
  <2>4. \A x \in 1..Files : Whole(content'[x]) => InTime(content'[x], now')
    <3>1. ~ Whole(Empty)
      BY TornIsNot DEF Contents
    <3> QED BY <1>0, <1>1, <2>3, <3>1
  <2> QED BY <1>2, <2>2, <2>3, <2>4 DEF Punctual
<1>9. ASSUME NEW r \in Requests, Write(r)
      PROVE  Punctual'
  <2> DEFINE q == [req[r] EXCEPT !.state = "renaming"]
             f == req[r].file
             s == req[r].snap
  <2>1. req[r] \in Writing
    BY <1>0, <1>9, KindOfRequest DEF Write
  <2>2. Timely(q, now)
    BY <1>0, <2>1, TimelyGoesOn DEF States
  <2>3. req' = [req EXCEPT ![r] = q] /\ now' = now
        /\ content' = [content EXCEPT ![f] = IF s.length >= content[f].length THEN s
                                             ELSE Torn(content[f].length)]
    BY <1>9 DEF Write, Goto
  <2>4. InTime(s, now) /\ s \in Snapshots /\ f \in 1..Files
    BY <1>0, <2>1 DEF Timely, Writing
  <2>5. ~ (s.length >= content[f].length) => ~ Whole(Torn(content[f].length))
    <3>1. content[f].length \in 0..2 /\ s.length \in 1..2 /\ \A n \in Lengths : ~ Whole(Torn(n))
      BY <1>0, <2>4, TornIsNot DEF Snapshots, Lengths
    <3> QED BY <3>1 DEF Lengths
  <2>6. \A x \in 1..Files : Whole(content'[x]) => InTime(content'[x], now')
    BY <1>0, <1>1, <2>3, <2>4, <2>5
  <2> QED BY <1>2, <2>2, <2>3, <2>6 DEF Punctual
<1>10. ASSUME NEW r \in Requests, DiskFails(r)
       PROVE  Punctual'
  <2>1. req[r] \in Saving \/ req[r] \in Writing
    BY <1>0, <1>10, KindOfRequest DEF DiskFails
  <2>2. Timely([req[r] EXCEPT !.state = "unlinking"], now)
    BY <1>0, <2>1, TimelyGoesOn DEF States
  <2> QED BY <1>3, <1>10, <2>2 DEF DiskFails, Goto
<1>11. ASSUME NEW r \in Requests, Rename(r)
       PROVE  Punctual'
  <2> DEFINE s == IF tmp[Host[r]] = 0 THEN "unlinking" ELSE "answered"
  <2>1. req[r] \in Saving \/ req[r] \in Writing
    BY <1>0, <1>11, KindOfRequest DEF Rename
  <2>2. Timely([req[r] EXCEPT !.state = s], now)
    BY <1>0, <2>1, TimelyGoesOn DEF States
  <2>3. req' = [req EXCEPT ![r] = [req[r] EXCEPT !.state = s]]
    BY <1>11 DEF Rename, Goto, TmpName
  <2> QED BY <1>3, <1>11, <2>2, <2>3 DEF Rename
<1>12. ASSUME NEW r \in Requests, Unlink(r)
       PROVE  Punctual'
  <2>1. req[r] \in Saving \/ req[r] \in Writing
    BY <1>0, <1>12, KindOfRequest DEF Unlink
  <2>2. Timely([req[r] EXCEPT !.state = "answered"], now)
    BY <1>0, <2>1, TimelyGoesOn DEF States
  <2> QED BY <1>3, <1>12, <2>2 DEF Unlink, Goto
<1>a. Timely(NoRequest, now)
  BY DEF Timely, NoRequest
<1>13. ASSUME NEW r \in Requests, Respond(r)
       PROVE  Punctual'
  BY <1>3, <1>13, <1>a DEF Respond
<1>14. ASSUME NEW p \in Processes, Crash(p)
       PROVE  Punctual'
  <2>1. \A r \in Requests : Timely(req'[r], now')
    BY <1>0, <1>14, <1>a DEF Crash
  <2> QED BY <1>1, <1>14, <2>1 DEF Punctual, Crash
<1>15. ASSUME Tick
       PROVE  Punctual'
  <2>1. now' = now + 1 /\ UNCHANGED <<content, req>>
        /\ \A r \in Requests : req[r] # NoRequest => now - req[r].since < MaxDuration
    BY <1>15 DEF Tick
  <2>2. ASSUME NEW r \in Requests PROVE Timely(req'[r], now')
    <3>1. req[r] # NoRequest => req[r].since \in Nat
      BY <1>0, KindOfRequest
    <3>2. req[r].state = "scanning" => req[r].scannedAt \in Nat
      BY <1>0, KindOfRequest DEF Scans
    <3>3. "snap" \in DOMAIN req[r] => req[r].snap \in Snapshots
      BY <1>0 DEF Request, Looking, Scans, Saving, Writing, Refused, Hits, NoRequest
    <3>4. "snap" \in DOMAIN req[r] => InTime(req[r].snap, now')
      BY <1>0, <2>1, <3>3 DEF Timely, InTime, Snapshots
    <3> QED BY <1>0, <2>1, <3>1, <3>2, <3>4 DEF Timely
  <2>3. \A f \in 1..Files : Whole(content'[f]) => InTime(content'[f], now')
    BY <1>0, <1>1, <2>1 DEF Whole, InTime, Snapshots
  <2> QED BY <2>2, <2>3 DEF Punctual
<1> QED
  BY <1>4, <1>5, <1>6, <1>7, <1>8, <1>9, <1>10, <1>11, <1>12, <1>13, <1>14, <1>15 DEF Next

-----------------------------------------------------------------------------
\* An answer from the disk is given by Look alone.
LEMMA HitsStep ==
  ASSUME TokenIndexAssumption, Typed, Punctual, HitsAreSound, Next
  PROVE  HitsAreSound'
<1>0. /\ req \in [Requests -> Request] /\ content \in [1..Files -> Contents]
      /\ final \in 0..created /\ created \in 0..Files
      /\ now \in Nat /\ MaxDuration \in Nat /\ MaxTime \in Nat /\ Ttl \in Nat /\ Files \in Nat
      /\ \A r \in Requests : req[r] \in Request
  BY DEF Typed, TypeOK, TokenIndexAssumption, Contents
<1> DEFINE sound(q) == (q.state = "answered" /\ "hit" \in DOMAIN q) =>
                         Whole(q.hit) /\ q.readAt - q.hit.scannedAt < Ttl + MaxDuration
<1>1. \A r \in Requests : sound(req[r])
  BY DEF HitsAreSound
<1>2. ASSUME \A r \in Requests : sound(req'[r])
      PROVE  HitsAreSound'
  BY <1>2 DEF HitsAreSound, Whole
<1>3. ASSUME NEW r \in Requests, NEW q, req' = [req EXCEPT ![r] = q], sound(q)
      PROVE  HitsAreSound'
  BY <1>0, <1>1, <1>2, <1>3
<1>4. ASSUME NEW r \in Requests, NEW refresh \in BOOLEAN, Arrive(r, refresh)
      PROVE  HitsAreSound'
  BY <1>3, <1>4 DEF Arrive, Scanning
<1>5. ASSUME NEW r \in Requests, Look(r)
      PROVE  HitsAreSound'
  <2> DEFINE q == IF final # 0 /\ Whole(content[final]) /\ IsCacheFresh(content[final])
                  THEN [state |-> "answered", since |-> req[r].since, hit |-> content[final],
                        readAt |-> now]
                  ELSE Scanning(req[r].since)
  <2>1. ASSUME final # 0, Whole(content[final]), IsCacheFresh(content[final])
        PROVE  now - content[final].scannedAt < Ttl + MaxDuration
    <3>1. final \in 1..Files
      BY <1>0, <2>1
    <3>2. content[final] \in Snapshots /\ InTime(content[final], now)
      BY <2>1, <3>1 DEF Whole, Punctual
    <3> QED BY <1>0, <2>1, <3>2 DEF Snapshots, InTime, IsCacheFresh
  <2>2. sound(q)
    BY <2>1 DEF Scanning
  <2> QED BY <1>3, <1>5, <2>2 DEF Look
<1>6. ASSUME NEW r \in Requests, NEW n \in Lengths, Scanned(r, n)
      PROVE  HitsAreSound'
  BY <1>3, <1>6 DEF Scanned
<1>7. ASSUME NEW r \in Requests, ScanFails(r)
      PROVE  HitsAreSound'
  BY <1>3, <1>7 DEF ScanFails
<1>8. ASSUME NEW r \in Requests, Open(r)
      PROVE  HitsAreSound'
  <2> DEFINE f == IF tmp[Host[r]] = 0 THEN created + 1 ELSE tmp[Host[r]]
             q == [state |-> "writing", since |-> req[r].since, snap |-> req[r].snap, file |-> f]
  <2>1. req' = [req EXCEPT ![r] = q]
    BY <1>8 DEF Open, TmpName
  <2>2. q.state = "writing"
    OBVIOUS
  <2>3. sound(q)
    BY <2>2
  <2> QED BY <1>3, <2>1, <2>3
<1>9. ASSUME NEW r \in Requests, Write(r) \/ DiskFails(r) \/ Rename(r) \/ Unlink(r)
      PROVE  HitsAreSound'
  <2>1. req[r] \in Saving \/ req[r] \in Writing
    BY <1>0, <1>9, KindOfRequest DEF Write, DiskFails, Rename, Unlink
  <2>2. PICK s : req' = [req EXCEPT ![r] = [req[r] EXCEPT !.state = s]]
    BY <1>9 DEF Write, DiskFails, Rename, Unlink, Goto
  <2>3. "hit" \notin DOMAIN [req[r] EXCEPT !.state = s]
    BY <2>1 DEF Saving, Writing
  <2> QED BY <1>3, <2>2, <2>3
<1>10. ASSUME NEW r \in Requests, Respond(r)
       PROVE  HitsAreSound'
  BY <1>3, <1>10 DEF Respond, NoRequest
<1>11. ASSUME NEW p \in Processes, Crash(p)
       PROVE  HitsAreSound'
  BY <1>1, <1>2, <1>11 DEF Crash, NoRequest
<1>12. ASSUME Tick
       PROVE  HitsAreSound'
  BY <1>1, <1>2, <1>12 DEF Tick
<1> QED
  BY <1>4, <1>5, <1>6, <1>7, <1>8, <1>9, <1>10, <1>11, <1>12 DEF Next

-----------------------------------------------------------------------------
\* The names of files and who writes them.
Safe == OneWriter /\ OwnFile /\ MovesWhole /\ DamageNeedsOverlap

\* A step that writes nothing, moves nothing and makes nobody a writer.
LEMMA SafeAsItWas ==
  ASSUME Safe, UNCHANGED <<created, content, final, overlapped>>,
         \A p \in Processes : tmp'[p] \in {0, tmp[p]}, Host \in [Requests -> Processes],
         \A r \in Requests : Filing(r)' => req'[r] = req[r]
  PROVE  Safe'
<1>1. \A r \in Requests : /\ Filing(r)' => Filing(r) /\ req'[r] = req[r]
                          /\ r \in Writers' => r \in Writers /\ req'[r] = req[r]
                          /\ Host[r] \in Processes
  BY DEF Filing, Writers
<1>2. OneWriter'
  BY <1>1 DEF Safe, OneWriter
<1>3. OwnFile'
  <2> SUFFICES ASSUME ~ overlapped', NEW r \in Requests, r \in Writers'
               PROVE  LET f == req'[r].file
                      IN  /\ f <= created' /\ f # final' /\ content'[f] = Empty
                          /\ tmp'[Host[r]] \in {0, f}
                          /\ \A p \in Processes : f # 0 /\ tmp'[p] = f => p = Host[r]
                          /\ \A q \in Writers' : req'[q].file = f => q = r
    BY DEF OwnFile, Writers
  <2> QED BY <1>1 DEF Safe, OwnFile, Writers
<1>4. MovesWhole'
  BY <1>1 DEF Safe, MovesWhole, Whole, Filing
<1>5. DamageNeedsOverlap'
  BY DEF Safe, DamageNeedsOverlap, Whole
<1> QED BY <1>2, <1>3, <1>4, <1>5 DEF Safe

\* Every step keeps the snapshot whole unless two writers of one process overlap.
LEMMA SafeStep ==
  ASSUME TokenIndexAssumption, Typed, Safe, Next
  PROVE  Safe'
<1>0. /\ req \in [Requests -> Request] /\ content \in [1..Files -> Contents]
      /\ tmp \in [Processes -> 0..created] /\ created \in 0..Files /\ final \in 0..created
      /\ Files \in Nat /\ Host \in [Requests -> Processes] /\ overlapped \in BOOLEAN
      /\ \A r \in Requests : req[r] \in Request
      /\ \A p \in Processes, q \in Processes :
           tmp[p] # 0 => tmp[p] # final /\ (tmp[p] = tmp[q] => p = q)
  BY DEF Typed, TypeOK, TokenIndexAssumption, Contents
<1>w. \A r \in Requests : req[r].state \in {"writing", "renaming"} =>
        /\ req[r] \in Writing /\ req[r].file \in 1..Files /\ req[r].snap \in Snapshots
  BY <1>0, KindOfRequest DEF Writing
<1>1. ASSUME NEW r \in Requests, NEW q, q.state \notin {"writing", "renaming"},
             req' = [req EXCEPT ![r] = q], UNCHANGED <<created, content, final, overlapped>>,
             \A p \in Processes : tmp'[p] \in {0, tmp[p]}
      PROVE  Safe'
  <2>1. \A x \in Requests : Filing(x)' => req'[x] = req[x]
    BY <1>0, <1>1 DEF Filing
  <2> QED BY <1>0, <1>1, <2>1, SafeAsItWas
<1>2. ASSUME NEW r \in Requests, NEW refresh \in BOOLEAN, Arrive(r, refresh)
      PROVE  Safe'
  BY <1>1, <1>2 DEF Arrive, Scanning
<1>3. ASSUME NEW r \in Requests, Look(r)
      PROVE  Safe'
  BY <1>1, <1>3 DEF Look, Scanning
<1>4. ASSUME NEW r \in Requests, NEW n \in Lengths, Scanned(r, n)
      PROVE  Safe'
  BY <1>1, <1>4 DEF Scanned
<1>5. ASSUME NEW r \in Requests, ScanFails(r)
      PROVE  Safe'
  BY <1>1, <1>5 DEF ScanFails
<1>6. ASSUME NEW r \in Requests, Open(r)
      PROVE  Safe'
  <2> DEFINE f == IF tmp[Host[r]] = 0 THEN created + 1 ELSE tmp[Host[r]]
             q == [state |-> "writing", since |-> req[r].since, snap |-> req[r].snap, file |-> f]
  <2>1. /\ req' = [req EXCEPT ![r] = q] /\ content' = [content EXCEPT ![f] = Empty]
        /\ tmp' = [tmp EXCEPT ![Host[r]] = f] /\ final' = final /\ req[r].state = "opening"
        /\ f \in 1..Files /\ created <= created' /\ f <= created' /\ f # final
        /\ \A p \in Processes : tmp[p] = f => p = Host[r]
        /\ created' \in Nat
    BY <1>0, <1>6 DEF Open, TmpName
  <2>2. ~ overlapped' => /\ ~ overlapped
                         /\ \A x \in Requests \ {r} : Host[x] = Host[r] => ~ Filing(x)
    BY <1>6 DEF Open, Filing
  <2>3. /\ req'[r] = q /\ \A x \in Requests \ {r} : req'[x] = req[x]
        /\ Host[r] \in Processes /\ \A x \in Requests : Host[x] \in Processes
    BY <1>0, <2>1
  <2>4. OneWriter'
    BY <2>2, <2>3 DEF Safe, OneWriter, Filing
  <2>5. ASSUME ~ overlapped', NEW x \in Requests \ {r}, x \in Writers
        PROVE  /\ req[x].file # f /\ Host[x] # Host[r] /\ req[x].file <= created
               /\ req[x].file # final /\ content[req[x].file] = Empty
               /\ req[x].file \in 1..Files
    <3>1. Host[x] # Host[r] /\ ~ overlapped
      BY <2>2, <2>5 DEF Filing, Writers
    <3>2. /\ req[x].file <= created /\ req[x].file # final /\ content[req[x].file] = Empty
          /\ req[x].file \in 1..Files
      BY <1>w, <2>5, <3>1 DEF Safe, OwnFile, Writers
    <3>3. \A p \in Processes : tmp[p] = req[x].file => p = Host[x]
      BY <1>w, <2>5, <3>1 DEF Safe, OwnFile, Writers
    <3>4. req[x].file # f
      BY <1>0, <2>3, <3>1, <3>2, <3>3
    <3> QED BY <3>1, <3>2, <3>4
  <2>6. ASSUME ~ overlapped', NEW x \in Writers'
        PROVE  LET g == req'[x].file
               IN  /\ g <= created' /\ g # final' /\ content'[g] = Empty
                   /\ tmp'[Host[x]] \in {0, g}
                   /\ \A p \in Processes : g # 0 /\ tmp'[p] = g => p = Host[x]
                   /\ \A y \in Writers' : req'[y].file = g => y = x
    <3>1. CASE x = r
      <4>1. req'[x].file = f /\ x \in Requests
        BY <2>3, <3>1
      <4>2. \A y \in Writers' : req'[y].file = f => y = x
        BY <2>3, <2>5, <2>6, <3>1 DEF Writers
      <4>3. \A p \in Processes : tmp'[p] = f => p = Host[x]
        BY <1>0, <2>1, <3>1
      <4>4. content'[f] = Empty /\ tmp'[Host[x]] = f
        BY <1>0, <2>1, <2>3, <3>1
      <4> QED BY <2>1, <4>1, <4>2, <4>3, <4>4
    <3>2. CASE x # r
      <4>1. x \in Requests \ {r} /\ x \in Writers /\ req'[x] = req[x]
        BY <2>3, <2>6, <3>2 DEF Writers
      <4>2. /\ req[x].file # f /\ Host[x] # Host[r] /\ req[x].file <= created
            /\ req[x].file # final /\ content[req[x].file] = Empty
            /\ req[x].file \in 1..Files
        BY <2>5, <2>6, <4>1
      <4>3. /\ tmp[Host[x]] \in {0, req[x].file}
            /\ \A p \in Processes : tmp[p] = req[x].file => p = Host[x]
            /\ \A y \in Writers : req[y].file = req[x].file => y = x
        BY <2>2, <2>6, <4>1, <4>2 DEF Safe, OwnFile
      <4>4. \A y \in Writers' : req'[y].file = req[x].file => y = x
        BY <2>3, <4>2, <4>3 DEF Writers
      <4>5. tmp'[Host[x]] = tmp[Host[x]] /\ content'[req[x].file] = Empty
        BY <1>0, <2>1, <2>3, <4>2
      <4>6. \A p \in Processes : tmp'[p] = req[x].file => p = Host[x]
        BY <1>0, <2>1, <4>2, <4>3
      <4>7. req[x].file <= created'
        BY <1>0, <2>1, <4>2
      <4> QED BY <2>1, <4>1, <4>2, <4>3, <4>4, <4>5, <4>6, <4>7
    <3> QED BY <3>1, <3>2
  <2>7. OwnFile'
    BY <2>6 DEF OwnFile
  <2>8. MovesWhole'
    <3> SUFFICES ASSUME ~ overlapped', NEW x \in Requests,
                        req'[x].state = "renaming", tmp'[Host[x]] # 0
                 PROVE  Whole(content'[tmp'[Host[x]]])
      BY DEF MovesWhole, Whole
    <3>1. x # r /\ req'[x] = req[x]
      BY <2>3
    <3>2. Host[x] # Host[r]
      BY <2>2, <3>1 DEF Filing
    <3>3. tmp'[Host[x]] = tmp[Host[x]] /\ tmp[Host[x]] # f /\ tmp[Host[x]] \in 1..Files
      BY <1>0, <2>1, <2>3, <3>2
    <3>4. Whole(content[tmp[Host[x]]])
      BY <2>2, <3>1, <3>3 DEF Safe, MovesWhole
    <3> QED BY <1>0, <2>1, <3>3, <3>4
  <2>9. DamageNeedsOverlap'
    <3>1. final # 0 => content'[final] = content[final]
      BY <1>0, <2>1
    <3> QED BY <2>1, <2>2, <3>1 DEF Safe, DamageNeedsOverlap, Whole
  <2> QED BY <2>4, <2>7, <2>8, <2>9 DEF Safe
<1>7. ASSUME NEW r \in Requests, Write(r)
      PROVE  Safe'
  <2> DEFINE f == req[r].file
             s == req[r].snap
             q == [req[r] EXCEPT !.state = "renaming"]
  <2>1. /\ req' = [req EXCEPT ![r] = q] /\ req[r].state = "writing"
        /\ content' = [content EXCEPT ![f] = IF s.length >= content[f].length THEN s
                                             ELSE Torn(content[f].length)]
        /\ UNCHANGED <<created, tmp, final, overlapped>>
    BY <1>7 DEF Write, Goto
  <2>2. f \in 1..Files /\ s \in Snapshots /\ s.length \in Nat /\ q.state = "renaming"
    BY <1>w, <2>1 DEF Snapshots, Lengths, Writing
  <2>3. /\ req'[r] = q /\ \A x \in Requests \ {r} : req'[x] = req[x]
        /\ \A x \in Requests : Host[x] \in Processes
    BY <1>0, <2>1
  <2>4. r \in Writers /\ \A x \in Writers' : x # r /\ x \in Writers
    BY <2>1, <2>2, <2>3 DEF Writers
  <2>5. OneWriter'
    BY <2>1, <2>3 DEF Safe, OneWriter, Filing
  <2>6. ~ overlapped => /\ f # final /\ content[f] = Empty
                        /\ tmp[Host[r]] \in {0, f}
                        /\ \A p \in Processes : tmp[p] = f => p = Host[r]
                        /\ \A x \in Writers : req[x].file = f => x = r
    BY <2>2, <2>4 DEF Safe, OwnFile
  <2>7. ~ overlapped => Whole(content'[f])
    <3>1. ~ overlapped => s.length >= content[f].length
      BY <2>2, <2>6 DEF Empty
    <3> QED BY <1>0, <2>1, <2>2, <3>1 DEF Whole
  <2>8. \A g \in 1..Files : g # f => content'[g] = content[g]
    BY <1>0, <2>1
  <2>9. OwnFile'
    <3> SUFFICES ASSUME ~ overlapped', NEW x \in Writers'
                 PROVE  LET g == req'[x].file
                        IN  /\ g <= created' /\ g # final' /\ content'[g] = Empty
                            /\ tmp'[Host[x]] \in {0, g}
                            /\ \A p \in Processes : g # 0 /\ tmp'[p] = g => p = Host[x]
                            /\ \A y \in Writers' : req'[y].file = g => y = x
      BY DEF OwnFile
    <3>1. x \in Writers /\ x # r /\ x \in Requests /\ req'[x] = req[x]
      BY <2>3, <2>4 DEF Writers
    <3>2. req[x].file \in 1..Files /\ req[x].file # f
      BY <1>w, <2>1, <2>6, <3>1 DEF Writers
    <3>3. LET g == req[x].file
          IN  /\ g <= created /\ g # final /\ content[g] = Empty
              /\ tmp[Host[x]] \in {0, g}
              /\ \A p \in Processes : g # 0 /\ tmp[p] = g => p = Host[x]
              /\ \A y \in Writers : req[y].file = g => y = x
      BY <2>1, <3>1 DEF Safe, OwnFile
    <3>4. \A y \in Writers' : req'[y] = req[y] /\ y \in Writers
      BY <2>3, <2>4 DEF Writers
    <3> QED BY <2>1, <2>8, <3>1, <3>2, <3>3, <3>4
  <2>10. MovesWhole'
    <3> SUFFICES ASSUME ~ overlapped', NEW x \in Requests,
                        req'[x].state = "renaming", tmp'[Host[x]] # 0
                 PROVE  Whole(content'[tmp'[Host[x]]])
      BY DEF MovesWhole, Whole
    <3>1. CASE x = r
      BY <2>1, <2>6, <2>7, <3>1
    <3>2. CASE x # r
      <4>1. req'[x] = req[x] /\ Host[x] # Host[r]
        BY <2>1, <2>3, <3>2 DEF Safe, OneWriter, Filing
      <4>2. tmp[Host[x]] # f /\ tmp[Host[x]] \in 1..Files
        BY <1>0, <2>1, <2>3, <2>6, <4>1
      <4>3. Whole(content[tmp[Host[x]]])
        BY <2>1, <4>1 DEF Safe, MovesWhole
      <4> QED BY <2>1, <2>8, <4>2, <4>3
    <3> QED BY <3>1, <3>2
  <2>11. DamageNeedsOverlap'
    <3>1. ~ overlapped /\ final # 0 => content'[final] = content[final]
      BY <1>0, <2>6, <2>8
    <3> QED BY <2>1, <3>1 DEF Safe, DamageNeedsOverlap, Whole
  <2> QED BY <2>5, <2>9, <2>10, <2>11 DEF Safe
<1>8. ASSUME NEW r \in Requests, DiskFails(r)
      PROVE  Safe'
  <2>1. req[r] \in Saving \/ req[r] \in Writing
    BY <1>0, <1>8, KindOfRequest DEF DiskFails
  <2>2. [req[r] EXCEPT !.state = "unlinking"].state = "unlinking"
    BY <2>1 DEF Saving, Writing
  <2> QED BY <1>1, <1>8, <2>2 DEF DiskFails, Goto
<1>9. ASSUME NEW r \in Requests, Rename(r)
      PROVE  Safe'
  <2> DEFINE f == tmp[Host[r]]
             s == IF f = 0 THEN "unlinking" ELSE "answered"
             q == [req[r] EXCEPT !.state = s]
  <2>1. /\ req' = [req EXCEPT ![r] = q] /\ tmp' = [tmp EXCEPT ![Host[r]] = 0]
        /\ final' = (IF f = 0 THEN final ELSE f) /\ req[r].state = "renaming"
        /\ UNCHANGED <<created, content, overlapped>>
    BY <1>9 DEF Rename, Goto, TmpName
  <2>2. q.state = s
    BY <1>w, <2>1 DEF Writing
  <2>3. /\ req'[r] = q /\ \A x \in Requests \ {r} : req'[x] = req[x]
        /\ \A x \in Requests : Host[x] \in Processes
        /\ \A p \in Processes : tmp'[p] = IF p = Host[r] THEN 0 ELSE tmp[p]
    BY <1>0, <2>1
  <2>4. CASE f = 0
    <3>1. q.state \notin {"writing", "renaming"}
      BY <2>2
    <3>2. final' = final /\ \A p \in Processes : tmp'[p] \in {0, tmp[p]}
      BY <2>1, <2>3, <2>4
    <3> HIDE DEF q
    <3> QED BY <1>1, <2>1, <3>1, <3>2
  <2>5. CASE f # 0
    <3>1. \A x \in Requests : Filing(x)' => x # r /\ Filing(x) /\ req'[x] = req[x]
      <4>1. req'[r].state \notin {"writing", "renaming"}
        BY <2>2, <2>3
      <4> QED BY <2>3, <4>1 DEF Filing
    <3>2. OneWriter'
      BY <2>1, <3>1 DEF Safe, OneWriter
    <3>3. OwnFile'
      <4> SUFFICES ASSUME ~ overlapped', NEW x \in Writers'
                   PROVE  LET g == req'[x].file
                          IN  /\ g <= created' /\ g # final' /\ content'[g] = Empty
                              /\ tmp'[Host[x]] \in {0, g}
                              /\ \A p \in Processes : g # 0 /\ tmp'[p] = g => p = Host[x]
                              /\ \A y \in Writers' : req'[y].file = g => y = x
        BY DEF OwnFile
      <4>1. x \in Requests /\ x # r /\ x \in Writers /\ req'[x] = req[x]
        BY <3>1 DEF Writers, Filing
      <4>2. Host[x] # Host[r]
        BY <2>1, <4>1 DEF Safe, OneWriter, Filing, Writers
      <4>3. LET g == req[x].file
            IN  /\ g <= created /\ g # final /\ content[g] = Empty
                /\ tmp[Host[x]] \in {0, g}
                /\ \A p \in Processes : g # 0 /\ tmp[p] = g => p = Host[x]
                /\ \A y \in Writers : req[y].file = g => y = x
        BY <2>1, <4>1 DEF Safe, OwnFile
      <4>4. req[x].file # f
        BY <2>3, <2>5, <4>2, <4>3
      <4>5. \A y \in Writers' : req'[y] = req[y] /\ y \in Writers
        BY <3>1 DEF Writers, Filing
      <4>6. req[x].file # final'
        BY <2>1, <4>3, <4>4
      <4>7. tmp'[Host[x]] = tmp[Host[x]]
        BY <2>3, <4>1, <4>2
      <4>8. \A p \in Processes : tmp'[p] \in {0, tmp[p]}
        BY <2>3
      <4> QED BY <2>1, <4>1, <4>3, <4>5, <4>6, <4>7, <4>8
    <3>4. MovesWhole'
      <4> SUFFICES ASSUME ~ overlapped', NEW x \in Requests,
                          req'[x].state = "renaming", tmp'[Host[x]] # 0
                   PROVE  Whole(content'[tmp'[Host[x]]])
        BY DEF MovesWhole, Whole
      <4>1. req'[x] = req[x] /\ tmp'[Host[x]] = tmp[Host[x]]
        BY <2>3, <3>1 DEF Filing
      <4> QED BY <2>1, <4>1 DEF Safe, MovesWhole
    <3>5. DamageNeedsOverlap'
      BY <2>1, <2>5 DEF Safe, MovesWhole, DamageNeedsOverlap, Whole
    <3> QED BY <3>2, <3>3, <3>4, <3>5 DEF Safe
  <2> QED BY <2>4, <2>5
<1>10. ASSUME NEW r \in Requests, Unlink(r)
       PROVE  Safe'
  <2>1. req[r] \in Saving \/ req[r] \in Writing
    BY <1>0, <1>10, KindOfRequest DEF Unlink
  <2>2. [req[r] EXCEPT !.state = "answered"].state = "answered"
    BY <2>1 DEF Saving, Writing
  <2>3. \A p \in Processes : tmp'[p] \in {0, tmp[p]}
    BY <1>0, <1>10 DEF Unlink
  <2> QED BY <1>1, <1>10, <2>2, <2>3 DEF Unlink, Goto
<1>11. ASSUME NEW r \in Requests, Respond(r)
       PROVE  Safe'
  BY <1>1, <1>11 DEF Respond, NoRequest
<1>12. ASSUME NEW p \in Processes, Crash(p)
       PROVE  Safe'
  <2>1. \A r \in Requests : Filing(r)' => req'[r] = req[r]
    BY <1>12 DEF Crash, Filing, NoRequest
  <2> QED BY <1>0, <1>12, <2>1, SafeAsItWas DEF Crash
<1>13. ASSUME Tick
       PROVE  Safe'
  BY <1>0, <1>13, SafeAsItWas DEF Tick
<1> QED
  BY <1>2, <1>3, <1>4, <1>5, <1>6, <1>7, <1>8, <1>9, <1>10, <1>11, <1>12, <1>13 DEF Next

-----------------------------------------------------------------------------
\* No writer was under way at first.
LEMMA SnapshotInit == TokenIndexAssumption /\ Init => Typed /\ Punctual /\ Safe /\ HitsAreSound
<1> SUFFICES ASSUME TokenIndexAssumption, Init PROVE Typed /\ Punctual /\ Safe /\ HitsAreSound
  OBVIOUS
<1>1. req = [r \in Requests |-> NoRequest] /\ NoRequest \in Request
      /\ content = [f \in 1..Files |-> Empty] /\ Empty \in Contents
  BY DEF Init, Request, Contents
<1>2. \A r \in Requests : req[r] = NoRequest /\ req[r].state = "idle"
  BY <1>1 DEF NoRequest
<1>3. Typed
  <2>1. content \in [1..Files -> Contents] /\ req \in [Requests -> Request]
    BY <1>1
  <2>2. \A p \in Processes : tmp[p] = 0
    BY DEF Init
  <2>3. \A r \in Requests : req[r].state \in States
    BY <1>2 DEF States
  <2>4. /\ now \in 0..MaxTime /\ created \in 0..Files /\ arrivals \in 0..MaxArrivals
        /\ tmp \in [Processes -> 0..created] /\ final \in 0..created /\ overlapped \in BOOLEAN
    <3>1. 0 \in 0..MaxTime /\ 0 \in 0..Files /\ 0 \in 0..MaxArrivals /\ 0 \in 0..0
      BY DEF TokenIndexAssumption
    <3>2. tmp \in [Processes -> 0..0]
      BY <3>1 DEF Init
    <3> QED BY <3>1, <3>2 DEF Init
  <2> QED BY <2>1, <2>2, <2>3, <2>4 DEF Typed, TypeOK, Contents
<1>4. Punctual
  <2>1. ~ Whole(Empty)
    BY <1>1, TornIsNot
  <2> QED BY <1>1, <1>2, <2>1 DEF Punctual, Timely, NoRequest
<1>5. Safe
  BY <1>1, <1>2 DEF Init, Safe, OneWriter, OwnFile, MovesWhole, DamageNeedsOverlap, Filing, Writers
<1>6. HitsAreSound
  BY <1>2 DEF HitsAreSound
<1> QED BY <1>3, <1>4, <1>5, <1>6

SnapshotInv == Typed /\ Punctual /\ Safe /\ HitsAreSound

\* The snapshot keeps its invariant in every state.
LEMMA SnapshotHolds == TokenIndexAssumption => (Spec => []SnapshotInv)
<1> SUFFICES ASSUME TokenIndexAssumption PROVE Spec => []SnapshotInv
  OBVIOUS
<1>1. Init => SnapshotInv
  BY SnapshotInit DEF SnapshotInv
<1>2. SnapshotInv /\ [Next]_vars => SnapshotInv'
  <2>1. CASE Next
    BY <2>1, TypedStep, PunctualStep, SafeStep, HitsStep DEF SnapshotInv
  <2>2. ASSUME SnapshotInv, UNCHANGED vars PROVE SnapshotInv'
    BY <2>2 DEF vars, SnapshotInv, Typed, TypeOK, Punctual, Safe, OneWriter, OwnFile, MovesWhole,
                DamageNeedsOverlap, HitsAreSound, Filing, Writers, Whole
  <2> QED BY <2>1, <2>2
<1> QED BY <1>1, <1>2, PTL DEF Spec

\* The variables keep their types, and no two names hold the same file.
THEOREM SnapshotTypes == TokenIndexAssumption => (Spec => []TypeOK)
<1> SUFFICES ASSUME TokenIndexAssumption PROVE Spec => []TypeOK
  OBVIOUS
<1>1. SnapshotInv => TypeOK
  BY DEF SnapshotInv, Typed
<1> QED BY <1>1, SnapshotHolds, PTL

\* A request answered from the disk gets one whole snapshot of one scan, younger than the lifetime
\* and the time a request may take together, whoever writes meanwhile (route.ts:89-110).
THEOREM Sound == TokenIndexAssumption => (Spec => []HitsAreSound)
<1> SUFFICES ASSUME TokenIndexAssumption PROVE Spec => []HitsAreSound
  OBVIOUS
<1>1. SnapshotInv => HitsAreSound
  BY DEF SnapshotInv
<1> QED BY <1>1, SnapshotHolds, PTL

\* Crashes, disk failures and other processes never damage the snapshot: without two writers of one
\* process, which share a temporary name, it is whole (file-cache-store.ts:73-78).
THEOREM Undamaged == TokenIndexAssumption => (Spec => []DamageNeedsOverlap)
<1> SUFFICES ASSUME TokenIndexAssumption PROVE Spec => []DamageNeedsOverlap
  OBVIOUS
<1>1. SnapshotInv => DamageNeedsOverlap
  BY DEF SnapshotInv, Safe
<1> QED BY <1>1, SnapshotHolds, PTL

======================================================================
