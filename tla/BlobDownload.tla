----------------------------- MODULE BlobDownload -----------------------------
(***************************************************************************)
(* Downloading a published blob.  The panel asks the wallet to connect, to *)
(* change its chain and to sign that the account downloads this blob, or   *)
(* takes a token that an operator handed out.  The explorer's route lets a *)
(* token pass that it knows and passes a proof on, for the node to judge.  *)
(***************************************************************************)
EXTENDS Naturals, FiniteSets

CONSTANTS
  Downloaders,   \* accounts of the wallet
  BlobNets,      \* networks of the page and chains of the wallet
  Given,         \* tokens that users may type
  Secret,        \* the operator's own token
  Unset,       \* no account, no token, no network
  ProofTtl,      \* how long a proof holds
  ProxyCap,      \* size from which on the route refuses
  Sites,         \* ways to configure the explorer: tokens it knows, node it is told to use
  Stores,        \* what the nodes may have: who may take the blob, its size, whether they tell
  Late,          \* bound: the clock
  Gestures       \* bound: things done by the user

ASSUME DownloadAssumption ==
  /\ Secret \notin Given /\ Unset \notin Downloaders \cup BlobNets \cup Given \cup {Secret}
  /\ {ProofTtl, ProxyCap, Late, Gestures} \subseteq Nat
  /\ Sites \subseteq [tokens: SUBSET (Given \cup {Secret}), override: BlobNets \cup {Unset}]
  /\ \A s \in Stores : \A n \in BlobNets :
       s[n] \in [permitted: SUBSET Downloaders, size: Nat, declares: BOOLEAN, knows: BOOLEAN]

VARIABLES
  site,       \* how the explorer is configured
  store,      \* of each network's node: who may have the blob, what it weighs, whether it says so
  holder,     \* the account of the wallet, Unset while it is locked
  panel,      \* network of the page, account it has connected, what it says
  jobs,       \* a connection and a download, each in some stage
  hour, gestures,
  outcome     \* what the last download came to (history)

blobVars == <<site, store, holder, panel, jobs, hour, gestures, outcome>>

Resting == [stage |-> "idle", net |-> Unset, account |-> Unset, expires |-> 0,
            signer |-> Unset, token |-> Unset]

Idle == [j \in {"connect", "download"} |-> Resting]
Undone == [job |-> Resting, status |-> "none", up |-> FALSE, hour |-> 0]

Gesture == gestures < Gestures /\ gestures' = gestures + 1
Busy == jobs["download"].stage # "idle"
Says(what) == [panel EXCEPT !.says = what]

-----------------------------------------------------------------------------
\* The panel.  Both jobs keep the network for which they were clicked.
Begin(job, stage, account, token) ==
  jobs' = [jobs EXCEPT ![job] =
             [Resting EXCEPT !.stage = stage, !.net = panel.net, !.account = account, !.token = token]]

ConnectWallet ==
  /\ Gesture
  /\ panel.account = Unset /\ jobs["connect"].stage = "idle"
  /\ Begin("connect", "accounts", Unset, Unset)
  /\ panel' = Says("")
  /\ UNCHANGED <<site, store, holder, hour, outcome>>

OnWalletDownload ==
  /\ Gesture
  /\ ~Busy
  /\ Begin("download", IF panel.account = Unset THEN "accounts" ELSE "again", panel.account, Unset)
  /\ panel' = Says("")
  /\ UNCHANGED <<site, store, holder, hour, outcome>>

OnOperatorDownload ==
  /\ Gesture
  /\ ~Busy
  /\ \E t \in Given : Begin("download", "sent", Unset, t)
  /\ panel' = Says("")
  /\ UNCHANGED <<site, store, holder, hour, outcome>>

PickNet ==
  /\ Gesture
  /\ \E n \in BlobNets \ {panel.net} : panel' = [panel EXCEPT !.net = n]
  /\ UNCHANGED <<site, store, holder, jobs, hour, outcome>>

\* The wallet, whose user may change its account at any time.
PickAccount ==
  /\ Gesture
  /\ holder' \in (Downloaders \cup {Unset}) \ {holder}
  /\ UNCHANGED <<site, store, panel, jobs, hour, outcome>>

WalletRequestAccounts(job) ==
  /\ jobs[job].stage = "accounts" /\ holder # Unset
  /\ jobs' = [jobs EXCEPT ![job].account = holder, ![job].stage = "chain"]
  /\ UNCHANGED <<site, store, holder, panel, hour, gestures, outcome>>

\* An account just told is kept once the chain is right; a download goes on to be signed, by what the
\* account was when its job got it, until so long from now.
EnsureWalletChain(job) ==
  /\ jobs[job].stage \in {"chain", "again"}
  /\ panel' = IF jobs[job].stage = "chain" THEN [panel EXCEPT !.account = jobs[job].account] ELSE panel
  /\ jobs' = [jobs EXCEPT ![job] =
                IF job = "connect" THEN Resting
                ELSE [@ EXCEPT !.stage = "sign", !.expires = hour + ProofTtl]]
  /\ UNCHANGED <<site, store, holder, hour, gestures, outcome>>

WalletSignMessage ==
  /\ jobs["download"].stage = "sign" /\ holder # Unset
  /\ jobs' = [jobs EXCEPT !["download"].signer = holder, !["download"].stage = "sent"]
  /\ UNCHANGED <<site, store, holder, panel, hour, gestures, outcome>>

\* The user refuses, or the wallet is locked.
WalletRefuses(job) ==
  /\ jobs[job].stage \in {"accounts", "chain", "again", "sign"}
  /\ jobs' = [jobs EXCEPT ![job] = Resting]
  /\ panel' = Says("cancelled")
  /\ UNCHANGED <<site, store, holder, hour, gestures, outcome>>

-----------------------------------------------------------------------------
\* The route.  A request shows a proof or a token; what it takes to the node is its proof, or
\* the operator's secret if there is one, or else the token.
HasProof(job) == job.signer # Unset
Admitted(job) == HasProof(job) \/ job.token \in site.tokens

OwnToken(job) == IF Secret \in site.tokens THEN Secret ELSE job.token
UpstreamAuthWithSecret(job) == [proof |-> HasProof(job), token |-> OwnToken(job)]
UpstreamAuth(job) ==
  [proof |-> HasProof(job), token |-> IF HasProof(job) THEN Unset ELSE OwnToken(job)]

DownloadBase(net) == IF site.override # Unset THEN site.override ELSE net

\* External: the node gives the blob to a token it knows, and to whoever signed for himself, for
\* this chain and not too long ago, if he published the blob or was granted it.
NodeAnswers(job, auth) ==
  LET at == DownloadBase(job.net)
      proven == /\ auth.proof /\ job.signer = job.account /\ job.net = at
                /\ hour <= job.expires /\ job.signer \in store[at].permitted
  IN  IF ~store[at].knows THEN "404"
      ELSE IF proven \/ auth.token \in site.tokens THEN "200" ELSE "403"

\* What a length that the node declares says; what it does not declare passes.
TooLarge(at) == store[at].declares /\ store[at].size > ProxyCap

RouteStatus(job, answer) ==
  CASE ~Admitted(job) -> IF site.tokens = {} THEN "503" ELSE "401"
    [] answer = "down" -> "502"
    [] answer = "403" -> "401"
    [] answer = "404" -> "404"
    [] OTHER -> IF TooLarge(DownloadBase(job.net)) THEN "413" ELSE "200"

\* The node may also be down, or fail; the panel saves what comes, or says why nothing does.
RouteAnswers ==
  /\ jobs["download"].stage = "sent"
  /\ LET job == jobs["download"] IN
     \E answer \in {NodeAnswers(job, UpstreamAuth(job)), "down"} :
       LET status == RouteStatus(job, answer) IN
       /\ outcome' = [job |-> job, status |-> status, up |-> answer # "down", hour |-> hour]
       /\ panel' = IF status = "200" THEN panel ELSE Says("failed")
       /\ jobs' = [jobs EXCEPT !["download"] = Resting]
  /\ UNCHANGED <<site, store, holder, hour, gestures>>

BlobTick ==
  /\ Busy /\ hour < Late
  /\ hour' = hour + 1
  /\ UNCHANGED <<site, store, holder, panel, jobs, gestures, outcome>>

BlobInit ==
  /\ site \in Sites /\ store \in Stores
  /\ holder \in Downloaders \cup {Unset}
  /\ panel \in [net: BlobNets, account: {Unset}, says: {""}]
  /\ jobs = Idle /\ hour = 0 /\ gestures = 0 /\ outcome = Undone

BlobNext ==
  \/ ConnectWallet \/ OnWalletDownload \/ OnOperatorDownload \/ PickNet \/ PickAccount
  \/ \E job \in {"connect", "download"} :
       WalletRequestAccounts(job) \/ EnsureWalletChain(job) \/ WalletRefuses(job)
  \/ WalletSignMessage \/ RouteAnswers \/ BlobTick

BlobSpec == BlobInit /\ [][BlobNext]_blobVars

-----------------------------------------------------------------------------
\* A download brings the blob only to one who brought a token the explorer knows, or to an
\* account that the node of the clicked network permits, which was the wallet's when it signed
\* and when the job began, and signed in time; and never one that is said to be too large.  It
\* fails such a one only because the node is down, lacks the blob, or says that it is too large.
DownloadsAsPermitted ==
  outcome.status # "none" =>
  LET job == outcome.job
      at == DownloadBase(job.net)
      known == job.signer = Unset /\ job.token \in site.tokens
      proven == /\ job.signer = job.account /\ job.account \in store[job.net].permitted
                /\ outcome.hour <= job.expires
  IN  /\ outcome.status = "200" => (known \/ proven) /\ ~TooLarge(at)
      /\ (/\ known \/ (proven /\ at = job.net)
          /\ outcome.up /\ store[at].knows /\ ~TooLarge(at)) => outcome.status = "200"
=============================================================================
