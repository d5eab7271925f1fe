-------------------------- MODULE NetworkSelection --------------------------
(***************************************************************************)
(* Which chain a tab of the explorer shows: NetworkProvider of             *)
(* src/src/context/network-context.tsx with src/src/lib/network-param.ts,  *)
(* the session history of the tab and the preference in localStorage,      *)
(* which all tabs of the browser share.  The provider sits in the root     *)
(* layout: it reads the URL once per document and survives every in-app    *)
(* navigation.  Pages and widgets are added by the modules that extend     *)
(* this one.                                                               *)
(***************************************************************************)
EXTENDS Naturals, Sequences

CONSTANTS
  Pages,     \* what a path names: the heights of block pages, for instance
  MaxActs    \* bound: things the user does in a behaviour

ASSUME SelectionAssumption == Pages # {} /\ MaxActs \in Nat

VARIABLES
  configured,  \* isMainnetConfigured(), fixed when the app is built
  history,     \* entries of the session history: the page and its ?network= value
  at,          \* index of the current entry
  stored,      \* localStorage["boing-explorer-network"], None for what is ignored
  network,     \* state of the provider
  ready,       \*   "
  notice,      \*   "  : unavailableRequested
  acts,        \* things the user did (bound)
  picked,      \* networks this document resolved or was switched to (history)
  undisturbed  \* did nothing move the URL or the preference behind the provider's back?

provider == <<network, ready, notice>>
selectionVars ==
  <<configured, history, at, stored, provider, acts, picked, undisturbed>>

Nets == {"testnet", "mainnet"}
None == "none"

\* "other": any value parseNetworkParam ignores, the empty one included
Params == Nets \cup {None, "other"}
Entries == [page: Pages, param: Params]

Here == history[at]

-----------------------------------------------------------------------------
ParseNetworkParam(v) == IF v \in Nets THEN v ELSE None

\* resolveInitialNetwork: the URL, else the preference, else testnet; mainnet only when
\* it is configured, and reported when a link asked for it in vain.
ResolveWithoutDefault(param, saved) ==
  LET fromUrl == ParseNetworkParam(param)
  IN  [network |-> IF fromUrl # None THEN fromUrl ELSE saved,
       fromUrl |-> fromUrl # None, unavailable |-> None]

ResolveInitialNetwork(param, saved) ==
  LET fromUrl == ParseNetworkParam(param)
      wanted == IF fromUrl # None THEN fromUrl ELSE ParseNetworkParam(saved)
  IN  [network |-> IF wanted = "mainnet" /\ configured THEN "mainnet" ELSE "testnet",
       fromUrl |-> fromUrl # None,
       unavailable |-> IF fromUrl = "mainnet" /\ ~ configured THEN "mainnet" ELSE None]

\* syncNetworkInSearch: the parameter is updated, never added.
SyncNetworkInSearch(param, n) == IF param = None THEN None ELSE n

Init ==
  /\ configured \in BOOLEAN
  /\ \E e \in Entries : history = <<e>>
  /\ at = 1
  /\ stored \in Nets \cup {None}
  /\ network = "testnet" /\ ready = FALSE /\ notice = None
  /\ acts = 0
  /\ picked = {}
  /\ undisturbed = TRUE

-----------------------------------------------------------------------------
Act == acts < MaxActs /\ acts' = acts + 1

FreshProvider == network' = "testnet" /\ ready' = FALSE /\ notice' = None

\* A deep link or a typed address: a new document.  (Older entries are of no interest:
\* going back to them is one more document load.)
Open(e) ==
  /\ Act
  /\ history' = <<e>> /\ at' = 1
  /\ FreshProvider
  /\ picked' = {} /\ undisturbed' = TRUE
  /\ UNCHANGED <<configured, stored>>

Reload ==
  /\ Act
  /\ FreshProvider
  /\ picked' = {} /\ undisturbed' = TRUE
  /\ UNCHANGED <<configured, history, at, stored>>

\* The mount effect of NetworkProvider.
Resolution == ResolveInitialNetwork(Here.param, stored)

Mount(reported) ==
  /\ ~ ready
  /\ network' = Resolution.network
  /\ notice' = reported
  /\ ready' = TRUE
  /\ stored' = IF Resolution.fromUrl /\ Resolution.unavailable = None
               THEN Resolution.network ELSE stored
  /\ picked' = {Resolution.network}
  /\ UNCHANGED <<configured, history, at, acts, undisturbed>>

ResolveSilently == Mount(None)

Resolve == Mount(Resolution.unavailable)

\* setNetwork, from the selector; param is what becomes of the URL.
Served(n) == IF n = "mainnet" /\ configured THEN "mainnet" ELSE "testnet"

SetNetwork(n, param) ==
  /\ ready /\ Act
  /\ n = "mainnet" => configured    \* the option is disabled otherwise
  /\ network' = Served(n)
  /\ notice' = None
  /\ stored' = Served(n)
  /\ history' = [history EXCEPT ![at].param = param]
  /\ picked' = picked \cup {Served(n)}
  /\ UNCHANGED <<configured, at, ready, undisturbed>>

ChooseKeepingUrl(n) == SetNetwork(n, Here.param)

Choose(n) == SetNetwork(n, SyncNetworkInSearch(Here.param, Served(n)))

\* An in-app link: with the current network in its query or without a query.
Follow(page, param) ==
  /\ ready /\ Act
  /\ param \in {None, network}
  /\ history' = Append(SubSeq(history, 1, at), [page |-> page, param |-> param])
  /\ at' = at + 1
  /\ UNCHANGED <<configured, stored, provider, picked, undisturbed>>

\* Back and forward within the document: the provider does not look at the URL again.
Go(i) ==
  /\ ready /\ Act
  /\ i \in DOMAIN history \ {at}
  /\ at' = i
  /\ undisturbed' = FALSE
  /\ UNCHANGED <<configured, history, stored, provider, picked>>

\* Another tab of the browser stores its choice.
OtherTab(n) ==
  /\ Act
  /\ n = "mainnet" => configured
  /\ stored' = n
  /\ undisturbed' = FALSE
  /\ UNCHANGED <<configured, history, at, provider, picked>>

-----------------------------------------------------------------------------
SelectionTypeOK ==
  /\ configured \in BOOLEAN
  /\ history \in Seq(Entries) /\ at \in DOMAIN history
  /\ stored \in Nets \cup {None}
  /\ network \in Nets /\ ready \in BOOLEAN /\ notice \in {None, "mainnet"}
  /\ acts \in 0..MaxActs
  /\ picked \subseteq Nets
  /\ undisturbed \in BOOLEAN

\* What a tab shows survives a reload and can be shared: the URL and the stored
\* preference resolve to the network on display, through any links and choices, as long
\* as neither history navigation nor another tab moved them (network-context.tsx:51-69).
ReloadKeepsNetwork ==
  (ready /\ undisturbed) => Resolution.network = network

\* A link to a chain that is not served is never answered with another chain in
\* silence (network-param.ts:21-23).
OtherChainIsAnnounced ==
  (ready /\ undisturbed /\ Here.param \in Nets \ {network}) => notice = Here.param

=============================================================================
