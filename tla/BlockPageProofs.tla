---------------------------- MODULE BlockPageProofs ----------------------------
(***************************************************************************)
(* BlockPage, with the NetworkSelection below it, for any pages and any    *)
(* number of things that the user does.                                    *)
(***************************************************************************)
EXTENDS BlockPage, TLAPS, SequenceTheorems

\* What the preference alone resolves to.
Saved == IF stored = "mainnet" /\ configured THEN "mainnet" ELSE "testnet"

\* The preference agrees with what is on display, also without the URL: a link without a
\* parameter leaves nothing else to a reload.
StoredAgrees == ready /\ undisturbed => Saved = network

\* So does the URL, or the notice says why not.
UrlAgrees ==
  ready /\ undisturbed /\ Here.param \in Nets =>
    Here.param = network \/ (Here.param = "mainnet" /\ ~ configured /\ notice = "mainnet")

Resolved ==
  /\ network = "mainnet" => configured
  /\ ready => network \in picked

SelectionInv == SelectionTypeOK /\ StoredAgrees /\ UrlAgrees /\ Resolved

\* Nothing is asked before the link is read.
AskedInTime == asked \subseteq picked /\ (~ ready => asked = {})

\* Only the last run may be in force; it is for what the effect last ran for.
OneInForce ==
  \A r \in DOMAIN runs : ~ runs[r].cancelled =>
    /\ r = Len(runs)
    /\ effect = [net |-> runs[r].net, ready |-> TRUE] /\ runs[r].page = Here.page
    /\ ~ error
    /\ runs[r].stage = "fetching" => loading

\* What is on display, once nothing loads, is what the effect last ran for.
ShownIsEffects ==
  (effect.ready /\ ~ loading /\ Here.page \in Valid) =>
    /\ shown # NoBlock => (shown.net = effect.net /\ shown.page = Here.page)
    /\ netInfo \in {None, effect.net}
    /\ error => shown = NoBlock

-----------------------------------------------------------------------------
\* The selection.

\* At first the document has resolved nothing and stored what it stored.
LEMMA Inits == SelectionAssumption /\ Init => SelectionInv
<1> SUFFICES ASSUME SelectionAssumption, Init PROVE SelectionInv
  OBVIOUS
<1>1. PICK e \in Entries : history = <<e>>
  BY DEF Init
<1>2. history \in Seq(Entries) /\ at \in DOMAIN history
  BY <1>1 DEF Init
<1>3. 0 \in 0..MaxActs
  BY DEF SelectionAssumption
<1> QED BY <1>2, <1>3 DEF Init, SelectionInv, SelectionTypeOK, StoredAgrees, UrlAgrees, Resolved,
                        Nets, None

\* What a link and a preference resolve to.
LEMMA Resolves ==
  ASSUME SelectionTypeOK, NEW param \in Params, NEW saved \in Nets \cup {None}
  PROVE  /\ ResolveInitialNetwork(param, saved).network =
              IF param \in Nets
              THEN IF param = "mainnet" /\ configured THEN "mainnet" ELSE "testnet"
              ELSE IF saved = "mainnet" /\ configured THEN "mainnet" ELSE "testnet"
         /\ ResolveInitialNetwork(param, saved).fromUrl = (param \in Nets)
         /\ ResolveInitialNetwork(param, saved).unavailable =
              IF param = "mainnet" /\ ~ configured THEN "mainnet" ELSE None
<1> DEFINE fromUrl == ParseNetworkParam(param)
           wanted == IF fromUrl # None THEN fromUrl ELSE ParseNetworkParam(saved)
           r == ResolveInitialNetwork(param, saved)
<1>1. r = [network |-> IF wanted = "mainnet" /\ configured THEN "mainnet" ELSE "testnet",
           fromUrl |-> fromUrl # None,
           unavailable |-> IF fromUrl = "mainnet" /\ ~ configured THEN "mainnet" ELSE None]
  BY DEF ResolveInitialNetwork
<1>2. /\ fromUrl = IF param \in Nets THEN param ELSE None
      /\ ParseNetworkParam(saved) = saved
      /\ None \notin Nets /\ None # "mainnet" /\ "mainnet" \in Nets
  BY DEF ParseNetworkParam, Nets, None
<1> HIDE DEF fromUrl
<1>3. r.network = IF wanted = "mainnet" /\ configured THEN "mainnet" ELSE "testnet"
  BY <1>1
<1>4. r.fromUrl = (fromUrl # None)
  BY <1>1
<1>5. r.unavailable = IF fromUrl = "mainnet" /\ ~ configured THEN "mainnet" ELSE None
  BY <1>1
<1>6. wanted = IF param \in Nets THEN param ELSE saved
  BY <1>2
<1> HIDE DEF wanted
<1>7. r.network = IF param \in Nets
              THEN IF param = "mainnet" /\ configured THEN "mainnet" ELSE "testnet"
              ELSE IF saved = "mainnet" /\ configured THEN "mainnet" ELSE "testnet"
  BY <1>3, <1>6
<1>8. r.fromUrl = (param \in Nets)
  BY <1>2, <1>4
<1>9. r.unavailable = IF param = "mainnet" /\ ~ configured THEN "mainnet" ELSE None
  BY <1>2, <1>5
<1> QED BY <1>7, <1>8, <1>9

\* The current entry is one.
LEMMA HereIsEntry ==
  ASSUME SelectionTypeOK
  PROVE  Here \in Entries /\ Here.param \in Params /\ Here.page \in Pages
<1>1. Here \in Entries
  BY DEF SelectionTypeOK, Here
<1> QED BY <1>1 DEF Entries

\* What the user does is counted up to the bound.
LEMMA ActCounts ==
  ASSUME SelectionAssumption, SelectionTypeOK, Act
  PROVE  acts' \in 0..MaxActs
BY DEF SelectionAssumption, SelectionTypeOK, Act

\* Opening the page on an address starts a document that has resolved nothing.
LEMMA OpenKeeps ==
  ASSUME SelectionAssumption, SelectionInv, NEW e \in Entries, Open(e)
  PROVE  SelectionInv'
<1>1. acts' \in 0..MaxActs
  BY ActCounts DEF SelectionInv, Open
<1>2. history' \in Seq(Entries) /\ at' \in DOMAIN history'
  BY DEF Open
<1> QED BY <1>1, <1>2 DEF SelectionInv, SelectionTypeOK, StoredAgrees, UrlAgrees, Resolved, Open,
                        FreshProvider, Nets, None

\* So does reloading it.
LEMMA ReloadKeeps ==
  ASSUME SelectionAssumption, SelectionInv, Reload
  PROVE  SelectionInv'
<1>1. acts' \in 0..MaxActs
  BY ActCounts DEF SelectionInv, Reload
<1> QED BY <1>1 DEF SelectionInv, SelectionTypeOK, StoredAgrees, UrlAgrees, Resolved, Reload,
                  FreshProvider, Nets, None

\* The resolution on mount picks a network that the address, the storage and the configuration agree on.
LEMMA ResolveKeeps ==
  ASSUME SelectionInv, Resolve
  PROVE  SelectionInv'
<1> DEFINE p == Here.param
<1>1. p \in Params /\ stored \in Nets \cup {None} /\ configured \in BOOLEAN
  BY HereIsEntry DEF SelectionInv, SelectionTypeOK
<1>2. /\ Resolution.network = IF p \in Nets
              THEN IF p = "mainnet" /\ configured THEN "mainnet" ELSE "testnet"
              ELSE Saved
      /\ Resolution.fromUrl = (p \in Nets)
      /\ Resolution.unavailable = IF p = "mainnet" /\ ~ configured THEN "mainnet" ELSE None
  BY <1>1, Resolves DEF SelectionInv, Resolution, Saved
<1>3. /\ network' = Resolution.network /\ notice' = Resolution.unavailable
      /\ stored' = IF Resolution.fromUrl /\ Resolution.unavailable = None
                   THEN Resolution.network ELSE stored
      /\ picked' = {Resolution.network} /\ ready' = TRUE
      /\ UNCHANGED <<configured, history, at, acts, undisturbed>>
  BY DEF Resolve, Mount
<1>4. Here' = Here
  BY <1>3 DEF Here
<1>5. network' \in Nets /\ stored' \in Nets \cup {None} /\ notice' \in {None, "mainnet"}
  BY <1>1, <1>2, <1>3 DEF Nets, None, Saved
<1>6. SelectionTypeOK'
  BY <1>3, <1>5 DEF SelectionInv, SelectionTypeOK
<1>7. StoredAgrees'
  BY <1>1, <1>2, <1>3 DEF StoredAgrees, Saved, Nets, None
<1>8. UrlAgrees'
  BY <1>1, <1>2, <1>3, <1>4 DEF UrlAgrees, Nets, None
<1>9. Resolved'
  BY <1>1, <1>2, <1>3 DEF Resolved, Saved, Nets
<1> QED BY <1>6, <1>7, <1>8, <1>9 DEF SelectionInv

\* A choice is stored and written to the address, and the page stays where it is.
LEMMA ChooseKeeps ==
  ASSUME SelectionAssumption, SelectionInv, NEW n \in Nets, Choose(n)
  PROVE  SelectionInv' /\ Here'.page = Here.page
<1> DEFINE p == SyncNetworkInSearch(Here.param, Served(n))
<1>0. /\ history \in Seq(Entries) /\ at \in DOMAIN history /\ Here.param \in Params
  BY HereIsEntry DEF SelectionInv, SelectionTypeOK
<1>1. Served(n) \in Nets /\ (Served(n) = "mainnet" => configured) /\ p \in Params
      /\ (p \in Nets => p = Served(n))
  BY <1>0 DEF Served, Nets, SyncNetworkInSearch, Params, None
<1>2. /\ network' = Served(n) /\ notice' = None /\ stored' = Served(n)
      /\ history' = [history EXCEPT ![at].param = p]
      /\ picked' = picked \cup {Served(n)} /\ acts' \in 0..MaxActs
      /\ UNCHANGED <<configured, at, ready, undisturbed>>
  BY ActCounts DEF Choose, SetNetwork, SelectionInv
<1> HIDE DEF p
<1>3. Here' = [Here EXCEPT !.param = p]
  BY <1>0, <1>2 DEF Here
<1>4. Here'.param = p /\ Here'.page = Here.page /\ Here' \in Entries
  BY <1>1, <1>3, HereIsEntry DEF SelectionInv, Entries
<1>5. history' \in Seq(Entries) /\ at' \in DOMAIN history'
  <2>1. [Here EXCEPT !.param = p] \in Entries
    BY <1>3, <1>4
  <2> DEFINE e == [Here EXCEPT !.param = p]
  <2>2. history' = [history EXCEPT ![at] = e]
    BY <1>2 DEF Here
  <2> HIDE DEF e
  <2>3. ASSUME NEW x \in Entries PROVE [history EXCEPT ![at] = x] \in Seq(Entries)
    BY <1>0
  <2>4. history' \in Seq(Entries)
    BY <2>1, <2>2, <2>3 DEF e
  <2>5. DOMAIN history' = DOMAIN history
    BY <2>2
  <2> QED BY <1>0, <1>2, <2>4, <2>5
<1>6. SelectionTypeOK'
  BY <1>1, <1>2, <1>5 DEF SelectionInv, SelectionTypeOK
<1>7. StoredAgrees'
  BY <1>1, <1>2 DEF StoredAgrees, Saved, Nets
<1>8. UrlAgrees'
  BY <1>1, <1>2, <1>4 DEF UrlAgrees
<1>9. Resolved'
  BY <1>1, <1>2 DEF Resolved
<1> QED BY <1>4, <1>6, <1>7, <1>8, <1>9 DEF SelectionInv

\* A link pushes an entry and leaves the selection alone.
LEMMA FollowKeeps ==
  ASSUME SelectionAssumption, SelectionInv, NEW page \in Pages, NEW param \in Params,
         Follow(page, param)
  PROVE  SelectionInv'
<1> DEFINE e == [page |-> page, param |-> param]
<1>1. /\ history \in Seq(Entries) /\ at \in DOMAIN history /\ e \in Entries
  BY DEF SelectionInv, SelectionTypeOK, Entries
<1>2. /\ history' = Append(SubSeq(history, 1, at), e) /\ at' = at + 1
      /\ ready /\ param \in {None, network} /\ acts' \in 0..MaxActs
      /\ UNCHANGED <<configured, undisturbed, stored, provider, picked>>
  BY ActCounts DEF Follow, SelectionInv
<1> HIDE DEF e
<1>3. /\ history' \in Seq(Entries) /\ at' \in DOMAIN history' /\ Here' = e
  BY <1>1, <1>2 DEF Here
<1>4. Here'.param = param
  BY <1>3 DEF e
<1>5. SelectionTypeOK' /\ StoredAgrees' /\ Resolved'
  BY <1>2, <1>3 DEF SelectionInv, SelectionTypeOK, StoredAgrees, Saved, Resolved, provider
<1>6. UrlAgrees'
  BY <1>2, <1>4 DEF UrlAgrees, provider, Nets, None
<1> QED BY <1>5, <1>6 DEF SelectionInv

\* Back and forward only change the entry.
LEMMA GoKeeps ==
  ASSUME SelectionAssumption, SelectionInv, NEW i \in DOMAIN history, Go(i)
  PROVE  SelectionInv'
<1>1. acts' \in 0..MaxActs
  BY ActCounts DEF SelectionInv, Go
<1> QED BY <1>1 DEF SelectionInv, SelectionTypeOK, StoredAgrees, UrlAgrees, Resolved, Go, provider

\* Another tab changes the storage; this document does not move.
LEMMA OtherTabKeeps ==
  ASSUME SelectionAssumption, SelectionInv, NEW n \in Nets, OtherTab(n)
  PROVE  SelectionInv' /\ Here' = Here
<1>1. acts' \in 0..MaxActs
  BY ActCounts DEF SelectionInv, OtherTab
<1> QED BY <1>1 DEF SelectionInv, SelectionTypeOK, StoredAgrees, UrlAgrees, Resolved, OtherTab,
                  provider, Here

\* Nothing changes when the provider does nothing.
LEMMA StaysKeeps ==
  ASSUME SelectionInv, UNCHANGED selectionVars
  PROVE  SelectionInv' /\ Here' = Here
BY DEF SelectionInv, SelectionTypeOK, StoredAgrees, Saved, UrlAgrees, Resolved, selectionVars,
       provider, Here

\* Every step of the page keeps the selection consistent.
LEMMA SelectionKeeps ==
  ASSUME SelectionAssumption, SelectionInv, [PageNext]_vars
  PROVE  SelectionInv'
<1>1. CASE NewDocument
  BY <1>1, OpenKeeps, ReloadKeeps DEF NewDocument
<1>2. CASE Navigate
  BY <1>2, FollowKeeps, GoKeeps DEF Navigate
<1>3. CASE Switch
  BY <1>3, ResolveKeeps, ChooseKeeps, OtherTabKeeps DEF Switch
<1>4. CASE Commit
  BY <1>4, StaysKeeps DEF Commit
<1>5. ASSUME NEW r \in DOMAIN runs, Settle(r) PROVE SelectionInv'
  BY <1>5, StaysKeeps DEF Settle, Settling
<1>6. ASSUME NEW r \in DOMAIN runs, Restore(r) PROVE SelectionInv'
  BY <1>6, StaysKeeps DEF Restore
<1>7. CASE UNCHANGED vars
  BY <1>7, StaysKeeps DEF vars
<1> QED BY <1>1, <1>2, <1>3, <1>4, <1>5, <1>6, <1>7 DEF PageNext

\* The selection is consistent in every state of the page.
LEMMA SelectionHolds == SelectionAssumption => (PageSpec => []SelectionInv)
<1> SUFFICES ASSUME SelectionAssumption PROVE PageSpec => []SelectionInv
  OBVIOUS
<1>1. PageInit => SelectionInv
  BY Inits DEF PageInit
<1>2. SelectionInv /\ [PageNext]_vars => SelectionInv'
  BY SelectionKeeps
<1> QED BY <1>1, <1>2, PTL DEF PageSpec

\* What a tab shows survives a reload, for any pages and any number of links, choices and
\* reloads, as long as nothing else moved the URL or the preference (network-context.tsx:51-69).
THEOREM ReloadIsSafe == SelectionAssumption => (PageSpec => []ReloadKeepsNetwork)
<1> SUFFICES ASSUME SelectionAssumption PROVE PageSpec => []ReloadKeepsNetwork
  OBVIOUS
<1>1. SelectionInv => ReloadKeepsNetwork
  <2> SUFFICES ASSUME SelectionInv, ready, undisturbed PROVE Resolution.network = network
    BY DEF ReloadKeepsNetwork
  <2>1. Here.param \in Params /\ stored \in Nets \cup {None}
    BY HereIsEntry DEF SelectionInv, SelectionTypeOK
  <2>2. Resolution.network = IF Here.param \in Nets
          THEN IF Here.param = "mainnet" /\ configured THEN "mainnet" ELSE "testnet"
          ELSE Saved
    BY <2>1, Resolves DEF SelectionInv, Resolution, Saved
  <2>3. Saved = network /\ network \in Nets /\ (network = "mainnet" => configured)
    BY DEF SelectionInv, StoredAgrees, Resolved, SelectionTypeOK
  <2> QED BY <2>2, <2>3 DEF SelectionInv, UrlAgrees, Nets, Saved
<1> QED BY <1>1, SelectionHolds, PTL

\* A link to a chain that is not served is never answered with another chain in silence,
\* likewise (network-param.ts:21-23).
THEOREM OthersAnnounced == SelectionAssumption => (PageSpec => []OtherChainIsAnnounced)
<1> SUFFICES ASSUME SelectionAssumption PROVE PageSpec => []OtherChainIsAnnounced
  OBVIOUS
<1>1. SelectionInv => OtherChainIsAnnounced
  BY DEF SelectionInv, UrlAgrees, OtherChainIsAnnounced
<1> QED BY <1>1, SelectionHolds, PTL

-----------------------------------------------------------------------------
\* The page.

\* What remains of a sequence when one element leaves.
LEMMA Removed ==
  ASSUME NEW S, NEW s \in Seq(S), NEW i \in 1..Len(s)
  PROVE  /\ RemoveAt(s, i) \in Seq(S) /\ Len(RemoveAt(s, i)) = Len(s) - 1
         /\ \A j \in 1..(Len(s) - 1) :
              RemoveAt(s, i)[j] = IF j < i THEN s[j] ELSE s[j + 1]
<1> DEFINE a == SubSeq(s, 1, i - 1)
           b == SubSeq(s, i + 1, Len(s))
<1>1. a \in Seq(S) /\ Len(a) = i - 1 /\ \A j \in 1..(i - 1) : a[j] = s[j]
  OBVIOUS
<1>2. b \in Seq(S) /\ Len(b) = Len(s) - i /\ \A j \in 1..(Len(s) - i) : b[j] = s[j + i]
  OBVIOUS
<1>3. RemoveAt(s, i) = a \o b
  BY DEF RemoveAt
<1> HIDE DEF a, b
<1>4. /\ a \o b \in Seq(S) /\ Len(a \o b) = Len(s) - 1
      /\ \A j \in 1..(Len(s) - 1) : (a \o b)[j] = IF j <= i - 1 THEN a[j] ELSE b[j - (i - 1)]
  <2>1. /\ a \o b \in Seq(S) /\ Len(a \o b) = Len(a) + Len(b)
        /\ \A j \in 1..(Len(a) + Len(b)) :
             (a \o b)[j] = IF j <= Len(a) THEN a[j] ELSE b[j - Len(a)]
    BY <1>1, <1>2, ConcatProperties
  <2>2. Len(a) + Len(b) = Len(s) - 1
    BY <1>1, <1>2
  <2> QED BY <1>1, <2>1, <2>2
<1>5. ASSUME NEW j \in 1..(Len(s) - 1)
      PROVE  (a \o b)[j] = IF j < i THEN s[j] ELSE s[j + 1]
  <2>1. CASE j < i
    BY <1>1, <1>4, <2>1
  <2>2. CASE ~ (j < i)
    <3>1. j - (i - 1) \in 1..(Len(s) - i) /\ j - (i - 1) + i = j + 1 /\ ~ (j <= i - 1)
      BY <2>2
    <3> QED BY <1>2, <1>4, <2>2, <3>1
  <2> QED BY <2>1, <2>2
<1> QED BY <1>3, <1>4, <1>5

Run == [net: Nets, page: Valid, stage: {"fetching", "restoring"}, cancelled: BOOLEAN]

PageTypeOK ==
  /\ effect \in [net: Nets, ready: BOOLEAN] \cup {NotMounted}
  /\ runs \in Seq(Run)
  /\ shown \in Blocks \cup {NoBlock}
  /\ netInfo \in Nets \cup {None}
  /\ loading \in BOOLEAN /\ error \in BOOLEAN
  /\ asked \subseteq Nets /\ unitAsked \subseteq Nets

PageInv == PageTypeOK /\ AskedInTime /\ OneInForce /\ ShownIsEffects

\* Inductive: neither part is without the other, as the page relies on the network that the
\* selection has picked.
IInv == SelectionInv /\ PageInv

\* Nothing that is cancelled is in force.
LEMMA CancelledRuns ==
  ASSUME PageTypeOK
  PROVE  /\ Cancelled(runs) \in Seq(Run) /\ Len(Cancelled(runs)) = Len(runs)
         /\ \A r \in DOMAIN Cancelled(runs) : Cancelled(runs)[r].cancelled
<1> DEFINE c(r) == [runs[r] EXCEPT !.cancelled = TRUE]
<1>1. ASSUME NEW r \in DOMAIN runs PROVE c(r) \in Run /\ c(r).cancelled
  <2>1. runs[r] \in Run
    BY DEF PageTypeOK
  <2> QED BY <2>1 DEF Run
<1>2. Cancelled(runs) = [r \in 1..Len(runs) |-> c(r)] /\ DOMAIN runs = 1..Len(runs)
      /\ Len(runs) \in Nat
  BY DEF PageTypeOK, Cancelled
<1> HIDE DEF c
<1>3. Cancelled(runs) \in [1..Len(runs) -> Run]
  BY <1>1, <1>2
<1>4. Cancelled(runs) \in Seq(Run) /\ Len(Cancelled(runs)) = Len(runs)
  BY <1>2, <1>3
<1>5. \A r \in DOMAIN Cancelled(runs) : Cancelled(runs)[r].cancelled
  BY <1>1, <1>2
<1> QED BY <1>4, <1>5

\* At first no run of the effect is under way.
LEMMA PageInits == PageInit => PageInv
<1> SUFFICES ASSUME PageInit PROVE PageInv
  OBVIOUS
<1>1. runs = <<>> /\ runs \in Seq(Run)
  BY DEF PageInit
<1>2. PageTypeOK
  BY <1>1 DEF PageInit, PageTypeOK
<1>3. OneInForce
  BY <1>1 DEF OneInForce
<1>4. AskedInTime /\ ShownIsEffects
  BY DEF PageInit, AskedInTime, ShownIsEffects, NotMounted
<1> QED BY <1>2, <1>3, <1>4 DEF PageInv

\* A new document has no run of the effect.
LEMMA DocumentKeeps ==
  ASSUME PageInv, NewDocument
  PROVE  PageInv'
<1>1. /\ Fresh /\ runs' = <<>> /\ asked' = {} /\ unitAsked' = {}
  BY DEF NewDocument
<1>2. PageTypeOK'
  <2>1. runs' \in Seq(Run)
    BY <1>1
  <2> QED BY <1>1, <2>1 DEF PageTypeOK, Fresh
<1>3. OneInForce'
  BY <1>1 DEF OneInForce
<1>4. AskedInTime' /\ ShownIsEffects'
  BY <1>1 DEF AskedInTime, ShownIsEffects, Fresh, NotMounted
<1> QED BY <1>2, <1>3, <1>4 DEF PageInv

\* A navigation leaves the runs and the selection alone; the commit after it takes them up.
LEMMA NavigateKeeps ==
  ASSUME PageInv, Navigate
  PROVE  PageInv'
<1>0. UNCHANGED <<network, ready, picked>>
  BY DEF Navigate, Follow, Go, provider
<1>1. CASE history'[at'].page = Here.page /\ UNCHANGED pageVars
  BY <1>0, <1>1 DEF PageInv, PageTypeOK, AskedInTime, OneInForce, ShownIsEffects, pageVars, Here
<1>2. CASE Fresh /\ runs' = Cancelled(runs) /\ UNCHANGED <<asked, unitAsked>>
  <2>1. PageTypeOK'
    BY <1>2, CancelledRuns DEF PageInv, PageTypeOK, Fresh, NoBlock, NotMounted
  <2>2. OneInForce'
    BY <1>2, CancelledRuns DEF PageInv, OneInForce
  <2>3. AskedInTime' /\ ShownIsEffects'
    BY <1>0, <1>2 DEF PageInv, AskedInTime, ShownIsEffects, Fresh, NotMounted
  <2> QED BY <2>1, <2>2, <2>3 DEF PageInv
<1> QED BY <1>1, <1>2 DEF Navigate

\* A switch of the network asks for nothing itself; the commit after it does.
LEMMA SwitchKeeps ==
  ASSUME SelectionAssumption, SelectionInv, PageInv, Switch
  PROVE  PageInv'
<1>1. UNCHANGED pageVars
  BY DEF Switch
<1>2. Here'.page = Here.page
  BY ChooseKeeps, OtherTabKeeps DEF Switch, Resolve, Mount, Here
<1>3. AskedInTime'
  <2>1. CASE effect # NotMounted /\ Resolve
    BY <1>1, <2>1 DEF PageInv, AskedInTime, Resolve, Mount, pageVars
  <2>2. CASE \E n \in Nets : Choose(n)
    BY <1>1, <2>2 DEF PageInv, AskedInTime, Choose, SetNetwork, pageVars
  <2>3. CASE \E n \in Nets : OtherTab(n)
    BY <1>1, <2>3 DEF PageInv, AskedInTime, OtherTab, provider, pageVars
  <2> QED BY <2>1, <2>2, <2>3 DEF Switch
<1>4. PageTypeOK' /\ OneInForce' /\ ShownIsEffects'
  BY <1>1, <1>2 DEF PageInv, PageTypeOK, OneInForce, ShownIsEffects, pageVars
<1> QED BY <1>3, <1>4 DEF PageInv

\* A commit cancels the run in force and starts at most one in its place.
LEMMA CommitKeeps ==
  ASSUME SelectionInv, PageInv, Commit
  PROVE  PageInv'
<1>0. /\ network \in Nets /\ ready \in BOOLEAN /\ Here.page \in Pages /\ Here' = Here
      /\ UNCHANGED <<network, ready, picked>> /\ (ready => network \in picked)
      /\ effect' = [net |-> network, ready |-> ready]
  BY HereIsEntry, StaysKeeps
     DEF SelectionInv, SelectionTypeOK, Resolved, Commit, Now, selectionVars, provider
<1>1. effect' \in [net: Nets, ready: BOOLEAN] /\ unitAsked' \subseteq Nets
      /\ UNCHANGED <<shown, netInfo>>
  BY <1>0 DEF Commit, PageInv, PageTypeOK
<1>2. CASE Here.page \notin Valid /\ runs' = Cancelled(runs) /\ loading' = FALSE /\ error' = TRUE
           /\ UNCHANGED asked
  BY <1>0, <1>1, <1>2, CancelledRuns
     DEF PageInv, PageTypeOK, AskedInTime, OneInForce, ShownIsEffects
<1>3. CASE /\ Here.page \in Valid /\ ready
           /\ runs' = Append(Cancelled(runs), [net |-> network, page |-> Here.page,
                                               stage |-> "fetching", cancelled |-> FALSE])
           /\ loading' = TRUE /\ error' = FALSE /\ asked' = asked \cup {network}
  <2> DEFINE new == [net |-> network, page |-> Here.page, stage |-> "fetching", cancelled |-> FALSE]
             cs == Cancelled(runs)
  <2>1. new \in Run
    BY <1>0, <1>3 DEF Run
  <2>2. cs \in Seq(Run) /\ \A r \in DOMAIN cs : cs[r].cancelled
    BY CancelledRuns DEF PageInv
  <2>3. runs' = Append(cs, new)
    BY <1>3
  <2> HIDE DEF new, cs
  <2>4. /\ runs' \in Seq(Run) /\ Len(runs') = Len(cs) + 1 /\ runs'[Len(runs')] = new
        /\ \A r \in DOMAIN runs' \ {Len(runs')} : runs'[r].cancelled
    BY <2>1, <2>2, <2>3
  <2>5. OneInForce'
    <3>1. ASSUME NEW r \in DOMAIN runs', ~ runs'[r].cancelled
          PROVE  r = Len(runs') /\ runs'[r] = new
      BY <2>4, <3>1
    <3>2. /\ effect' = [net |-> new.net, ready |-> TRUE] /\ new.page = Here'.page
          /\ ~ error' /\ loading'
      BY <1>0, <1>3 DEF new
    <3> QED BY <3>1, <3>2 DEF OneInForce
  <2>6. PageTypeOK' /\ AskedInTime' /\ ShownIsEffects'
    BY <1>0, <1>1, <1>3, <2>4 DEF PageInv, PageTypeOK, AskedInTime, ShownIsEffects
  <2> QED BY <2>5, <2>6 DEF PageInv
<1>4. CASE /\ Here.page \in Valid /\ ~ ready
           /\ runs' = Cancelled(runs) /\ UNCHANGED <<loading, error, asked>>
  BY <1>0, <1>1, <1>4, CancelledRuns
     DEF PageInv, PageTypeOK, AskedInTime, OneInForce, ShownIsEffects
<1> QED BY <1>2, <1>3, <1>4 DEF Commit, QueryAllowed

\* When a run leaves, the others are in force as before.
LEMMA LeavingKeeps ==
  ASSUME PageInv, NEW r \in DOMAIN runs, runs' = RemoveAt(runs, r),
         UNCHANGED <<effect, loading, error>>, Here' = Here
  PROVE  runs' \in Seq(Run) /\ OneInForce'
<1>1. /\ runs \in Seq(Run) /\ r \in 1..Len(runs) /\ Len(runs) \in Nat
  BY DEF PageInv, PageTypeOK
<1>2. /\ runs' \in Seq(Run) /\ Len(runs') = Len(runs) - 1
      /\ \A j \in 1..(Len(runs) - 1) : runs'[j] = IF j < r THEN runs[j] ELSE runs[j + 1]
  BY <1>1, Removed
<1>3. ASSUME NEW j \in DOMAIN runs', ~ runs'[j].cancelled
      PROVE  /\ j = Len(runs')
             /\ effect = [net |-> runs'[j].net, ready |-> TRUE] /\ runs'[j].page = Here.page
             /\ ~ error
             /\ runs'[j].stage = "fetching" => loading
  <2> DEFINE i == IF j < r THEN j ELSE j + 1
  <2>1. j \in 1..(Len(runs) - 1) /\ i \in 1..Len(runs) /\ runs'[j] = runs[i]
    BY <1>1, <1>2, <1>3
  <2>2. i = Len(runs)
    BY <1>1, <1>3, <2>1 DEF PageInv, OneInForce
  <2>3. j = Len(runs')
    BY <1>1, <1>2, <2>1, <2>2
  <2> HIDE DEF i
  <2> QED BY <1>1, <1>3, <2>1, <2>3 DEF PageInv, OneInForce
<1> QED BY <1>2, <1>3 DEF OneInForce

\* A fetch that settles shows its answer only if its run is in force.
LEMMA SettleKeeps ==
  ASSUME SelectionInv, PageInv, NEW r \in DOMAIN runs, Settle(r)
  PROVE  PageInv'
<1>0. /\ UNCHANGED <<network, ready, picked, effect, asked, unitAsked>> /\ Here' = Here
      /\ runs[r].stage = "fetching" /\ runs[r] \in Run
  BY StaysKeeps DEF Settle, Settling, selectionVars, provider, PageInv, PageTypeOK
<1>1. CASE runs[r].cancelled /\ runs' = RemoveAt(runs, r)
           /\ UNCHANGED <<shown, netInfo, loading, error>>
  <2>1. runs' \in Seq(Run) /\ OneInForce'
    BY <1>0, <1>1, LeavingKeeps
  <2> QED BY <1>0, <1>1, <2>1 DEF PageInv, PageTypeOK, AskedInTime, ShownIsEffects
<1>2. CASE ~ runs[r].cancelled /\ loading' = FALSE /\ netInfo' \in {None, runs[r].net}
  <2>1. /\ r = Len(runs) /\ effect = [net |-> runs[r].net, ready |-> TRUE]
        /\ runs[r].page = Here.page /\ ~ error
        /\ runs[r].net \in Nets /\ runs[r].page \in Valid
    BY <1>0, <1>2 DEF PageInv, OneInForce, Run
  <2>2. AskedInTime'
    BY <1>0 DEF PageInv, AskedInTime
  <2>3. CASE /\ runs' = [runs EXCEPT ![r].stage = "restoring"]
             /\ shown' = Block(r, FALSE) /\ UNCHANGED error
    <3> DEFINE new == [runs[r] EXCEPT !.stage = "restoring"]
    <3>1. new \in Run /\ new.net = runs[r].net /\ new.page = runs[r].page
          /\ new.stage = "restoring" /\ new.cancelled = runs[r].cancelled
      BY <1>0 DEF Run
    <3>2. runs' = [runs EXCEPT ![r] = new] /\ runs \in Seq(Run) /\ r \in 1..Len(runs)
      BY <2>3 DEF PageInv, PageTypeOK
    <3> HIDE DEF new
    <3>3. /\ runs' \in Seq(Run) /\ Len(runs') = Len(runs)
          /\ \A j \in 1..Len(runs) : runs'[j] = IF j = r THEN new ELSE runs[j]
      BY <3>1, <3>2, ExceptSeq
    <3>4. shown' \in Blocks /\ shown'.net = effect.net /\ shown'.page = Here.page
      <4>1. shown' = [net |-> runs[r].net, page |-> runs[r].page, full |-> FALSE]
        BY <2>3 DEF Block
      <4>2. Valid \subseteq Pages
        BY PageAssumption DEF PageAssumption
      <4> QED BY <2>1, <4>1, <4>2 DEF Blocks
    <3>5. OneInForce'
      <4>1. ASSUME NEW j \in DOMAIN runs', ~ runs'[j].cancelled
            PROVE  j = r
        BY <2>1, <3>2, <3>3, <4>1 DEF PageInv, OneInForce
      <4>2. runs'[r] = new /\ Len(runs') = Len(runs)
        BY <3>2, <3>3
      <4> QED BY <1>0, <2>1, <2>3, <3>1, <4>1, <4>2 DEF OneInForce
    <3>6. PageTypeOK'
      BY <1>0, <1>2, <2>1, <2>3, <3>3, <3>4 DEF PageInv, PageTypeOK
    <3>7. ShownIsEffects'
      BY <1>0, <1>2, <2>1, <2>3, <3>4 DEF ShownIsEffects
    <3> QED BY <2>2, <3>5, <3>6, <3>7 DEF PageInv
  <2>4. CASE runs' = RemoveAt(runs, r) /\ shown' = NoBlock /\ error' \in {error, TRUE}
    <3>1. runs \in Seq(Run) /\ r \in 1..Len(runs)
      BY DEF PageInv, PageTypeOK
    <3>2. /\ runs' \in Seq(Run) /\ Len(runs') = Len(runs) - 1
          /\ \A j \in 1..(Len(runs) - 1) : runs'[j] = runs[j]
      BY <2>1, <2>4, <3>1, Removed
    <3>3. OneInForce'
      <4>1. ASSUME NEW j \in DOMAIN runs' PROVE runs'[j].cancelled
        <5>1. j \in 1..(Len(runs) - 1) /\ j \in DOMAIN runs /\ j # Len(runs)
          BY <3>1, <3>2, <4>1
        <5> QED BY <3>2, <5>1 DEF PageInv, OneInForce
      <4> QED BY <4>1 DEF OneInForce
    <3>4. PageTypeOK'
      BY <1>0, <1>2, <2>1, <2>4, <3>2 DEF PageInv, PageTypeOK
    <3>5. ShownIsEffects'
      BY <1>0, <1>2, <2>1, <2>4 DEF ShownIsEffects
    <3> QED BY <2>2, <3>3, <3>4, <3>5 DEF PageInv
  <2> QED BY <1>2, <2>3, <2>4 DEF Settle, Settling
<1> QED BY <1>1, <1>2 DEF Settle, Settling

\* A block that is restored late is shown only if its run is in force.
LEMMA RestoreKeeps ==
  ASSUME SelectionInv, PageInv, NEW r \in DOMAIN runs, Restore(r)
  PROVE  PageInv'
<1>0. /\ UNCHANGED <<network, ready, picked, effect, netInfo, loading, error, asked, unitAsked>>
      /\ Here' = Here /\ runs[r] \in Run /\ runs' = RemoveAt(runs, r)
  BY StaysKeeps DEF Restore, selectionVars, provider, PageInv, PageTypeOK
<1>1. runs' \in Seq(Run) /\ OneInForce'
  BY <1>0, LeavingKeeps
<1>2. AskedInTime'
  BY <1>0 DEF PageInv, AskedInTime
<1>3. CASE UNCHANGED shown
  BY <1>0, <1>1, <1>2, <1>3 DEF PageInv, PageTypeOK, ShownIsEffects
<1>4. CASE ~ runs[r].cancelled /\ shown' = Block(r, TRUE)
  <2>1. /\ effect = [net |-> runs[r].net, ready |-> TRUE]
        /\ runs[r].page = Here.page /\ ~ error
        /\ runs[r].net \in Nets /\ runs[r].page \in Valid
    BY <1>0, <1>4 DEF PageInv, OneInForce, Run
  <2>2. shown' \in Blocks /\ shown'.net = effect.net /\ shown'.page = Here.page
    <3>1. shown' = [net |-> runs[r].net, page |-> runs[r].page, full |-> TRUE]
      BY <1>4 DEF Block
    <3>2. Valid \subseteq Pages
      BY PageAssumption DEF PageAssumption
    <3> QED BY <2>1, <3>1, <3>2 DEF Blocks
  <2>3. PageTypeOK' /\ ShownIsEffects'
    BY <1>0, <1>1, <2>1, <2>2 DEF PageInv, PageTypeOK, ShownIsEffects
  <2> QED BY <1>1, <1>2, <2>3 DEF PageInv
<1> QED BY <1>3, <1>4 DEF Restore

\* Selection and page keep their invariants together.
LEMMA PageHolds == SelectionAssumption => (PageSpec => []IInv)
<1> SUFFICES ASSUME SelectionAssumption PROVE PageSpec => []IInv
  OBVIOUS
<1>1. PageInit => IInv
  BY PageInits, Inits DEF PageInit, IInv
<1>2. IInv /\ [PageNext]_vars => IInv'
  <2> SUFFICES ASSUME SelectionInv, PageInv, [PageNext]_vars PROVE PageInv'
    BY SelectionKeeps DEF IInv
  <2>1. CASE UNCHANGED vars
    BY <2>1, StaysKeeps DEF vars, pageVars, selectionVars, provider, PageInv, PageTypeOK,
                            AskedInTime, OneInForce, ShownIsEffects
  <2>2. CASE PageNext
    BY <2>2, DocumentKeeps, NavigateKeeps, SwitchKeeps, CommitKeeps, SettleKeeps, RestoreKeeps
       DEF PageNext
  <2> QED BY <2>1, <2>2
<1> QED BY <1>1, <1>2, PTL DEF PageSpec

\* The variables of selection and page keep their types.
THEOREM TypeCorrect == SelectionAssumption => (PageSpec => []TypeOK)
<1> SUFFICES ASSUME SelectionAssumption PROVE PageSpec => []TypeOK
  OBVIOUS
<1>1. IInv => TypeOK
  BY DEF IInv, SelectionInv, PageInv, PageTypeOK, TypeOK, Run
<1> QED BY <1>1, PageHolds, PTL

\* Whatever answers late, the settled page shows the selected block of the selected chain or
\* none, for any pages and any number of switches and navigations (app/block/[height]/page.tsx).
THEOREM ShowsSelection == SelectionAssumption => (PageSpec => []SettledShowsSelection)
<1> SUFFICES ASSUME SelectionAssumption PROVE PageSpec => []SettledShowsSelection
  OBVIOUS
<1>1. IInv => SettledShowsSelection
  BY DEF IInv, PageInv, ShownIsEffects, SettledShowsSelection, Stale, Now
<1> QED BY <1>1, PageHolds, PTL

\* The block is asked of no chain but those that the document resolved or was switched to
\* (page.tsx:32).
THEOREM AskedOfPicked == SelectionAssumption => (PageSpec => []BlockAskedOfPickedChains)
<1> SUFFICES ASSUME SelectionAssumption PROVE PageSpec => []BlockAskedOfPickedChains
  OBVIOUS
<1>1. IInv => BlockAskedOfPickedChains
  BY DEF IInv, PageInv, AskedInTime, BlockAskedOfPickedChains
<1> QED BY <1>1, PageHolds, PTL
=============================================================================
