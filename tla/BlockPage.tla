------------------------------ MODULE BlockPage ------------------------------
(***************************************************************************)
(* A tab on block pages: src/src/app/block/[height]/page.tsx below the     *)
(* provider of NetworkSelection.  The page fetches in an effect that React *)
(* runs again, after cleaning up, whenever the network or ready changed; a *)
(* state update and the commit that runs the effects for it are separate   *)
(* steps, and fetches answer between them and in any order.  A different   *)
(* height is a different dynamic segment: the page is mounted anew.        *)
(***************************************************************************)
EXTENDS NetworkSelection, SequencesExt

CONSTANT Valid   \* pages whose height parses (the others show "Invalid block height")

ASSUME PageAssumption == Valid \subseteq Pages

VARIABLES
  effect,     \* network and ready the effects last ran for, NotMounted before that
  runs,       \* runs of the data effect that still await something, in order
  shown,      \* block: the block on display
  netInfo,    \* netInfo: the network it describes
  loading,
  error,
  asked,      \* networks the data effect queried in this document (history)
  unitAsked   \* networks useNativeUnitConfig queried in this document (history)

pageVars == <<effect, runs, shown, netInfo, loading, error, asked, unitAsked>>
vars == <<selectionVars, pageVars>>

NotMounted == [net |-> None, ready |-> FALSE]
NoBlock == [net |-> None]
Blocks == [net: Nets, page: Pages, full: BOOLEAN]

Now == [net |-> network, ready |-> ready]

Fresh ==
  /\ effect' = NotMounted
  /\ shown' = NoBlock /\ netInfo' = None
  /\ loading' = TRUE /\ error' = FALSE

PageInit ==
  /\ Init
  /\ effect = NotMounted
  /\ runs = <<>>
  /\ shown = NoBlock /\ netInfo = None
  /\ loading = TRUE /\ error = FALSE
  /\ asked = {} /\ unitAsked = {}

-----------------------------------------------------------------------------
\* The cleanup of the effect: `cancelled = true`.
Cancelled(rs) == [r \in DOMAIN rs |-> [rs[r] EXCEPT !.cancelled = TRUE]]

\* The effects are due when what they depend on has changed; the data effect fetches
\* only when the provider is ready.
StaleNetwork == effect.net # network
Stale == effect # Now

QueryBeforeReady == TRUE
QueryAllowed == ready

\* React commits the change: the effects run again.
Commit ==
  /\ Stale
  /\ effect' = Now
  /\ unitAsked' = IF effect.net = network THEN unitAsked ELSE unitAsked \cup {network}
  /\ \/ /\ Here.page \notin Valid
        /\ runs' = Cancelled(runs)
        /\ loading' = FALSE /\ error' = TRUE
        /\ UNCHANGED asked
     \/ /\ Here.page \in Valid /\ QueryAllowed
        /\ runs' = Append(Cancelled(runs), [net |-> network, page |-> Here.page,
                                            stage |-> "fetching", cancelled |-> FALSE])
        /\ loading' = TRUE /\ error' = FALSE
        /\ asked' = asked \cup {network}
     \/ /\ Here.page \in Valid /\ ~ QueryAllowed
        /\ runs' = Cancelled(runs)
        /\ UNCHANGED <<loading, error, asked>>
  /\ UNCHANGED <<selectionVars, shown, netInfo>>

Block(r, full) == [net |-> runs[r].net, page |-> runs[r].page, full |-> full]

\* Both fetches of run r have settled.  Whatever became of the network info, a block, its
\* absence or an error goes on display, unless the run was cancelled.
Settling(r, isCurrent) ==
  /\ runs[r].stage = "fetching"
  /\ \/ /\ ~ isCurrent
        /\ runs' = RemoveAt(runs, r)
        /\ UNCHANGED <<shown, netInfo, loading, error>>
     \/ /\ isCurrent
        /\ loading' = FALSE
        /\ netInfo' \in {None, runs[r].net}
        /\ \/ /\ runs' = [runs EXCEPT ![r].stage = "restoring"]
              /\ shown' = Block(r, FALSE) /\ UNCHANGED error
           \/ /\ runs' = RemoveAt(runs, r)
              /\ shown' = NoBlock /\ error' \in {error, TRUE}
  /\ UNCHANGED <<selectionVars, effect, asked, unitAsked>>

SettleUnchecked(r) == Settling(r, TRUE)

Settle(r) == Settling(r, ~ runs[r].cancelled)

\* restoreBlockCalldata of run r is over, with calldata put back or without.
Restore(r) ==
  /\ runs[r].stage = "restoring"
  /\ runs' = RemoveAt(runs, r)
  /\ \/ UNCHANGED shown
     \/ ~ runs[r].cancelled /\ shown' = Block(r, TRUE)
  /\ UNCHANGED <<selectionVars, effect, netInfo, loading, error, asked, unitAsked>>

-----------------------------------------------------------------------------
\* A new document: what the old one had under way is gone.
NewDocument ==
  /\ Reload \/ \E e \in Entries : Open(e)
  /\ Fresh
  /\ runs' = <<>> /\ asked' = {} /\ unitAsked' = {}

\* Navigation within the document: another height unmounts the page and mounts a new one.
Navigate ==
  /\ \/ \E p \in Pages, q \in Params : Follow(p, q)
     \/ \E i \in DOMAIN history : Go(i)
  /\ \/ /\ history'[at'].page = Here.page
        /\ UNCHANGED pageVars
     \/ /\ history'[at'].page # Here.page
        /\ Fresh
        /\ runs' = Cancelled(runs)
        /\ UNCHANGED <<asked, unitAsked>>

\* The provider sits above the page: its mount effect runs after the page's.
Switch ==
  /\ \/ effect # NotMounted /\ Resolve
     \/ \E n \in Nets : Choose(n)
     \/ \E n \in Nets : OtherTab(n)
  /\ UNCHANGED pageVars

PageNext ==
  \/ NewDocument
  \/ Navigate
  \/ Switch
  \/ Commit
  \/ \E r \in DOMAIN runs : Settle(r)
  \/ \E r \in DOMAIN runs : Restore(r)

\* React flushes pending effects and the provider's mount effect; every fetch settles.
Fairness ==
  /\ WF_vars(Commit)
  /\ WF_vars(effect # NotMounted /\ Resolve /\ UNCHANGED pageVars)
  /\ WF_vars(\E r \in DOMAIN runs : Settle(r))

PageSpec == PageInit /\ [][PageNext]_vars /\ Fairness

-----------------------------------------------------------------------------
\* Types of the variables.
TypeOK ==
  /\ SelectionTypeOK
  /\ effect \in [net: Nets, ready: BOOLEAN] \cup {NotMounted}
  /\ runs \in Seq([net: Nets, page: Valid, stage: {"fetching", "restoring"},
                   cancelled: BOOLEAN])
  /\ shown \in Blocks \cup {NoBlock}
  /\ netInfo \in Nets \cup {None}
  /\ loading \in BOOLEAN /\ error \in BOOLEAN
  /\ asked \subseteq Nets /\ unitAsked \subseteq Nets

\* Once the page has settled on the selection, it shows that block of that chain or
\* none, with that chain's info, however many older fetches are still to answer.
SettledShowsSelection ==
  (~ Stale /\ ready /\ ~ loading /\ Here.page \in Valid) =>
    /\ shown # NoBlock => (shown.net = network /\ shown.page = Here.page)
    /\ netInfo \in {None, network}
    /\ error => shown = NoBlock

\* The block itself is only ever asked of a chain the document resolved or was switched
\* to, never of the testnet the provider starts from (page.tsx:32).
BlockAskedOfPickedChains == asked \subseteq picked

\* README.md:109: "Data effects wait for the resolved network (ready), so a deep link
\* never queries the wrong chain first."
DeepLinkAsksOnlyItsChain == asked \cup unitAsked \subseteq picked

\* The page never loads forever: once it knows the network, it comes to rest.
PageComesToRest == ready ~> ~ loading

=============================================================================
