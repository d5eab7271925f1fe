------------------------------- MODULE Panels -------------------------------
(***************************************************************************)
(* The parts of the pages that load something: by themselves, in an effect *)
(* that runs again when what they depend on changes, or when a form is     *)
(* submitted.  They are written alike and differ in what they do about     *)
(* answers that come late, about failures and about what is on display     *)
(* meanwhile; a behaviour follows the panel that `panel` describes.  The   *)
(* network, the account, the window of blocks and whatever else a load     *)
(* depends on are one value, the query.                                    *)
(***************************************************************************)
EXTENDS Naturals, SequencesExt

CONSTANTS
  Kinds,    \* the panels of interest
  Queries,
  Changes   \* bound: changes of the query, reloads and remounts

ASSUME PanelAssumption == Queries # {} /\ "none" \notin Queries /\ Changes \in Nat

-----------------------------------------------------------------------------
\* What a panel does.  This one loads by itself and cancels nothing; a failed load empties
\* it and shows an error; it is hidden while it loads and behind an error.
Plain ==
  [byItself |-> TRUE,     \* loads in an effect; else a form is submitted
   waits    |-> FALSE,    \* the effect waits for the network to be resolved
   cancels  |-> "no",     \* what the cleanup of the effect stops: "no", "spinner", "all"
   empties  |-> FALSE,    \* what is on display goes when a load starts
   keeps    |-> FALSE,    \* a failed load leaves what is on display
   recovers |-> FALSE,    \* a successful load takes an error away
   tells    |-> {TRUE},   \* whether a failure shows: always, never, or not if it is the connection
   hides    |-> {"loading", "error"},   \* what takes it off the screen
   spins    |-> TRUE,     \* a load by the effect turns the spinner on
   again    |-> "no",     \* loading once more: "no", "button", "tick"
   pages    |-> 1,        \* a list comes in pages
   guarded  |-> TRUE,     \* one "load more" at a time
   parts    |-> 1,        \* answers of a load, each put on display when it comes
   rests    |-> 1]        \* the part with which the spinner goes

AccountTxHistory == Plain
PoolsPanel == Plain
RpcCatalogPanel == [Plain EXCEPT !.again = "button"]
TokensIndexPanel == [Plain EXCEPT !.keeps = TRUE, !.hides = {"error"}, !.again = "button"]
NodeHealthPanel == [Plain EXCEPT !.empties = TRUE, !.recovers = TRUE, !.again = "button"]
QaTransparencyDashboard == [Plain EXCEPT !.recovers = TRUE, !.hides = {}, !.again = "tick"]
NetworkChainContext == [Plain EXCEPT !.spins = FALSE, !.again = "tick"]
BlobAccess == [Plain EXCEPT !.tells = {FALSE}]

Paged == [Plain EXCEPT !.cancels = "spinner", !.keeps = TRUE, !.recovers = TRUE,
                       !.tells = BOOLEAN, !.pages = 3]
DexTokensPanel == Paged
DexRpcPoolsSection == Paged
AccountNftGallery == [Plain EXCEPT !.empties = TRUE, !.keeps = TRUE, !.recovers = TRUE,
                                   !.pages = 3, !.guarded = FALSE]

Cancelling == [Plain EXCEPT !.cancels = "all", !.hides = {}]
LinkedCompanionsSection == [Cancelling EXCEPT !.hides = {"loading", "error"}]
AccountContractHints == [Cancelling EXCEPT !.empties = TRUE]
ContractFunctions == [Cancelling EXCEPT !.empties = TRUE]
TxDescription == [Cancelling EXCEPT !.empties = TRUE]
NodeProtocolInfo == [Cancelling EXCEPT !.waits = TRUE, !.empties = TRUE]
BoingNameTag == [Cancelling EXCEPT !.empties = TRUE, !.tells = {FALSE}]
OffchainImage == [Cancelling EXCEPT !.keeps = TRUE, !.tells = {FALSE}]

Page == [Cancelling EXCEPT !.waits = TRUE]
BlockByHashPage == [Page EXCEPT !.parts = 2]
TxPage == [Page EXCEPT !.empties = TRUE, !.hides = {"loading", "error"}, !.parts = 3, !.rests = 2]
NamePage == [Page EXCEPT !.empties = TRUE, !.parts = 2]
AccountOfPage == [Page EXCEPT !.keeps = TRUE, !.hides = {"loading", "error"}]
ProfileOfPage == Page
NftItemExplorerView == Page

Form == [Plain EXCEPT !.byItself = FALSE, !.empties = TRUE]
QuotePanel == Form
FaucetPage == Form
QaCheckPage == Form
AccountProofPanel == Form
ReadCall == Form

PanelType ==
  [byItself: BOOLEAN, waits: BOOLEAN, cancels: {"no", "spinner", "all"}, empties: BOOLEAN,
   keeps: BOOLEAN, recovers: BOOLEAN, tells: SUBSET BOOLEAN, hides: SUBSET {"loading", "error"},
   spins: BOOLEAN, again: {"no", "button", "tick"}, pages: Nat \ {0}, guarded: BOOLEAN,
   parts: Nat \ {0}, rests: Nat \ {0}]

\* What all of them have in common: a form does not wait, cancel or repeat; what an effect
\* cancels or waits for, a button or a timer does not begin; a list is one fetch a page, and what
\* it had goes or is hidden while it loads anew; what a failure leaves is behind the error.
ASSUME KindsAssumption ==
  \A k \in Kinds :
    /\ k \in PanelType
    /\ k.waits => k.byItself /\ k.again = "no"
    /\ k.cancels # "no" => k.byItself /\ k.spins /\ k.again = "no"
    /\ k.cancels = "all" => k.pages = 1
    /\ k.pages > 1 => /\ k.byItself /\ k.again = "no" /\ k.parts = 1
                      /\ k.empties \/ (k.cancels = "spinner" /\ "loading" \in k.hides)
    /\ k.keeps => k.tells = {FALSE} \/ "error" \in k.hides

-----------------------------------------------------------------------------
VARIABLES
  panel,      \* what this panel does
  query,      \* what the render on display would ask for
  ready,      \* the network is resolved
  seen,       \* query and ready the effect last ran for, NotYet before that
  runs,       \* loads under way, in the order they began
  data,       \* what has been put on display: the pages of a list, or one answer
  next,       \* the page that "load more" would ask for, 0 for none
  loading, loadingMore, error,
  changes,    \* bound: what the user has done so far
  asked,      \* the query of the load begun last (history)
  overlapped, \* loads of two queries were under way at once (history)
  unsaid      \* a load failed since the last one of the whole, and nothing says so (history)

vars == <<panel, query, ready, seen, runs, data, next, loading, loadingMore, error, changes,
          asked, overlapped, unsaid>>

NotYet == [query |-> "none", ready |-> FALSE]
Now == [query |-> query, ready |-> ready]
Piece(r) == [of |-> r.query, page |-> r.page, part |-> r.part]

Fresh ==
  /\ seen' = NotYet /\ runs' = <<>> /\ data' = <<>> /\ next' = 0
  /\ loading' = panel.byItself /\ loadingMore' = FALSE /\ error' = FALSE
  /\ asked' = "none" /\ overlapped' = FALSE /\ unsaid' = FALSE

Init ==
  /\ panel \in Kinds
  /\ query \in Queries /\ ready = FALSE
  /\ seen = NotYet /\ runs = <<>> /\ data = <<>> /\ next = 0
  /\ loading = panel.byItself /\ loadingMore = FALSE /\ error = FALSE
  /\ changes = 0
  /\ asked = "none" /\ overlapped = FALSE /\ unsaid = FALSE

Act == changes < Changes /\ changes' = changes + 1

\* What the cleanup of the effect leaves of the loads it began.
Cancelled(rs) == [i \in DOMAIN rs |-> [rs[i] EXCEPT !.over = TRUE]]

\* An overlap is over with the first load of the whole that begins alone.
Overlap(earlier) == overlapped' = (earlier \/ \E i \in DOMAIN runs : runs[i].query # query)

\* A load of the whole begins.
Load(rs, spin) ==
  /\ runs' = Append(rs, [query |-> query, page |-> 1, part |-> 1, more |-> FALSE, over |-> FALSE])
  /\ loading' = (loading \/ spin) /\ error' = FALSE
  /\ data' = IF panel.empties THEN <<>> ELSE data
  /\ next' = IF panel.empties THEN 0 ELSE next
  /\ asked' = query /\ unsaid' = FALSE
  /\ Overlap(overlapped /\ runs # <<>>)
  /\ UNCHANGED loadingMore

-----------------------------------------------------------------------------
\* The user picks another query: a network, a window, an account, a text in a field.
Change ==
  /\ Act
  /\ query' \in Queries \ {query}
  /\ UNCHANGED <<panel, ready, seen, runs, data, next, loading, loadingMore, error, asked,
                 overlapped, unsaid>>

\* The provider has read the link and the preference.
Resolve ==
  /\ ~ ready
  /\ ready' = TRUE /\ query' \in Queries
  /\ UNCHANGED <<panel, seen, runs, data, next, loading, loadingMore, error, changes, asked,
                 overlapped, unsaid>>

DueForQuery == panel.byItself /\ seen.query # query

\* React runs the effect for what has changed: cleanup first. It has done so before the
\* next click is handled.
Due == panel.byItself /\ (IF panel.waits THEN seen # Now ELSE seen.query # query)

Commit ==
  /\ Due
  /\ seen' = Now
  /\ \/ /\ panel.waits /\ ~ ready
        /\ runs' = Cancelled(runs)
        /\ UNCHANGED <<data, next, loading, loadingMore, error, asked, overlapped, unsaid>>
     \/ /\ ~ panel.waits \/ ready
        /\ Load(Cancelled(runs), panel.spins)
  /\ UNCHANGED <<panel, query, ready, changes>>

\* The form is submitted; its button is off while it loads.
Submit ==
  /\ Act
  /\ ~ panel.byItself /\ ~ loading
  /\ Load(runs, TRUE)
  /\ UNCHANGED <<panel, query, ready, seen>>

\* The refresh button, off while the panel loads, or the interval.
Again ==
  /\ Act
  /\ panel.byItself /\ ~ Due
  /\ \/ panel.again = "button" /\ ~ loading /\ Load(runs, TRUE)
     \/ panel.again = "tick" /\ Load(runs, FALSE)
  /\ UNCHANGED <<panel, query, ready, seen>>

\* What the panel shows of its data.
Visible ==
  IF (loading /\ "loading" \in panel.hides) \/ (error /\ "error" \in panel.hides)
  THEN <<>> ELSE data

LoadMoreAnyTime(guarded) ==
  /\ Act
  /\ ~ Due
  /\ Visible # <<>> /\ next # 0
  /\ guarded => ~ loadingMore
  /\ loadingMore' = panel.guarded
  /\ runs' = Append(runs, [query |-> query, page |-> next, part |-> 1, more |-> TRUE, over |-> FALSE])
  /\ asked' = query /\ Overlap(overlapped)
  /\ UNCHANGED <<panel, query, ready, seen, data, next, loading, error, unsaid>>

LoadMoreTwice == LoadMoreAnyTime(FALSE)

\* The button below a list asks for the page after the last one.
LoadMore == LoadMoreAnyTime(panel.guarded)

-----------------------------------------------------------------------------
DroppedNever(i) == FALSE

\* What a cancelled load brings is dropped where the code looks at `cancelled`.
Dropped(i) == panel.cancels = "all" /\ runs[i].over

Leave(i) == runs' = RemoveAt(runs, i)

\* `finally`: the spinner goes, if the effect that turned it on is still in force where
\* that is asked.
StopSpinner(i) ==
  /\ loading' = (loading /\ (runs[i].more \/ (panel.cancels # "no" /\ runs[i].over)))
  /\ loadingMore' = (loadingMore /\ ~ runs[i].more)

Drop(i) ==
  /\ Dropped(i)
  /\ Leave(i)
  /\ UNCHANGED <<panel, query, ready, seen, data, next, loading, loadingMore, error, changes,
                 asked, overlapped, unsaid>>

\* It brings something, or the news that there is nothing, which need not take an error away.
Succeed(i) ==
  LET r == runs[i] IN
  /\ ~ Dropped(i)
  /\ \/ /\ data' = IF r.more THEN Append(data, Piece(r)) ELSE <<Piece(r)>>
        /\ next' = IF r.page < panel.pages THEN r.page + 1 ELSE 0
        /\ IF r.part < panel.parts
           THEN runs' = [runs EXCEPT ![i].part = @ + 1]
           ELSE Leave(i)
        /\ IF r.part >= panel.rests \/ r.part = panel.parts
           THEN StopSpinner(i) ELSE UNCHANGED <<loading, loadingMore>>
        /\ error' = (error /\ ~ panel.recovers)
     \/ /\ r.part = 1 /\ data' = <<>> /\ next' = 0
        /\ Leave(i) /\ StopSpinner(i)
        /\ error' \in {error, error /\ ~ panel.recovers}
  /\ UNCHANGED <<panel, query, ready, seen, changes, asked, overlapped, unsaid>>

LeavesAsIs(r) == TRUE

\* A failure empties the display, unless it is of a later fetch of a load.
Leaves(r) == panel.keeps \/ r.part > 1

\* It fails, and that is said or not.
Fail(i) ==
  LET r == runs[i] IN
  /\ ~ Dropped(i)
  /\ Leave(i) /\ StopSpinner(i)
  /\ IF Leaves(r)
     THEN UNCHANGED <<data, next>>
     ELSE data' = <<>> /\ next' = 0
  /\ \E told \in IF r.part > panel.rests THEN {FALSE} ELSE panel.tells :
        error' = (error \/ told) /\ unsaid' = (unsaid \/ ~ told)
  /\ UNCHANGED <<panel, query, ready, seen, changes, asked, overlapped>>

\* The panel is taken down and mounted anew; nothing hears what it had under way.
Remount ==
  /\ Act
  /\ Fresh
  /\ UNCHANGED <<panel, query, ready>>

Next ==
  \/ Change \/ Resolve \/ Commit \/ Submit \/ Again \/ LoadMore \/ Remount
  \/ \E i \in DOMAIN runs : Drop(i)
  \/ \E i \in DOMAIN runs : Succeed(i)
  \/ \E i \in DOMAIN runs : Fail(i)

\* React runs its effects, the provider resolves, every fetch answers or fails.
Fairness ==
  /\ WF_vars(Resolve)
  /\ WF_vars(Commit)
  /\ WF_vars(\E i \in DOMAIN runs : Drop(i) \/ Succeed(i) \/ Fail(i))

Spec == Init /\ [][Next]_vars /\ Fairness

-----------------------------------------------------------------------------
\* Types of the variables.
TypeOK ==
  /\ panel \in Kinds /\ query \in Queries /\ ready \in BOOLEAN
  /\ seen \in [query: Queries, ready: BOOLEAN] \cup {NotYet}
  /\ runs \in Seq([query: Queries, page: 1..panel.pages, part: 1..panel.parts,
                   more: BOOLEAN, over: BOOLEAN])
  /\ data \in Seq([of: Queries, page: 1..panel.pages, part: 1..panel.parts])
  /\ next \in 0..panel.pages
  /\ loading \in BOOLEAN /\ loadingMore \in BOOLEAN /\ error \in BOOLEAN
  /\ changes \in 0..Changes
  /\ asked \in Queries \cup {"none"} /\ overlapped \in BOOLEAN /\ unsaid \in BOOLEAN

\* A view whose effect drops what it cancelled shows, once it rests, the query on the
\* screen and no other, whatever came late.
SettledShowsQuery ==
  (panel.cancels = "all" /\ seen = Now /\ ~ loading /\ ~ unsaid) =>
    \A d \in DOMAIN Visible : Visible[d].of = query

\* A panel that cancels nothing shows, when everything has answered, another query than it
\* last asked for only if loads overlapped, or a connection broke that it keeps quiet about.
StaleOnlyAfterOverlap ==
  (runs = <<>> /\ ~ overlapped /\ ~ unsaid) =>
    \A d \in DOMAIN Visible : Visible[d].of = asked

\* A list with one "load more" at a time never holds a page twice, even if its loads
\* overlap and mix.
NoPageTwice ==
  panel.guarded =>
    \A c, d \in DOMAIN data : (data[c].of = data[d].of /\ data[c].page = data[d].page) => c = d

\* The spinner goes once the user leaves the panel alone, though a cancelled load does not
\* take it away.
PanelComesToRest == <>[](~ loading /\ ~ loadingMore)
=============================================================================
