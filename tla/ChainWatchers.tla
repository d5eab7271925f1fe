---------------------------- MODULE ChainWatchers ----------------------------
(***************************************************************************)
(* The widgets that keep asking a chain while the tab is open, below the   *)
(* provider of NetworkSelection: the "RPC unreachable" banner              *)
(* (src/src/components/network-status-banner.tsx), the idle-chain notice   *)
(* (src/src/components/chain-idle-notice.tsx) and the shared block window  *)
(* of the home page (src/src/context/home-chain-data.tsx).  Each checks    *)
(* when it is mounted, when the network changes and at an interval while   *)
(* the tab is visible; none of them cancels a check under way, and none    *)
(* waits for the provider to be ready.  They do not influence each other:  *)
(* a behaviour follows the one that `who` names.                           *)
(***************************************************************************)
EXTENDS NetworkSelection

CONSTANTS
  Watchers,  \* the widgets of interest, among "banner", "idle" and "home"
  Slots      \* bound: checks of a widget under way at the same time

ASSUME WatcherAssumption == Watchers # {} /\ Slots \in Nat \ {0}

VARIABLES
  who,      \* the widget
  effect,   \* the network its effect last ran for, None before it is mounted
  closure,  \* the network of the callback it was first mounted with
  checks,   \* checks[s]: a check under way, Free when there is none
  display,  \* what it shows, and of which network
  error,    \* home only: an error is shown beside the data
  loading   \* home only

watcherVars == <<who, effect, closure, checks, display, error, loading>>
vars == <<selectionVars, watcherVars>>

Free == [net |-> None]
Checks == [net: Nets, refresh: BOOLEAN]
Nothing == [what |-> "nothing", net |-> None]
Displays == [what: {"up", "down", "tip", "blocks"}, net: Nets] \cup {Nothing}

FreeSlots == {s \in 1..Slots : checks[s] = Free}
FirstFree == CHOOSE s \in FreeSlots : \A t \in FreeSlots : s <= t

Fresh ==
  /\ effect' = None /\ closure' = None
  /\ checks' = [s \in 1..Slots |-> Free]
  /\ display' = Nothing /\ error' = FALSE /\ loading' = TRUE

WatchInit ==
  /\ Init
  /\ who \in Watchers
  /\ effect = None /\ closure = None
  /\ checks = [s \in 1..Slots |-> Free]
  /\ display = Nothing /\ error = FALSE /\ loading = TRUE

-----------------------------------------------------------------------------
\* check() / load(isRefresh), up to its first await.  The idle notice asks nothing of a
\* chain other than the testnet and shows nothing there.
Check(n, refresh) ==
  \/ /\ who = "idle" /\ n # "testnet"
     /\ display' = Nothing
     /\ UNCHANGED <<checks, error, loading>>
  \/ /\ who # "idle" \/ n = "testnet"
     /\ checks' = [checks EXCEPT ![FirstFree] = [net |-> n, refresh |-> refresh]]
     /\ error' = IF who = "home" THEN FALSE ELSE error
     /\ loading' = IF who = "home" /\ ~ refresh THEN TRUE ELSE loading
     /\ UNCHANGED display

\* The effect of the widget runs: it is mounted, or the network has changed.
Commit ==
  /\ effect # network
  /\ FreeSlots # {}
  /\ effect' = network
  /\ closure' = IF closure = None THEN network ELSE closure
  /\ Check(network, FALSE)
  /\ UNCHANGED <<selectionVars, who>>

\* useVisibleInterval, at its interval or when the tab becomes visible: it calls the
\* callback of the latest render.
TickFirstCallback ==
  /\ effect # None
  /\ Slots - 1 \in FreeSlots /\ Slots \in FreeSlots
  /\ Check(closure, TRUE)
  /\ UNCHANGED <<selectionVars, who, effect, closure>>

Tick ==
  /\ effect # None
  /\ Slots - 1 \in FreeSlots /\ Slots \in FreeSlots    \* bound: room for a Commit
  /\ Check(effect, TRUE)
  /\ UNCHANGED <<selectionVars, who, effect, closure>>

Over(s) == checks' = [checks EXCEPT ![s] = Free]

\* The node answers the check in slot s.
Succeed(s) ==
  /\ checks[s] # Free
  /\ Over(s)
  /\ display' = [what |-> CASE who = "banner" -> "up" [] who = "idle" -> "tip"
                            [] who = "home" -> "blocks",
                 net |-> checks[s].net]
  /\ loading' = FALSE
  /\ UNCHANGED <<selectionVars, who, effect, closure, error>>

\* The check fails: the banner tells whether the node is unreachable, the notice
\* disappears, and the home page keeps its data if this was a refresh.
Failed(s) ==
  /\ checks[s] # Free
  /\ Over(s)
  /\ \/ /\ who = "banner"
        /\ \E v \in {"up", "down"} : display' = [what |-> v, net |-> checks[s].net]
        /\ UNCHANGED error
     \/ who = "idle" /\ display' = Nothing /\ UNCHANGED error
     \/ /\ who = "home"
        /\ display' = IF checks[s].refresh THEN display ELSE Nothing
        /\ error' = TRUE
  /\ UNCHANGED <<selectionVars, who, effect, closure>>

FailLeavingSpinner(s) == Failed(s) /\ UNCHANGED loading

\* Its `finally` runs in either case.
Fail(s) == Failed(s) /\ loading' = FALSE

-----------------------------------------------------------------------------
\* Widgets of the layout are mounted with the document and survive navigation.
Move ==
  \/ /\ Reload \/ \E e \in Entries : Open(e)
     /\ Fresh /\ UNCHANGED who
  \/ /\ \/ effect # None /\ Resolve
        \/ \E n \in Nets : Choose(n)
     /\ UNCHANGED watcherVars

WatchNext ==
  \/ Move
  \/ Commit
  \/ Tick
  \/ \E s \in 1..Slots : Succeed(s)
  \/ \E s \in 1..Slots : Fail(s)

\* React flushes its effects, the interval goes on (the tab is looked at again and
\* again), every check is answered or fails, and the selected node is not down forever.
Fairness ==
  /\ WF_vars(effect # None /\ Resolve /\ UNCHANGED watcherVars)
  /\ WF_vars(Commit)
  /\ WF_vars(Tick)
  /\ \A s \in 1..Slots : WF_vars(Succeed(s) \/ Fail(s))
  /\ SF_vars(\E s \in 1..Slots : checks[s].net = network /\ Succeed(s))

WatchSpec == WatchInit /\ [][WatchNext]_vars /\ Fairness

-----------------------------------------------------------------------------
\* Types of the variables.
TypeOK ==
  /\ SelectionTypeOK
  /\ who \in Watchers
  /\ effect \in Nets \cup {None} /\ closure \in Nets \cup {None}
  /\ checks \in [1..Slots -> Checks \cup {Free}]
  /\ display \in Displays
  /\ error \in BOOLEAN /\ loading \in BOOLEAN

\* Checks of an earlier network answer late and are shown, but not for good: once the
\* user leaves the selection alone, what is shown is of the selected chain, and stays so.
DisplayConverges ==
  <>[](display.net = network \/ (who = "idle" /\ display = Nothing))

\* The spinner of the home page does not outlast the checks under way.
LoadingMeansChecking ==
  (who = "home" /\ loading /\ effect # None) => \E s \in 1..Slots : checks[s] # Free

\* chain-idle-notice.tsx:25: the notice "says nothing about mainnet".
SilentOnMainnet ==
  (who = "idle" /\ ready /\ effect = network /\ network = "mainnet") => display = Nothing

=============================================================================
