------------------------------- MODULE QaVote -------------------------------
(***************************************************************************)
(* Voting on a deployment that the QA pool holds: who is signed in as a    *)
(* reviewer, what a click on a vote asks of the wallet and of the vote     *)
(* route, and what leaves them.  The wallet is an extension, which has an  *)
(* account and a chain that its user changes at any time, or the web       *)
(* wallet, a window of its own that the page opens, watches and gives up   *)
(* on.                                                                     *)
(***************************************************************************)
EXTENDS Naturals, Sequences

CONSTANTS
  Accounts,
  Networks,
  Acts      \* bound: things done by the user, on the page or in the wallet

ASSUME VoteAssumption ==
  Accounts # {} /\ Networks # {} /\ Acts \in Nat /\ Accounts \cap {"none", "no", "asked"} = {}

VARIABLES
  extension,  \* the wallet is the injected one
  wallet,     \* its account, "none" while it is locked, and its chain
  network,    \* of the page
  session,    \* who is signed in, and how
  stored,     \* the same, in the session storage of the tab
  reading,    \* accounts a mount or a connection waits for: "no", "asked", or what came
  stage,      \* of the vote under way: "idle", "chain", "send", "sign", "post"
  asks,       \* what wallet and vote route have been asked and have not dealt with
  mail,       \* their answers on the way to the page
  said,       \* what the buttons say: "", "note", "error"
  out,        \* the votes that have left the wallet or the route
  acts,       \* bound
  clicked,    \* the votes clicked so far (history)
  typed,      \* the accounts signed in by hand (history)
  refused,    \* the clicks the user refused to send (history)
  touched,    \* the clicks during which the wallet was given another account or chain (history)
  swapped     \* its account changed while an earlier one was being applied (history)

signVars == <<session, stored, reading, typed, swapped>>
castVars == <<stage, asks, mail, said, out, clicked, refused>>
vars == <<extension, wallet, network, acts, touched, signVars, castVars>>

Nobody == [voter |-> "none", source |-> "none"]
Click == Len(clicked)
This == clicked[Click]

Init ==
  /\ extension \in BOOLEAN
  /\ wallet \in [account: Accounts \cup {"none"}, chain: Networks]
  /\ network \in Networks
  /\ session = Nobody /\ stored = Nobody /\ reading = "asked"
  /\ stage = "idle" /\ asks = {} /\ mail = {} /\ said = "" /\ out = {}
  /\ acts = 0 /\ clicked = <<>> /\ typed = {} /\ refused = {} /\ touched = {} /\ swapped = FALSE

Act == acts < Acts /\ acts' = acts + 1
Touch == touched' = touched \cup (1..Click)

-----------------------------------------------------------------------------
\* Signing in and out also writes or clears the storage.
Enter(s) == session' = s /\ stored' = s

ApplyUnlessLocked(account) ==
  IF account = "none" THEN UNCHANGED <<session, stored>>
  ELSE Enter([voter |-> account, source |-> "wallet"])

\* The account of the wallet is signed in; without one whoever it is is signed out.
Apply(account) ==
  Enter(IF account = "none" THEN Nobody ELSE [voter |-> account, source |-> "wallet"])

RestoresAnyone(s) == s # Nobody

\* The stored voter that a mount brings back if it finds no account: never one a wallet gave.
Restores(s) == s.source = "manual"

Restore ==
  session' = IF Restores(stored) THEN [voter |-> stored.voter, source |-> "manual"] ELSE session

\* The mount asks an extension for its accounts; without one it restores at once.
ReadAccounts ==
  /\ reading = "asked"
  /\ IF extension
     THEN reading' = wallet.account /\ UNCHANGED session
     ELSE reading' = "no" /\ Restore
  /\ UNCHANGED <<extension, wallet, network, acts, touched, stored, typed, swapped, castVars>>

\* The accounts are applied when the chain id is there too.
AccountsRead ==
  /\ reading \notin {"no", "asked"}
  /\ reading' = "no"
  /\ IF reading = "none" THEN Restore /\ UNCHANGED stored ELSE Apply(reading)
  /\ UNCHANGED <<extension, wallet, network, acts, touched, typed, swapped, castVars>>

\* The user picks another account in the wallet or locks it, and an extension says so.
WalletAccount ==
  /\ Act /\ Touch
  /\ \E a \in (Accounts \cup {"none"}) \ {wallet.account} :
       /\ wallet' = [wallet EXCEPT !.account = a]
       /\ IF extension THEN Apply(a) ELSE UNCHANGED <<session, stored>>
  /\ swapped' = (reading \notin {"no", "asked"})
  /\ UNCHANGED <<extension, network, reading, typed, castVars>>

WalletChain ==
  /\ extension
  /\ Act /\ Touch
  /\ \E c \in Networks \ {wallet.chain} : wallet' = [wallet EXCEPT !.chain = c]
  /\ UNCHANGED <<extension, network, signVars, castVars>>

\* An account id is typed into the form for unsigned votes.
SignIn ==
  /\ Act
  /\ \E a \in Accounts :
       Enter([voter |-> a, source |-> "manual"]) /\ typed' = typed \cup {a}
  /\ UNCHANGED <<extension, wallet, network, touched, reading, swapped, castVars>>

SignOut ==
  /\ Act
  /\ Enter(Nobody)
  /\ UNCHANGED <<extension, wallet, network, touched, reading, typed, swapped, castVars>>

\* The wallet gives its account and is moved to the page's chain; then the account is applied.
Connect ==
  /\ Act /\ Touch
  /\ reading = "no" /\ wallet.account # "none"
  /\ reading' = wallet.account
  /\ wallet' = [wallet EXCEPT !.chain = network]
  /\ UNCHANGED <<extension, network, session, stored, typed, swapped, castVars>>

SwitchNetwork ==
  /\ Act
  /\ network' \in Networks \ {network}
  /\ UNCHANGED <<extension, wallet, touched, signVars, castVars>>

\* The page is loaded anew: the storage stays, and what is out of the page's hands.
Reload ==
  /\ Act
  /\ session' = Nobody /\ reading' = "asked" /\ swapped' = FALSE
  /\ stage' = "idle" /\ said' = ""
  /\ UNCHANGED <<extension, wallet, network, touched, stored, typed, asks, mail, out, clicked,
                 refused>>

-----------------------------------------------------------------------------
\* One more question to the wallet or the route, on behalf of the vote under way.
Ask(kind, signer) ==
  /\ stage' = kind
  /\ asks' = asks \cup {[click |-> Click', kind |-> kind, signer |-> signer,
                         net |-> clicked'[Click'].net]}
Ends(what) == stage' = "idle" /\ said' = what /\ UNCHANGED asks

\* A vote is clicked while none is under way.
Cast ==
  /\ Act
  /\ session # Nobody /\ stage = "idle"
  /\ clicked' = Append(clicked, [voter |-> session.voter, net |-> network,
                                 viaWallet |-> session.source = "wallet"])
  /\ said' = ""
  /\ IF session.source = "wallet"
     THEN /\ stage' = "chain" /\ UNCHANGED asks
          /\ touched' = touched \cup (IF wallet.account = session.voter THEN {} ELSE {Click + 1})
     ELSE Ask("post", session.voter) /\ UNCHANGED touched
  /\ UNCHANGED <<extension, wallet, network, signVars, mail, out, refused>>

ChainAsItIs(net) == wallet.chain

\* Where the wallet is when it is asked to send.
ChainFor(net) == net

\* It is moved there first, which the user of an extension may refuse.
OnChain ==
  /\ stage = "chain"
  /\ \/ /\ wallet' = [wallet EXCEPT !.chain = ChainFor(This.net)]
        /\ touched' = touched \cup (IF wallet' = wallet THEN {} ELSE 1..(Click - 1))
        /\ UNCHANGED clicked /\ Ask("send", "none")
        /\ UNCHANGED <<said, refused>>
     \/ /\ extension /\ wallet.chain # This.net
        /\ Ends("error") /\ refused' = refused \cup {Click}
        /\ UNCHANGED <<wallet, touched, clicked>>
  /\ UNCHANGED <<extension, network, acts, signVars, mail, out>>

\* The one asked deals with it, and an answer sets out.
Answers(a, what) ==
  /\ asks' = asks \ {a}
  /\ mail' = mail \cup {[click |-> a.click, kind |-> a.kind, what |-> what,
                         signer |-> IF a.kind = "post" THEN a.signer ELSE wallet.account]}
Goes(a, account, net) == out' = out \cup {[click |-> a.click, account |-> account, net |-> net]}

\* The user approves.  A transaction may be sent and the answer still be an error; so it may
\* without having been sent.
Approve(a) ==
  /\ a.kind \in {"send", "sign"} /\ wallet.account # "none"
  /\ \/ /\ a.kind = "send"
        /\ Goes(a, wallet.account, IF extension THEN wallet.chain ELSE a.net)
        /\ \E what \in {"ok", "failed"} : Answers(a, what)
     \/ a.kind = "sign" /\ Answers(a, "ok") /\ UNCHANGED out
     \/ \E what \in {"failed", "unsupported"} : Answers(a, what) /\ UNCHANGED out
  /\ UNCHANGED <<extension, wallet, network, acts, touched, signVars, stage, said, clicked, refused>>

\* The user refuses, or closes the window of the web wallet, which answers nothing then.
Refuse(a) ==
  /\ a.kind \in {"send", "sign"}
  /\ refused' = IF a.kind = "send" THEN refused \cup {a.click} ELSE refused
  /\ \/ Answers(a, "refused")
     \/ ~ extension /\ asks' = asks \ {a} /\ UNCHANGED mail
  /\ UNCHANGED <<extension, wallet, network, acts, touched, signVars, stage, said, out, clicked>>

\* The vote route asks one node, once; a time-out does not tell whether the vote was counted.
Route(a) ==
  /\ a.kind = "post"
  /\ \/ Goes(a, a.signer, a.net) /\ \E what \in {"ok", "failed"} : Answers(a, what)
     \/ Answers(a, "failed") /\ UNCHANGED out
  /\ UNCHANGED <<extension, wallet, network, acts, touched, signVars, stage, said, clicked, refused>>

ExpectedIfOpen(m) == m.kind = stage

\* An answer is for the question the page waits on, by its id.
Expected(m) == m.click = Click /\ m.kind = stage

FinalNever(what) == FALSE

\* Errors of the wallet after which it is not asked to sign instead.
Final(what) == what \in {"refused", "unsupported"}

Hear(m) ==
  /\ mail' = mail \ {m}
  /\ UNCHANGED clicked
  /\ IF ~ Expected(m) THEN UNCHANGED <<stage, asks, said>>
     ELSE IF m.what = "ok" /\ m.kind \in {"send", "post"} THEN Ends("note")
     ELSE IF m.what = "ok" THEN Ask("post", m.signer) /\ UNCHANGED said
     ELSE IF m.kind = "send" /\ ~ Final(m.what) THEN Ask("sign", "none") /\ UNCHANGED said
     ELSE Ends("error")
  /\ UNCHANGED <<extension, wallet, network, acts, touched, signVars, out, refused>>

GoneIfClosed == {a \in asks : a.click = Click /\ a.kind = stage} = {}

\* The window of the web wallet is seen to be closed, or its time is up and it is closed.
Gone == TRUE

GiveUp ==
  /\ ~ extension /\ stage \in {"send", "sign"}
  /\ Gone
  /\ stage' = "idle" /\ said' = "error"
  /\ asks' = {a \in asks : a.click # Click}
  /\ UNCHANGED <<extension, wallet, network, acts, touched, signVars, mail, out, clicked, refused>>

Next ==
  \/ ReadAccounts \/ AccountsRead \/ WalletAccount \/ WalletChain \/ SignIn \/ SignOut \/ Connect
  \/ SwitchNetwork \/ Reload \/ Cast \/ OnChain \/ GiveUp
  \/ \E a \in asks : Approve(a)
  \/ \E a \in asks : Refuse(a)
  \/ \E a \in asks : Route(a)
  \/ \E m \in mail : Hear(m)

\* Promises settle, the route answers within its time-out, the timer of a window runs out.
\* Nothing makes the user of an extension answer it.
Fairness ==
  /\ WF_vars(ReadAccounts) /\ WF_vars(AccountsRead)
  /\ WF_vars(~ extension /\ OnChain)
  /\ WF_vars(GiveUp)
  /\ WF_vars(\E a \in asks : Route(a))
  /\ WF_vars(\E m \in mail : Hear(m))

Spec == Init /\ [][Next]_vars /\ Fairness

-----------------------------------------------------------------------------
\* Types of the variables.
Session == {Nobody} \cup [voter: Accounts, source: {"wallet", "manual"}]
TypeOK ==
  /\ extension \in BOOLEAN
  /\ wallet \in [account: Accounts \cup {"none"}, chain: Networks]
  /\ network \in Networks /\ session \in Session /\ stored \in Session
  /\ reading \in {"no", "asked", "none"} \cup Accounts
  /\ stage \in {"idle", "chain", "send", "sign", "post"}
  /\ \A a \in asks : a.click \in 1..Click /\ a.kind \in {"send", "sign", "post"}
  /\ \A m \in mail : m.click \in 1..Click /\ m.what \in {"ok", "failed", "refused", "unsupported"}
  /\ said \in {"", "note", "error"}
  /\ out \subseteq [click: 1..Click, account: Accounts, net: Networks]
  /\ acts \in 0..Acts /\ typed \subseteq Accounts
  /\ refused \subseteq 1..Click /\ touched \subseteq 1..Click /\ swapped \in BOOLEAN

\* A vote goes to the network of the page it was clicked on and is cast by the account signed
\* in there, whatever the page does meanwhile, unless the wallet was changed during it.  Who
\* votes in the window of the web wallet is up to that.
VoteOfTheClick ==
  \A v \in out :
    LET c == clicked[v.click] IN
    v.click \notin touched =>
      v.net = c.net /\ ((~ extension /\ c.viaWallet) \/ v.account = c.voter)

\* What the page says is so: a vote that the user refused in the wallet is not cast by asking in
\* another way, and the page thanks only for a vote that is cast, not for a late answer to another.
OutcomeIsTrue ==
  /\ \A v \in out : v.click \notin refused
  /\ said = "note" => \E v \in out : v.click = Click

\* Someone signed in by the wallet is the wallet's account, unless it changed while an earlier one
\* was being applied; and unsigned votes are only for an account that was typed in, as one that
\* the wallet gave does not come back after a reload as if it had been.
SessionIsTrue ==
  /\ (extension /\ ~ swapped /\ session.source = "wallet") => session.voter = wallet.account
  /\ session.source = "manual" => session.voter \in typed

\* A vote that no extension holds up ends: the buttons work again.
CastEnds == (stage # "idle" /\ (~ extension \/ ~ This.viaWallet)) ~> (stage = "idle")
=============================================================================
