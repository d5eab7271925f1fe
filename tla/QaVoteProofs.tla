----------------------------- MODULE QaVoteProofs -----------------------------
(***************************************************************************)
(* QaVote for any accounts, any networks and any number of things that the *)
(* users of page and wallet do.                                            *)
(***************************************************************************)
EXTENDS QaVote, TLAPS

Votes == [voter: Accounts, net: Networks, viaWallet: BOOLEAN]
AskType == [click: 1..Click, kind: {"send", "sign", "post"}, signer: Accounts \cup {"none"},
            net: Networks]
MailType == [click: 1..Click, kind: {"send", "sign", "post"}, signer: Accounts \cup {"none"},
             what: {"ok", "failed", "refused", "unsupported"}]

\* Only an account, once signed, is handed on to the route.
Types ==
  /\ TypeOK
  /\ clicked \in Seq(Votes)
  /\ asks \subseteq AskType /\ mail \subseteq MailType
  /\ \A a \in asks : a.kind = "post" => a.signer \in Accounts
  /\ \A m \in mail : m.kind = "sign" /\ m.what = "ok" => m.signer \in Accounts
  /\ stage # "idle" => Click >= 1

-----------------------------------------------------------------------------
\* Who is signed in.

\* What is being applied is the wallet's account, unless that changed since.
ReadingIsCurrent ==
  extension /\ ~ swapped /\ reading \notin {"no", "asked"} => reading = wallet.account

StoredByHand == stored.source = "manual" => stored.voter \in typed

SessionInv == ReadingIsCurrent /\ StoredByHand /\ SessionIsTrue

\* The session of the reviewer is consistent at first.
LEMMA SessionInits == Init => SessionInv
<1> SUFFICES ASSUME Init PROVE SessionInv
  OBVIOUS
<1>1. session.source = "none" /\ stored.source = "none" /\ reading = "asked"
  BY DEF Init, Nobody
<1> QED BY <1>1 DEF SessionInv, ReadingIsCurrent, StoredByHand, SessionIsTrue

\* A vote under way leaves the session alone; it changes the wallet's chain at most.
LEMMA CastingKeeps ==
  ASSUME SessionInv, UNCHANGED signVars, UNCHANGED extension, wallet'.account = wallet.account
  PROVE  SessionInv'
BY DEF SessionInv, ReadingIsCurrent, StoredByHand, SessionIsTrue, signVars

\* Every step keeps the session consistent.
LEMMA SessionKeeps ==
  ASSUME Types, SessionInv, [Next]_vars
  PROVE  SessionInv'
<1>1. CASE ReadAccounts
  BY <1>1 DEF ReadAccounts, Restore, Restores, Types, TypeOK, Session, Nobody,
              SessionInv, ReadingIsCurrent, StoredByHand, SessionIsTrue
<1>2. CASE AccountsRead
  <2>1. CASE reading = "none"
    BY <1>2, <2>1 DEF AccountsRead, Restore, Restores, Types, TypeOK, Session, Nobody,
                      SessionInv, ReadingIsCurrent, StoredByHand, SessionIsTrue
  <2>2. CASE reading # "none"
    <3>1. /\ session'.source = "wallet" /\ stored'.source = "wallet" /\ session'.voter = reading
          /\ reading' = "no" /\ UNCHANGED <<extension, wallet, swapped>>
      BY <1>2, <2>2 DEF AccountsRead, Apply, Enter
    <3>2. extension /\ ~ swapped => reading = wallet.account
      BY <1>2 DEF AccountsRead, SessionInv, ReadingIsCurrent
    <3> QED BY <3>1, <3>2 DEF SessionInv, ReadingIsCurrent, StoredByHand, SessionIsTrue
  <2> QED BY <2>1, <2>2
<1>3. CASE WalletAccount
  <2>1. PICK a \in Accounts \cup {"none"} :
          /\ wallet' = [wallet EXCEPT !.account = a]
          /\ IF extension THEN Apply(a) ELSE UNCHANGED <<session, stored>>
    BY <1>3 DEF WalletAccount
  <2>2. /\ UNCHANGED <<extension, reading, typed>>
        /\ reading' \notin {"no", "asked"} => swapped'
    BY <1>3 DEF WalletAccount
  <2>3. wallet'.account = a
    BY <2>1 DEF Types, TypeOK
  <2>4. ReadingIsCurrent'
    BY <2>2 DEF ReadingIsCurrent
  <2>5. CASE ~ extension
    BY <2>1, <2>2, <2>4, <2>5 DEF SessionInv, StoredByHand, SessionIsTrue
  <2>6. CASE extension /\ a = "none"
    <3>1. session'.source = "none" /\ stored'.source = "none"
      BY <2>1, <2>6 DEF Apply, Enter, Nobody
    <3> QED BY <2>4, <3>1 DEF SessionInv, StoredByHand, SessionIsTrue
  <2>7. CASE extension /\ a # "none"
    <3>1. session'.source = "wallet" /\ stored'.source = "wallet" /\ session'.voter = a
      BY <2>1, <2>7 DEF Apply, Enter
    <3> QED BY <2>3, <2>4, <3>1 DEF SessionInv, StoredByHand, SessionIsTrue
  <2> QED BY <2>5, <2>6, <2>7
<1>4. CASE WalletChain
  BY <1>4, CastingKeeps DEF WalletChain, Types, TypeOK
<1>5. CASE SignIn
  BY <1>5 DEF SignIn, Enter, SessionInv, ReadingIsCurrent, StoredByHand, SessionIsTrue
<1>6. CASE SignOut
  BY <1>6 DEF SignOut, Enter, Nobody, SessionInv, ReadingIsCurrent, StoredByHand, SessionIsTrue
<1>7. CASE Connect
  BY <1>7 DEF Connect, Types, TypeOK, SessionInv, ReadingIsCurrent, StoredByHand, SessionIsTrue
<1>8. CASE SwitchNetwork
  BY <1>8, CastingKeeps DEF SwitchNetwork
<1>9. CASE Reload
  BY <1>9 DEF Reload, Nobody, SessionInv, ReadingIsCurrent, StoredByHand, SessionIsTrue
<1>10. CASE Cast
  BY <1>10, CastingKeeps DEF Cast
<1>11. CASE OnChain
  BY <1>11, CastingKeeps DEF OnChain, Types, TypeOK
<1>12. CASE GiveUp
  BY <1>12, CastingKeeps DEF GiveUp
<1>13. ASSUME NEW a \in asks, Approve(a) \/ Refuse(a) \/ Route(a) PROVE SessionInv'
  BY <1>13, CastingKeeps DEF Approve, Refuse, Route
<1>14. ASSUME NEW m \in mail, Hear(m) PROVE SessionInv'
  BY <1>14, CastingKeeps DEF Hear
<1>15. CASE UNCHANGED vars
  BY <1>15, CastingKeeps DEF vars
<1> QED BY <1>1, <1>2, <1>3, <1>4, <1>5, <1>6, <1>7, <1>8, <1>9, <1>10, <1>11, <1>12, <1>13,
           <1>14, <1>15 DEF Next

-----------------------------------------------------------------------------
\* The types hold at first.
LEMMA TypesInit == Init => Types
<1> SUFFICES ASSUME Init PROVE Types
  OBVIOUS
<1>1. clicked \in Seq(Votes) /\ Click = 0 /\ stage = "idle" /\ acts \in 0..Acts
  <2>1. clicked = <<>> /\ acts = 0 /\ stage = "idle"
    BY DEF Init
  <2>2. 0 \in 0..Acts
    BY VoteAssumption DEF VoteAssumption
  <2> QED BY <2>1, <2>2 DEF Click
<1>2. asks = {} /\ mail = {} /\ out = {} /\ typed = {} /\ refused = {} /\ touched = {}
  BY DEF Init
<1>3. session \in Session /\ stored \in Session
  BY DEF Init, Session
<1>4. /\ extension \in BOOLEAN /\ network \in Networks /\ reading = "asked" /\ said = ""
      /\ wallet \in [account: Accounts \cup {"none"}, chain: Networks] /\ swapped = FALSE
  BY DEF Init
<1> QED BY <1>1, <1>2, <1>3, <1>4 DEF Types, TypeOK

\* A session entered by hand can be gone back to.
LEMMA BackByHand ==
  ASSUME NEW s \in Session, s.source = "manual"
  PROVE  s.voter \in Accounts /\ [voter |-> s.voter, source |-> "manual"] \in Session
<1>1. s # Nobody
  BY DEF Nobody
<1> QED BY <1>1 DEF Session

\* The acts are counted up to the bound.
LEMMA OneMoreAct ==
  ASSUME Types, UNCHANGED acts \/ Act
  PROVE  acts' \in 0..Acts
<1>1. acts \in 0..Acts /\ Acts \in Nat
  BY VoteAssumption DEF VoteAssumption, Types, TypeOK
<1>2. UNCHANGED acts \/ (acts < Acts /\ acts' = acts + 1)
  BY DEF Act
<1> QED BY <1>1, <1>2

\* What the page and the wallet do between the votes.
LEMMA PageTypes ==
  ASSUME Types,
         \/ ReadAccounts \/ AccountsRead \/ WalletAccount \/ WalletChain \/ SignIn \/ SignOut
         \/ Connect \/ SwitchNetwork \/ Reload
  PROVE  Types'
<1>1. UNCHANGED <<clicked, asks, mail, out, refused, extension>>
  BY DEF ReadAccounts, AccountsRead, WalletAccount, WalletChain, SignIn, SignOut, Connect,
         SwitchNetwork, Reload, castVars
<1>2. stage' \in {stage, "idle"} /\ said' \in {said, ""}
  BY DEF ReadAccounts, AccountsRead, WalletAccount, WalletChain, SignIn, SignOut, Connect,
         SwitchNetwork, Reload, castVars
<1>3. acts' \in 0..Acts
  <2>1. UNCHANGED acts \/ Act
    BY DEF ReadAccounts, AccountsRead, WalletAccount, WalletChain, SignIn, SignOut, Connect,
           SwitchNetwork, Reload
  <2> QED BY <2>1, OneMoreAct
<1>4. touched' \subseteq 1..Click'
  BY <1>1 DEF Types, TypeOK, Touch, Click, ReadAccounts, AccountsRead, WalletAccount, WalletChain,
              SignIn, SignOut, Connect, SwitchNetwork, Reload
<1>5. wallet' \in [account: Accounts \cup {"none"}, chain: Networks] /\ network' \in Networks
  BY DEF Types, TypeOK, ReadAccounts, AccountsRead, WalletAccount, WalletChain,
         SignIn, SignOut, Connect, SwitchNetwork, Reload
<1>6. reading' \in {"no", "asked", "none"} \cup Accounts
  BY DEF Types, TypeOK, signVars, ReadAccounts, AccountsRead, WalletAccount, WalletChain,
         SignIn, SignOut, Connect, SwitchNetwork, Reload
<1>7. session' \in Session /\ stored' \in Session
  <2>1. Restore => session' \in Session
    BY BackByHand DEF Restore, Restores, Types, TypeOK
  <2>2. \A a \in Accounts \cup {"none"} : Apply(a) => session' \in Session /\ stored' \in Session
    BY DEF Apply, Enter, Session
  <2>3. CASE ReadAccounts
    BY <2>1, <2>3 DEF Types, TypeOK, ReadAccounts
  <2>6. CASE AccountsRead
    BY <2>1, <2>2, <2>6 DEF Types, TypeOK, AccountsRead
  <2>7. CASE WalletAccount
    BY <2>2, <2>7 DEF Types, TypeOK, WalletAccount
  <2>4. CASE SignIn \/ SignOut
    BY <2>4 DEF Session, SignIn, SignOut, Enter
  <2>5. CASE WalletChain \/ Connect \/ SwitchNetwork \/ Reload
    BY <2>5 DEF Types, TypeOK, Session, WalletChain, Connect, SwitchNetwork, Reload, signVars
  <2> QED BY <2>3, <2>4, <2>5, <2>6, <2>7
<1>8. typed' \subseteq Accounts /\ swapped' \in BOOLEAN
  BY DEF Types, TypeOK, ReadAccounts, AccountsRead, WalletAccount, WalletChain,
         SignIn, SignOut, Connect, SwitchNetwork, Reload, signVars
<1> QED BY <1>1, <1>2, <1>3, <1>4, <1>5, <1>6, <1>7, <1>8
        DEF Types, TypeOK, Click, AskType, MailType

\* The counters of a vote, for the arithmetic below.
LEMMA Clicks == ASSUME Types PROVE Click \in Nat
BY DEF Types, Click

\* Casting a vote keeps the types.
LEMMA CastTypes == ASSUME Types, Cast PROVE Types'
<1> DEFINE vote == [voter |-> session.voter, net |-> network,
                    viaWallet |-> session.source = "wallet"]
<1>1. vote \in Votes
  BY DEF Types, TypeOK, Session, Cast, Votes
<1>2. clicked' = Append(clicked, vote) /\ clicked \in Seq(Votes)
  BY DEF Types, Cast
<1> HIDE DEF vote
<1>3. /\ clicked' \in Seq(Votes) /\ Click' = Click + 1 /\ Click \in Nat
      /\ clicked'[Click'] = vote
  BY <1>1, <1>2 DEF Click
<1>4. \A c \in 1..Click : c \in 1..Click'
  BY <1>3
<1>5. Click' \in 1..Click' /\ Click' >= 1
  BY <1>3
<1>6. \A a \in asks' \ asks : a = [click |-> Click', kind |-> "post", signer |-> session.voter,
                                  net |-> vote.net]
  BY <1>3 DEF Cast, Ask
<1>7. vote.voter = session.voter /\ vote.net \in Networks /\ session.voter \in Accounts
  BY <1>1 DEF vote, Votes
<1>8. \A a \in asks : a \in AskType'
  BY <1>4 DEF Types, AskType
<1>9. \A a \in asks' : a \in AskType' /\ (a.kind = "post" => a.signer \in Accounts)
  BY <1>5, <1>6, <1>7, <1>8 DEF AskType, Types
<1>10. /\ mail' = mail /\ refused' = refused /\ out' = out
       /\ \A c \in touched' : c \in touched \/ c = Click'
  BY <1>3 DEF Cast
<1>11. \A m \in mail : m \in MailType'
  BY <1>4 DEF Types, MailType
<1>12. refused' \subseteq 1..Click' /\ touched' \subseteq 1..Click'
  BY <1>4, <1>5, <1>10 DEF Types, TypeOK
<1>13. \A v \in out : v \in [click: 1..Click', account: Accounts, net: Networks]
  BY <1>4 DEF Types, TypeOK
<1>14. stage' \in {"chain", "post"} /\ said' = ""
  BY DEF Cast, Ask
<1>15. acts' \in 0..Acts
  BY OneMoreAct DEF Cast
<1>16. /\ UNCHANGED <<extension, wallet, network, session, stored, reading, typed, swapped>>
       /\ asks' \subseteq AskType' /\ mail' \subseteq MailType'
  BY <1>9, <1>10, <1>11 DEF Cast, signVars
<1>17. TypeOK'
  <2>1. \A a \in asks' : a.click \in 1..Click' /\ a.kind \in {"send", "sign", "post"}
    BY <1>16 DEF AskType
  <2>2. \A m \in mail' : /\ m.click \in 1..Click'
                         /\ m.what \in {"ok", "failed", "refused", "unsupported"}
    BY <1>16 DEF MailType
  <2> QED BY <2>1, <2>2, <1>10, <1>12, <1>13, <1>14, <1>15, <1>16 DEF Types, TypeOK
<1> QED BY <1>3, <1>5, <1>9, <1>10, <1>16, <1>17 DEF Types

\* The vote under way is one that was clicked.
LEMMA ThisIsAVote ==
  ASSUME Types, stage # "idle"
  PROVE  Click \in 1..Click /\ This \in Votes
<1>1. Click \in Nat /\ Click >= 1
  BY Clicks DEF Types
<1> QED BY <1>1 DEF Types, Click, This

\* So does the switch of the wallet's chain.
LEMMA ChainTypes == ASSUME Types, OnChain PROVE Types'
<1>1. Click \in 1..Click /\ This \in Votes /\ Click' = Click /\ This' = This
      /\ clicked' = clicked
  BY ThisIsAVote DEF OnChain, Ends, Click, This
<1>2. wallet' \in [account: Accounts \cup {"none"}, chain: Networks]
  BY <1>1 DEF Types, TypeOK, OnChain, ChainFor, Votes
<1>3. \A a \in asks' \ asks : a = [click |-> Click, kind |-> "send", signer |-> "none",
                                  net |-> This.net]
  BY <1>1 DEF OnChain, Ask, Ends, This
<1>4. asks' \subseteq AskType /\ \A a \in asks' : a.kind = "post" => a.signer \in Accounts
  BY <1>1, <1>3 DEF Types, AskType, Votes
<1>5. touched' \subseteq 1..Click /\ refused' \subseteq 1..Click
  <2>1. touched \subseteq 1..Click /\ refused \subseteq 1..Click /\ Click \in Nat
    BY Clicks DEF Types, TypeOK
  <2>2. 1..(Click - 1) \subseteq 1..Click
    BY <2>1
  <2>3. touched' \subseteq touched \cup (1..(Click - 1)) /\ refused' \subseteq refused \cup {Click}
    BY DEF OnChain
  <2> QED BY <1>1, <2>1, <2>2, <2>3
<1>6. stage' \in {"idle", "send"} /\ said' \in {said, "error"}
  BY DEF OnChain, Ask, Ends
<1> QED BY <1>1, <1>2, <1>4, <1>5, <1>6
        DEF Types, TypeOK, OnChain, signVars, AskType, MailType, Click

\* So does a step of the wallet.
LEMMA WalletTypes ==
  ASSUME Types, NEW a \in asks, Approve(a) \/ Refuse(a) \/ Route(a)
  PROVE  Types'
<1>1. /\ UNCHANGED <<extension, wallet, network, acts, touched, signVars, stage, said, clicked>>
      /\ Click' = Click /\ asks' = asks \ {a}
  BY DEF Approve, Refuse, Route, Answers, Click
<1>2. a \in AskType /\ wallet.account \in Accounts \cup {"none"} /\ wallet.chain \in Networks
      /\ (a.kind = "post" => a.signer \in Accounts)
  BY DEF Types, TypeOK
<1>3. refused' \subseteq 1..Click
  BY <1>2 DEF Types, TypeOK, Approve, Refuse, Route, AskType
<1>4. out' \subseteq [click: 1..Click, account: Accounts, net: Networks]
  <2>1. CASE out' = out
    BY <2>1 DEF Types, TypeOK
  <2>2. CASE \E account \in Accounts, net \in Networks : Goes(a, account, net)
    <3>1. PICK account \in Accounts, net \in Networks :
            out' = out \cup {[click |-> a.click, account |-> account, net |-> net]}
      BY <2>2 DEF Goes
    <3>2. a.click \in 1..Click
      BY <1>2 DEF AskType
    <3>3. out \subseteq [click: 1..Click, account: Accounts, net: Networks]
      BY DEF Types, TypeOK
    <3> QED BY <3>1, <3>2, <3>3
  <2>3. CASE Approve(a)
    BY <1>2, <2>1, <2>2, <2>3 DEF Approve, AskType
  <2>4. CASE Refuse(a)
    BY <2>1, <2>4 DEF Refuse
  <2>5. CASE Route(a)
    BY <1>2, <2>1, <2>2, <2>5 DEF Route, AskType
  <2> QED BY <2>3, <2>4, <2>5
<1>5. mail' \subseteq MailType
  BY <1>2 DEF Types, Approve, Refuse, Route, Answers, AskType, MailType
<1>6. \A m \in mail' : m.kind = "sign" /\ m.what = "ok" => m.signer \in Accounts
  BY <1>2 DEF Types, Approve, Refuse, Route, Answers, AskType, MailType
<1> QED BY <1>1, <1>3, <1>4, <1>5, <1>6 DEF Types, TypeOK, signVars, AskType, MailType, Click

\* So does a message.
LEMMA HearTypes == ASSUME Types, NEW m \in mail, Hear(m) PROVE Types'
<1>1. /\ UNCHANGED <<extension, wallet, network, acts, touched, signVars, out, refused, clicked>>
      /\ Click' = Click /\ This' = This /\ mail' \subseteq mail
  BY DEF Hear, Click, This
<1>2. m \in MailType
  BY DEF Types
<1>3. CASE ~ Expected(m)
  BY <1>1, <1>3 DEF Hear, Types, TypeOK, signVars, AskType, MailType, Click
<1>4. CASE Expected(m)
  <2>1. Click \in 1..Click /\ This \in Votes
    BY <1>2, <1>4, ThisIsAVote DEF Expected, MailType
  <2>2. asks' \subseteq AskType /\ \A a \in asks' : a.kind = "post" => a.signer \in Accounts
    <3>1. CASE asks' = asks
      BY <3>1 DEF Types
    <3>2. CASE Ask("post", m.signer) /\ m.what = "ok" /\ m.kind = "sign"
      BY <1>1, <1>2, <2>1, <3>2 DEF Types, AskType, MailType, Ask, Votes, This
    <3>3. CASE Ask("sign", "none")
      BY <1>1, <1>2, <2>1, <3>3 DEF Types, AskType, MailType, Ask, Votes, This
    <3> QED BY <1>2, <1>4, <3>1, <3>2, <3>3 DEF Hear, Ends, MailType
  <2>3. stage' \in {"idle", "sign", "post"} /\ said' \in {said, "note", "error"}
    BY <1>4 DEF Hear, Ask, Ends
  <2>4. Click >= 1
    BY <2>1, Clicks
  <2> QED BY <1>1, <2>2, <2>3, <2>4 DEF Types, TypeOK, signVars, AskType, MailType, Click
<1> QED BY <1>3, <1>4

\* Every step keeps the types.
LEMMA TypesKeep == ASSUME Types, [Next]_vars PROVE Types'
<1>1. CASE GiveUp
  BY <1>1 DEF GiveUp, Types, TypeOK, signVars, AskType, MailType, Click
<1>2. CASE UNCHANGED vars
  BY <1>2 DEF vars, signVars, castVars, Types, TypeOK, AskType, MailType, Click
<1> QED BY <1>1, <1>2, PageTypes, CastTypes, ChainTypes, WalletTypes, HearTypes DEF Next

-----------------------------------------------------------------------------
\* Where a vote goes and whose it is.

Untouched(c) == extension /\ c \notin touched

\* What the wallet has been asked still fits the click it was asked for.
AskRight ==
  \A a \in asks :
    /\ a.net = clicked[a.click].net
    /\ a.kind \in {"send", "sign"} => clicked[a.click].viaWallet
    /\ a.kind \in {"send", "sign"} /\ Untouched(a.click) =>
         wallet.account = clicked[a.click].voter
    /\ a.kind = "send" /\ Untouched(a.click) => wallet.chain = a.net
    /\ a.kind = "post" /\ a.click \notin touched /\ (extension \/ ~ clicked[a.click].viaWallet) =>
         a.signer = clicked[a.click].voter

MailRight ==
  \A m \in mail :
    m.kind = "sign" =>
      /\ clicked[m.click].viaWallet
      /\ Untouched(m.click) => m.signer = clicked[m.click].voter

\* The page is about to ask the wallet in the name of the account that it has.
StageRight ==
  stage \in {"chain", "send"} =>
    /\ This.viaWallet
    /\ Untouched(Click) => wallet.account = This.voter

VoteInv == AskRight /\ MailRight /\ StageRight /\ VoteOfTheClick

\* No vote was under way at first.
LEMMA VoteInits == Init => VoteInv
BY DEF Init, VoteInv, AskRight, MailRight, StageRight, VoteOfTheClick

\* Nothing of a vote moves, and the wallet changes only while it is noticed.
LEMMA VotesStay ==
  ASSUME Types, VoteInv, UNCHANGED <<extension, clicked, asks, mail, out>>, stage' \in {stage, "idle"},
         Touch \/ UNCHANGED <<wallet, touched>>
  PROVE  VoteInv'
<1>1. /\ \A a \in asks : a.click \in 1..Click
      /\ \A m \in mail : m.click \in 1..Click
      /\ \A v \in out : v.click \in 1..Click
  BY DEF Types, TypeOK, AskType, MailType
<1>2. stage # "idle" => Click \in 1..Click
  BY ThisIsAVote
<1>3. Click' = Click /\ This' = This
  BY DEF Click, This
<1>4. CASE Touch
  <2>1. \A c \in 1..Click : c \in touched'
    BY <1>4 DEF Touch
  <2> QED BY <1>1, <1>2, <1>3, <2>1
          DEF VoteInv, AskRight, MailRight, StageRight, VoteOfTheClick, Untouched
<1>5. CASE UNCHANGED <<wallet, touched>>
  BY <1>3, <1>5 DEF VoteInv, AskRight, MailRight, StageRight, VoteOfTheClick, Untouched
<1> QED BY <1>4, <1>5

\* A vote is cast for the session it was clicked in.
LEMMA CastRight == ASSUME Types, Types', VoteInv, Cast PROVE VoteInv'
<1> DEFINE vote == [voter |-> session.voter, net |-> network,
                    viaWallet |-> session.source = "wallet"]
<1>1. vote.net = network /\ vote.voter = session.voter
      /\ vote.viaWallet = (session.source = "wallet")
  OBVIOUS
<1>2. clicked' = Append(clicked, vote) /\ clicked \in Seq(Votes)
  BY DEF Types, Cast
<1> HIDE DEF vote
<1>3. /\ Click' = Click + 1 /\ Click \in Nat /\ This' = vote
      /\ \A c \in 1..Click : c # Click' /\ clicked'[c] = clicked[c]
  BY <1>2 DEF Click, This
<1>4. /\ \A a \in asks : a.click \in 1..Click
      /\ \A m \in mail : m.click \in 1..Click
      /\ \A v \in out : v.click \in 1..Click
  BY DEF Types, TypeOK, AskType, MailType
<1>5. /\ UNCHANGED <<extension, wallet, mail, out>>
      /\ \A c \in 1..Click : c \in touched' <=> c \in touched
  BY <1>3 DEF Cast
<1>6. \A a \in asks' : \/ a \in asks
                       \/ a = [click |-> Click', kind |-> "post", signer |-> vote.voter,
                               net |-> vote.net] /\ session.source # "wallet"
  BY <1>1, <1>3 DEF Cast, Ask, This
<1>7. AskRight'
  BY <1>1, <1>3, <1>4, <1>5, <1>6 DEF VoteInv, AskRight, Untouched, This
<1>8. MailRight'
  BY <1>3, <1>4, <1>5 DEF VoteInv, MailRight, Untouched
<1>9. StageRight'
  <2>1. stage' = "chain" \/ stage' = "post"
    BY DEF Cast, Ask
  <2>2. stage' = "chain" => session.source = "wallet"
    BY DEF Cast, Ask
  <2>3. session.source = "wallet" /\ wallet.account # session.voter => Click' \in touched'
    BY <1>3 DEF Cast
  <2> QED BY <1>1, <1>3, <1>5, <2>1, <2>2, <2>3 DEF StageRight, Untouched
<1>10. VoteOfTheClick'
  BY <1>3, <1>4, <1>5 DEF VoteInv, VoteOfTheClick
<1> QED BY <1>7, <1>8, <1>9, <1>10 DEF VoteInv

\* The switch of the wallet's chain keeps every vote that of its click.
LEMMA ChainRight == ASSUME Types, VoteInv, OnChain PROVE VoteInv'
<1>1. /\ Click \in 1..Click /\ This \in Votes /\ Click' = Click /\ This' = This
      /\ UNCHANGED <<clicked, mail, out, extension>>
  BY ThisIsAVote DEF OnChain, Ends, Click, This
<1>2. CASE /\ wallet' = [wallet EXCEPT !.chain = This.net]
           /\ touched' = touched \cup (IF wallet' = wallet THEN {} ELSE 1..(Click - 1))
           /\ Ask("send", "none")
  <2>1. /\ wallet'.account = wallet.account /\ wallet'.chain = This.net
        /\ touched \subseteq touched'
    BY <1>2 DEF Types, TypeOK
  <2>2. \A c \in 1..Click : c \notin touched' => wallet' = wallet \/ c = Click
    BY <1>1, <1>2, Clicks
  <2>3. \A a \in asks' : a \in asks \/ a = [click |-> Click, kind |-> "send", signer |-> "none",
                                          net |-> This.net]
    BY <1>1, <1>2 DEF Ask, This
  <2>4. \A a \in asks : a.click \in 1..Click
    BY DEF Types, AskType
  <2>5. AskRight'
    <3> SUFFICES ASSUME NEW a \in asks'
                 PROVE  /\ a.net = clicked[a.click].net
                        /\ a.kind \in {"send", "sign"} => clicked[a.click].viaWallet
                        /\ a.kind \in {"send", "sign"} /\ Untouched(a.click)' =>
                             wallet'.account = clicked[a.click].voter
                        /\ a.kind = "send" /\ Untouched(a.click)' => wallet'.chain = a.net
                        /\ a.kind = "post" /\ a.click \notin touched'
                             /\ (extension \/ ~ clicked[a.click].viaWallet) =>
                             a.signer = clicked[a.click].voter
      BY <1>1 DEF AskRight
    <3>1. CASE a \in asks
      BY <1>1, <2>1, <2>2, <2>4, <3>1 DEF VoteInv, AskRight, Untouched, This
    <3>2. CASE a = [click |-> Click, kind |-> "send", signer |-> "none", net |-> This.net]
      BY <1>1, <2>1, <3>2 DEF VoteInv, StageRight, OnChain, Untouched, This
    <3> QED BY <2>3, <3>1, <3>2
  <2>6. MailRight' /\ VoteOfTheClick'
    BY <1>1, <2>1 DEF VoteInv, MailRight, VoteOfTheClick, Untouched
  <2>7. StageRight'
    BY <1>1, <2>1 DEF VoteInv, StageRight, OnChain, Untouched
  <2> QED BY <2>5, <2>6, <2>7 DEF VoteInv
<1>3. CASE Ends("error") /\ UNCHANGED <<wallet, touched>>
  BY <1>1, <1>3, VotesStay DEF Ends
<1> QED BY <1>2, <1>3 DEF OnChain, ChainFor

\* So does the answer of the wallet, or of the node, and its way.
LEMMA WalletRight ==
  ASSUME Types, VoteInv, NEW a \in asks, Approve(a) \/ Refuse(a) \/ Route(a)
  PROVE  VoteInv'
<1>1. /\ UNCHANGED <<extension, wallet, touched, stage, clicked>>
      /\ Click' = Click /\ This' = This /\ asks' \subseteq asks
  BY DEF Approve, Refuse, Route, Answers, Click, This
<1>2. AskRight' /\ StageRight'
  BY <1>1 DEF VoteInv, AskRight, StageRight, Untouched
<1>3. MailRight'
  <2>1. \A m \in mail' :
          \/ m \in mail
          \/ m.click = a.click /\ m.kind = a.kind /\ (a.kind = "sign" => m.signer = wallet.account)
    BY DEF Approve, Refuse, Route, Answers
  <2>2. /\ a.kind = "sign" => clicked[a.click].viaWallet
        /\ a.kind = "sign" /\ Untouched(a.click) => wallet.account = clicked[a.click].voter
    BY DEF VoteInv, AskRight
  <2>3. \A m \in mail : m.kind = "sign" =>
          clicked[m.click].viaWallet /\ (Untouched(m.click) => m.signer = clicked[m.click].voter)
    BY DEF VoteInv, MailRight
  <2> SUFFICES ASSUME NEW m \in mail', m.kind = "sign"
               PROVE  /\ clicked[m.click].viaWallet
                      /\ Untouched(m.click) => m.signer = clicked[m.click].voter
    BY <1>1 DEF MailRight, Untouched
  <2>4. CASE m \in mail
    BY <2>3, <2>4
  <2>5. CASE m.click = a.click /\ m.kind = a.kind /\ (a.kind = "sign" => m.signer = wallet.account)
    BY <2>2, <2>5
  <2> QED BY <2>1, <2>4, <2>5
<1>4. VoteOfTheClick'
  <2>1. \/ out' = out
        \/ /\ a.kind = "send"
           /\ Goes(a, wallet.account, IF extension THEN wallet.chain ELSE a.net)
        \/ a.kind = "post" /\ Goes(a, a.signer, a.net)
    BY DEF Approve, Refuse, Route
  <2>2. \A v \in out' :
          \/ v \in out
          \/ /\ a.kind = "send" /\ v.click = a.click /\ v.account = wallet.account
             /\ v.net = IF extension THEN wallet.chain ELSE a.net
          \/ a.kind = "post" /\ v.click = a.click /\ v.account = a.signer /\ v.net = a.net
    BY <2>1 DEF Goes
  <2>3. extension \in BOOLEAN /\ clicked[a.click].viaWallet \in BOOLEAN
    <3>1. a.click \in 1..Click
      BY DEF Types, AskType
    <3>2. clicked[a.click] \in Votes
      BY <3>1 DEF Types, Click
    <3> QED BY <3>2 DEF Types, TypeOK, Votes
  <2> QED BY <1>1, <2>2, <2>3 DEF VoteInv, VoteOfTheClick, AskRight, Untouched
<1> QED BY <1>2, <1>3, <1>4 DEF VoteInv

\* So does an answer that is heard.
LEMMA HearRight == ASSUME Types, VoteInv, NEW m \in mail, Hear(m) PROVE VoteInv'
<1>1. /\ UNCHANGED <<extension, wallet, touched, out, clicked>>
      /\ Click' = Click /\ This' = This /\ mail' \subseteq mail
  BY DEF Hear, Click, This
<1>2. MailRight' /\ VoteOfTheClick'
  BY <1>1 DEF VoteInv, MailRight, VoteOfTheClick, Untouched
<1>3. CASE asks' = asks /\ stage' \in {stage, "idle"}
  <2>1. AskRight' /\ StageRight'
    BY <1>1, <1>3 DEF VoteInv, AskRight, StageRight, Untouched
  <2> QED BY <1>2, <2>1 DEF VoteInv
<1>4. CASE Expected(m) /\ m.what = "ok" /\ m.kind = "sign" /\ Ask("post", m.signer)
  <2>1. \A a \in asks' : a \in asks \/ a = [click |-> Click, kind |-> "post",
                                          signer |-> m.signer, net |-> This.net]
    BY <1>1, <1>4 DEF Ask, This
  <2>2. /\ m.click = Click /\ This.viaWallet /\ stage' = "post"
        /\ Untouched(Click) => m.signer = This.voter
    BY <1>4 DEF Expected, VoteInv, MailRight, This, Ask
  <2>3. AskRight'
    BY <1>1, <2>1, <2>2 DEF VoteInv, AskRight, Untouched, This
  <2>4. StageRight'
    BY <2>2 DEF StageRight
  <2> QED BY <1>2, <2>3, <2>4 DEF VoteInv
<1>5. CASE Expected(m) /\ m.kind = "send" /\ Ask("sign", "none")
  <2>1. \A a \in asks' : a \in asks \/ a = [click |-> Click, kind |-> "sign",
                                          signer |-> "none", net |-> This.net]
    BY <1>1, <1>5 DEF Ask, This
  <2>2. /\ stage = "send" /\ stage' = "sign" /\ This.viaWallet
        /\ Untouched(Click) => wallet.account = This.voter
    BY <1>5 DEF Expected, VoteInv, StageRight, Ask
  <2>3. AskRight'
    BY <1>1, <2>1, <2>2 DEF VoteInv, AskRight, Untouched, This
  <2>4. StageRight'
    BY <2>2 DEF StageRight
  <2> QED BY <1>2, <2>3, <2>4 DEF VoteInv
<1>6. m.kind \in {"send", "sign", "post"}
  BY DEF Types, MailType
<1> QED BY <1>3, <1>4, <1>5, <1>6 DEF Hear, Ends

\* So does every step.
LEMMA VotesKeep == ASSUME Types, Types', VoteInv, [Next]_vars PROVE VoteInv'
<1>1. CASE \/ ReadAccounts \/ AccountsRead \/ WalletAccount \/ WalletChain \/ SignIn \/ SignOut
           \/ Connect \/ SwitchNetwork \/ Reload
  BY <1>1, VotesStay
     DEF ReadAccounts, AccountsRead, WalletAccount, WalletChain, SignIn, SignOut, Connect,
         SwitchNetwork, Reload, castVars
<1>2. CASE GiveUp
  <2>1. /\ UNCHANGED <<extension, wallet, touched, mail, out, clicked>>
        /\ Click' = Click /\ asks' \subseteq asks /\ stage' = "idle"
    BY <1>2 DEF GiveUp, Click
  <2> QED BY <2>1 DEF VoteInv, AskRight, MailRight, StageRight, VoteOfTheClick, Untouched
<1>3. CASE UNCHANGED vars
  BY <1>3, VotesStay DEF vars, castVars
<1> QED BY <1>1, <1>2, <1>3, CastRight, ChainRight, WalletRight, HearRight DEF Next
-----------------------------------------------------------------------------
\* What the page says of a vote.

\* A click has one token: a question or its answer.
OneToken ==
  /\ \A a, b \in asks : a.click = b.click => a = b
  /\ \A m, n \in mail : m.click = n.click => m = n
  /\ \A a \in asks, m \in mail : a.click # m.click

\* A vote that was refused is at its end, but for the refusal on its way.
RefusedEnds ==
  /\ \A a \in asks : a.click \notin refused
  /\ \A m \in mail : m.click \in refused => m.kind = "send" /\ m.what = "refused"
  /\ \A v \in out : v.click \notin refused

HasGone(c) == \E v \in out : v.click = c

\* One that may still be refused has not gone, and it is thanked for only when it has.
GoneOnce ==
  /\ \A a \in asks : a.kind = "send" => ~ HasGone(a.click)
  /\ \A m \in mail : m.what = "ok" /\ m.kind \in {"send", "post"} => HasGone(m.click)
  /\ said = "note" => HasGone(Click)

\* Before the wallet is on the chain nothing of the click has happened.
ChainFirst ==
  stage = "chain" =>
    /\ \A a \in asks : a.click # Click
    /\ \A m \in mail : m.click # Click
    /\ Click \notin refused /\ ~ HasGone(Click)

OutcomeInv == OneToken /\ RefusedEnds /\ GoneOnce /\ ChainFirst

\* At first nothing was asked, refused or sent.
LEMMA OutcomeInits == Init => OutcomeInv
BY DEF Init, OutcomeInv, OneToken, RefusedEnds, GoneOnce, ChainFirst, HasGone

\* What is said of a vote is what came of it.
LEMMA OutcomeFollows == OutcomeInv => OutcomeIsTrue
BY DEF OutcomeInv, OutcomeIsTrue, RefusedEnds, GoneOnce, HasGone

\* Going back to rest, or an error, says nothing new of a vote.
LEMMA OutcomeStays ==
  ASSUME OutcomeInv, UNCHANGED <<asks, mail, out, clicked, refused>>,
         stage' \in {stage, "idle"}, said' \in {said, "", "error"}
  PROVE  OutcomeInv'
BY DEF OutcomeInv, OneToken, RefusedEnds, GoneOnce, ChainFirst, HasGone, Click

\* A new vote says nothing of the last.
LEMMA CastOutcome == ASSUME Types, OutcomeInv, Cast PROVE OutcomeInv'
<1>1. Click' = Click + 1 /\ Click \in Nat
  <2>1. \E vote : clicked' = Append(clicked, vote)
    BY DEF Cast
  <2> QED BY <2>1 DEF Types, Click
<1>2. /\ \A a \in asks : a.click \in 1..Click
      /\ \A m \in mail : m.click \in 1..Click
      /\ \A v \in out : v.click \in 1..Click
      /\ \A c \in refused : c \in 1..Click
  BY DEF Types, TypeOK, AskType, MailType
<1>3. /\ UNCHANGED <<mail, out, refused>> /\ said' = ""
      /\ stage' = "chain" => asks' = asks
  BY DEF Cast, Ask
<1>4. /\ \A a \in asks' : a \in asks \/ (a.click = Click' /\ a.kind = "post")
      /\ \A a, b \in asks' \ asks : a = b
  <2>1. CASE asks' = asks
    BY <2>1
  <2>2. CASE Ask("post", session.voter)
    BY <2>2 DEF Ask
  <2> QED BY <2>1, <2>2 DEF Cast
<1>5. /\ \A a \in asks : a.click # Click'
      /\ \A m \in mail : m.click # Click'
      /\ Click' \notin refused /\ ~ HasGone(Click')
  BY <1>1, <1>2 DEF HasGone
<1>6. OneToken'
  BY <1>3, <1>4, <1>5 DEF OutcomeInv, OneToken
<1>7. RefusedEnds' /\ GoneOnce'
  BY <1>3, <1>4, <1>5 DEF OutcomeInv, RefusedEnds, GoneOnce, HasGone
<1>8. ChainFirst'
  BY <1>3, <1>5 DEF ChainFirst, HasGone
<1> QED BY <1>6, <1>7, <1>8 DEF OutcomeInv

\* A new question in the name of a click that has no token yet.
LEMMA AskOutcome ==
  ASSUME NEW kind \in {"send", "sign", "post"}, NEW signer, Ask(kind, signer), OutcomeInv,
         UNCHANGED <<out, clicked, refused, said>>, mail' \subseteq mail,
         \A a \in asks : a.click # Click, \A m \in mail' : m.click # Click,
         Click \notin refused, kind = "send" => ~ HasGone(Click)
  PROVE  OutcomeInv'
<1>1. Click' = Click /\ stage' = kind
  BY DEF Click, Ask
<1>2. /\ \A a \in asks' : a \in asks \/ (a.click = Click /\ a.kind = kind)
      /\ \A a, b \in asks' \ asks : a = b
  BY <1>1 DEF Ask
<1>3. OneToken'
  BY <1>2 DEF OutcomeInv, OneToken
<1>4. RefusedEnds' /\ GoneOnce'
  BY <1>1, <1>2 DEF OutcomeInv, RefusedEnds, GoneOnce, HasGone
<1>5. ChainFirst'
  BY <1>1 DEF ChainFirst
<1> QED BY <1>3, <1>4, <1>5 DEF OutcomeInv

\* The switch of the wallet's chain asks for the vote, or ends it with an error.
LEMMA ChainOutcome == ASSUME OutcomeInv, OnChain PROVE OutcomeInv'
<1>1. CASE Ask("send", "none") /\ UNCHANGED <<said, refused, clicked>>
  BY <1>1, AskOutcome DEF OnChain, OutcomeInv, ChainFirst
<1>2. CASE Ends("error") /\ refused' = refused \cup {Click} /\ UNCHANGED clicked
  <2>1. UNCHANGED <<asks, mail, out>> /\ stage' = "idle" /\ said' = "error" /\ Click' = Click
    BY <1>2 DEF OnChain, Ends, Click
  <2>2. stage = "chain"
    BY DEF OnChain
  <2> QED BY <1>2, <2>1, <2>2
          DEF OutcomeInv, OneToken, RefusedEnds, GoneOnce, ChainFirst, HasGone
<1> QED BY <1>1, <1>2 DEF OnChain

\* What is approved goes out once, and what is refused does not.
LEMMA WalletOutcome ==
  ASSUME Types, OutcomeInv, NEW a \in asks, Approve(a) \/ Refuse(a) \/ Route(a)
  PROVE  OutcomeInv'
<1>1. /\ UNCHANGED <<stage, said, clicked>> /\ Click' = Click /\ asks' = asks \ {a}
  BY DEF Approve, Refuse, Route, Answers, Click
<1>2. /\ \A b \in asks' : b \in asks /\ b.click # a.click
      /\ \A m \in mail : m.click # a.click
      /\ a.click \notin refused
  BY <1>1 DEF OutcomeInv, OneToken, RefusedEnds
<1>3. stage = "chain" => a.click # Click
  BY DEF OutcomeInv, ChainFirst
<1>4. /\ \A m \in mail' : m \in mail \/ (m.click = a.click /\ m.kind = a.kind)
      /\ \A m, n \in mail' \ mail : m = n
  BY DEF Approve, Refuse, Route, Answers
<1>5. OneToken'
  BY <1>2, <1>4 DEF OutcomeInv, OneToken
<1>6. CASE Refuse(a)
  <2>1. /\ out' = out /\ refused' \subseteq refused \cup {a.click}
        /\ a.kind # "send" => refused' = refused
        /\ \A m \in mail' \ mail : m.what = "refused"
    BY <1>6 DEF Refuse, Answers
  <2>2. RefusedEnds'
    BY <1>2, <1>4, <2>1 DEF OutcomeInv, RefusedEnds, GoneOnce, HasGone
  <2>3. GoneOnce'
    BY <1>1, <1>2, <1>4, <2>1 DEF OutcomeInv, GoneOnce, HasGone
  <2>4. ChainFirst'
    BY <1>1, <1>2, <1>3, <1>4, <2>1 DEF OutcomeInv, ChainFirst, HasGone
  <2> QED BY <1>5, <2>2, <2>3, <2>4 DEF OutcomeInv
<1>7. CASE Approve(a) \/ Route(a)
  <2>1. /\ refused' = refused /\ out \subseteq out'
        /\ \A v \in out' \ out : v.click = a.click
    BY <1>7 DEF Approve, Route, Goes
  <2>2. \A m \in mail' \ mail : m.what = "ok" /\ m.kind \in {"send", "post"} => HasGone(a.click)'
    <3>1. ASSUME NEW account, NEW net, Goes(a, account, net)
          PROVE  HasGone(a.click)'
      <4> DEFINE v == [click |-> a.click, account |-> account, net |-> net]
      <4>1. v \in out' /\ v.click = a.click
        BY <3>1 DEF Goes
      <4> QED BY <4>1 DEF HasGone
    <3>2. CASE Approve(a)
      BY <3>1, <3>2 DEF Approve, Answers
    <3>3. CASE Route(a)
      BY <3>1, <3>3 DEF Route, Answers
    <3> QED BY <1>7, <3>2, <3>3
  <2>3. RefusedEnds'
    BY <1>2, <1>4, <2>1 DEF OutcomeInv, RefusedEnds
  <2>4. GoneOnce'
    BY <1>1, <1>2, <1>4, <2>1, <2>2 DEF OutcomeInv, GoneOnce, HasGone
  <2>5. ChainFirst'
    BY <1>1, <1>2, <1>3, <1>4, <2>1 DEF OutcomeInv, ChainFirst, HasGone
  <2> QED BY <1>5, <2>3, <2>4, <2>5 DEF OutcomeInv
<1> QED BY <1>6, <1>7

\* What is heard of a vote is said of it.
LEMMA HearOutcome == ASSUME Types, OutcomeInv, NEW m \in mail, Hear(m) PROVE OutcomeInv'
<1>1. /\ UNCHANGED <<out, clicked, refused>> /\ Click' = Click /\ mail' = mail \ {m}
  BY DEF Hear, Click
<1>2. m.kind \in {"send", "sign", "post"}
  BY DEF Types, MailType
<1>3. CASE asks' = asks /\ stage' \in {stage, "idle"} /\ said' \in {said, "error"}
  BY <1>1, <1>3 DEF OutcomeInv, OneToken, RefusedEnds, GoneOnce, ChainFirst, HasGone
<1>4. CASE /\ Expected(m) /\ m.what = "ok" /\ m.kind \in {"send", "post"}
           /\ asks' = asks /\ stage' = "idle"
  <2>1. HasGone(Click)
    BY <1>4 DEF Expected, OutcomeInv, GoneOnce
  <2> QED BY <1>1, <1>4, <2>1
          DEF OutcomeInv, OneToken, RefusedEnds, GoneOnce, ChainFirst, HasGone
<1>5. ASSUME Expected(m), NEW kind \in {"sign", "post"}, NEW signer, Ask(kind, signer),
             UNCHANGED said, m.kind # "send" \/ m.what # "refused"
      PROVE  OutcomeInv'
  <2>1. /\ Click \notin refused
        /\ \A a \in asks : a.click # Click
        /\ \A n \in mail' : n.click # Click
    BY <1>1, <1>5 DEF Expected, OutcomeInv, OneToken, RefusedEnds
  <2> QED BY <1>1, <1>5, <2>1, AskOutcome
<1> QED BY <1>2, <1>3, <1>4, <1>5 DEF Hear, Ends, Final

\* Every step keeps what is said true.
LEMMA OutcomesKeep == ASSUME Types, OutcomeInv, [Next]_vars PROVE OutcomeInv'
<1>1. CASE \/ ReadAccounts \/ AccountsRead \/ WalletAccount \/ WalletChain \/ SignIn \/ SignOut
           \/ Connect \/ SwitchNetwork \/ Reload
  BY <1>1, OutcomeStays
     DEF ReadAccounts, AccountsRead, WalletAccount, WalletChain, SignIn, SignOut, Connect,
         SwitchNetwork, Reload, castVars
<1>2. CASE GiveUp
  <2>1. /\ UNCHANGED <<mail, out, clicked, refused>> /\ said' = "error"
        /\ Click' = Click /\ asks' \subseteq asks /\ stage' = "idle"
    BY <1>2 DEF GiveUp, Click
  <2> QED BY <2>1 DEF OutcomeInv, OneToken, RefusedEnds, GoneOnce, ChainFirst, HasGone
<1>3. CASE UNCHANGED vars
  BY <1>3, OutcomeStays DEF vars, castVars
<1> QED BY <1>1, <1>2, <1>3, CastOutcome, ChainOutcome, WalletOutcome, HearOutcome DEF Next

-----------------------------------------------------------------------------
IInv == Types /\ SessionInv /\ VoteInv /\ OutcomeInv

\* All of it together holds in every state.
LEMMA Invariant == Spec => []IInv
<1>1. Init => IInv
  BY TypesInit, SessionInits, VoteInits, OutcomeInits DEF IInv
<1>2. IInv /\ [Next]_vars => IInv'
  BY TypesKeep, SessionKeeps, VotesKeep, OutcomesKeep DEF IInv
<1> QED BY <1>1, <1>2, PTL DEF Spec

\* The variables of session, wallet and vote keep their types (components/qa-reviewer-gate.tsx).
THEOREM TypeCorrect == Spec => []TypeOK
<1>1. IInv => TypeOK
  BY DEF IInv, Types
<1> QED BY <1>1, Invariant, PTL

\* Whoever is signed in by the wallet is its account unless it changed meanwhile, and whoever
\* votes unsigned has been typed in, however reloads, connections and changes of the wallet
\* interleave (qa-reviewer-gate.tsx:88-223).
THEOREM SessionHolds == Spec => []SessionIsTrue
<1>1. IInv => SessionIsTrue
  BY DEF IInv, SessionInv
<1> QED BY <1>1, Invariant, PTL

\* A vote that leaves while the wallet stays as it was is for the network, and by the account,
\* of its click: what the page did since, and votes clicked later, do not reach it
\* (qa-reviewer-gate.tsx:456-573).
THEOREM GoesAsClicked == Spec => []VoteOfTheClick
<1>1. IInv => VoteOfTheClick
  BY DEF IInv, VoteInv
<1> QED BY <1>1, Invariant, PTL

\* A refused vote is never cast in another way, and thanks are given only for one that is cast,
\* in whatever order the answers of earlier and given up votes come
\* (qa-reviewer-gate.tsx:456-573, lib/boing-web-wallet.ts).
THEOREM SaysWhatIsSo == Spec => []OutcomeIsTrue
<1>1. IInv => OutcomeIsTrue
  BY OutcomeFollows DEF IInv
<1> QED BY <1>1, Invariant, PTL
=============================================================================
