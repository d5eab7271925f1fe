------------------------------ MODULE RpcProxy ------------------------------
(***************************************************************************)
(* One JSON-RPC call from the browser to a node: rpcCall of                *)
(* src/src/lib/rpc-client.ts, which retries once, and the same-origin      *)
(* route src/src/app/api/rpc/route.ts behind the rate limiter, which fails *)
(* over along the list of upstream origins.  The browser's connection can  *)
(* break while the route goes on, so the two attempts of a call may run    *)
(* side by side.                                                           *)
(***************************************************************************)
EXTENDS Naturals, FiniteSets, Sequences, SequencesExt

CONSTANTS
  Calls,      \* calls of rpcCall
  Networks,   \* network ids a call may name
  Origins,    \* origins[n]: configured, extra and hosted origins of network n, in order
  Blank       \* an origin that is not configured

ASSUME ProxyAssumption ==
  /\ Networks # {}
  /\ \A n \in Networks : /\ Len(Origins[n]) \in Nat
                         /\ \E m \in 1..Len(Origins[n]) : Origins[n][m] # Blank

VARIABLES
  call,       \* call[c]: the browser's side
  route,      \* route[c][a]: the route's side of attempt a of call c
  sends       \* sends[c]: the origins that were sent the request, in order (history)

proxyVars == <<call, route, sends>>

\* What an upstream exchange can come to.  Decisive outcomes are answered to the
\* browser; failures make the route try the next origin.
Decisive == {"result", "rpcError", "tooLarge", "otherStatus", "truncated", "invalidJson"}
Failures == {"failoverStatus", "unreachable", "timeout"}

\* What the browser can receive: 429 with a long or a short (or no) Retry-After, a 4xx
\* of the route, a 5xx of the platform, or the route's HTTP 200.
Limited == {"limitedLong", "limitedShort"}
Answers == Decisive \cup Failures \cup Limited \cup {"rejected", "server5xx"}

\* fetch itself throws a TypeError: "Failed to fetch" or with "network" in its message,
\* or with another wording ("NetworkError when ...", "Load failed").
Breaks == {"lost", "lostOtherWording"}

Attempts == 1..2

-----------------------------------------------------------------------------
\* getTestnetRpcCandidates: the configured origins in order, blanks and repeats left out.
CandidatesKeepingRepeats(n) == SelectSeq(Origins[n], LAMBDA o : o # Blank)

Candidates(n) ==
  LET keep == {m \in 1..Len(Origins[n]) :
                 /\ Origins[n][m] # Blank
                 /\ \A j \in 1..(m - 1) : Origins[n][j] # Origins[n][m]}
  IN  [x \in 1..Cardinality(keep) |->
         Origins[n][CHOOSE m \in keep : Cardinality({j \in keep : j <= m}) = x]]

ProxyInit ==
  /\ \E nets \in [Calls -> Networks] :
       call = [c \in Calls |-> [state |-> "idle", attempt |-> 0, network |-> nets[c],
                                got |-> <<>>]]
  /\ route = [c \in Calls |-> [a \in Attempts |-> [state |-> "none", log |-> <<>>]]]
  /\ sends = [c \in Calls |-> <<>>]

SendFirstOnly(c) ==
  /\ call[c].state = "idle"
  /\ call' = [call EXCEPT ![c].state = "waiting", ![c].attempt = @ + 1]
  /\ route' = [route EXCEPT ![c][call[c].attempt + 1].state = "arrived"]
  /\ UNCHANGED sends

\* fetch("/api/rpc"): the first attempt, or the one after the pause.
Send(c) ==
  /\ call[c].state \in {"idle", "pausing"}
  /\ call' = [call EXCEPT ![c].state = "waiting", ![c].attempt = @ + 1]
  /\ route' = [route EXCEPT ![c][call[c].attempt + 1].state = "arrived"]
  /\ UNCHANGED sends

\* The middleware refuses, or the route rejects the request (400, 413, -32601), or the
\* platform fails: no upstream is asked.
TurnedAway(c, a, answer) ==
  /\ route[c][a].state = "arrived"
  /\ answer \in Limited \cup {"rejected", "server5xx"}
  /\ route' = [route EXCEPT ![c][a] = [state |-> "answered", log |-> <<answer>>]]
  /\ UNCHANGED <<call, sends>>

\* Upstream number i of the list is sent the request and the exchange comes to outcome.
Tried(c, a) == Len(route[c][a].log)

LastOriginEarly(c, i) == i >= Len(Candidates(call[c].network)) - 1

LastOrigin(c, i) == i >= Len(Candidates(call[c].network))

FailsOverAlways(c, i, outcome) == outcome # "result" /\ ~ LastOrigin(c, i)

FailsOver(c, i, outcome) == outcome \in Failures /\ ~ LastOrigin(c, i)

Exchange(c, a, outcome) ==
  LET i == Tried(c, a) + 1
  IN  /\ route[c][a].state \in {"arrived", "trying"}
      /\ route' = [route EXCEPT
           ![c][a] = [state |-> IF FailsOver(c, i, outcome) THEN "trying" ELSE "answered",
                      log |-> Append(@.log, outcome)]]
      /\ sends' = [sends EXCEPT ![c] = Append(@, Candidates(call[c].network)[i])]
      /\ UNCHANGED call

\* isRetryable, for what the first attempt came to.
RetryableAlways(answer) == answer \in Limited \cup {"server5xx"} \cup Breaks

Retryable(answer) == answer \in {"limitedShort", "server5xx", "lost"}

MayRetryAgain(c) == call[c].attempt <= 2

MayRetry(c) == call[c].attempt = 1

Took(c, answer) ==
  call' = [call EXCEPT
    ![c].state = IF MayRetry(c) /\ Retryable(answer) THEN "pausing" ELSE "settled",
    ![c].got = Append(@, answer)]

\* The browser takes the answer to its current attempt ...
Receive(c) ==
  LET a == call[c].attempt
  IN  /\ call[c].state = "waiting"
      /\ route[c][a].state = "answered"
      /\ Took(c, Last(route[c][a].log))
      /\ UNCHANGED <<route, sends>>

\* ... or its connection breaks first; the route goes on.
Lose(c, how) ==
  /\ call[c].state = "waiting"
  /\ Took(c, how)
  /\ UNCHANGED <<route, sends>>

ProxyNext ==
  \/ \E c \in Calls : Send(c)
  \/ \E c \in Calls, a \in Attempts, answer \in Answers : TurnedAway(c, a, answer)
  \/ \E c \in Calls, a \in Attempts, outcome \in Decisive \cup Failures :
       Exchange(c, a, outcome)
  \/ \E c \in Calls : Receive(c)
  \/ \E c \in Calls, how \in Breaks : Lose(c, how)

ProxySpec == ProxyInit /\ [][ProxyNext]_proxyVars

-----------------------------------------------------------------------------
\* Every exchange ends (AbortSignal.timeout cuts it after 30 s at the latest), the
\* browser reads what arrives, and the pause before the retry runs out.
RouteStep(c, a) ==
  \/ \E answer \in Answers : TurnedAway(c, a, answer)
  \/ \E outcome \in Decisive \cup Failures : Exchange(c, a, outcome)

FairSpec ==
  /\ ProxySpec
  /\ \A c \in Calls : WF_proxyVars(call[c].state = "pausing" /\ Send(c)) /\ WF_proxyVars(Receive(c))
  /\ \A c \in Calls, a \in Attempts : WF_proxyVars(RouteStep(c, a))

-----------------------------------------------------------------------------
\* Types of the variables.
ProxyTypes ==
  /\ \A c \in Calls :
       /\ call[c].state \in {"idle", "waiting", "pausing", "settled"}
       /\ call[c].attempt \in 0..2 /\ call[c].network \in Networks
       /\ call[c].got \in Seq(Answers \cup Breaks)
       /\ \A a \in Attempts :
            /\ route[c][a].state \in {"none", "arrived", "trying", "answered"}
            /\ route[c][a].log \in Seq(Answers)
       /\ sends[c] \in Seq((UNION {ToSet(Origins[n]) : n \in Networks}) \ {Blank})

\* Failing over is exhaustive: the route reports a failure only when every configured
\* origin has failed, each asked once and in order (route.ts:89-231).
FailureMeansAllFailed ==
  \A c \in Calls, a \in Attempts :
    LET log == route[c][a].log
        origins == {Origins[call[c].network][m] :
                      m \in 1..Len(Origins[call[c].network])} \ {Blank}
    IN  (route[c][a].state = "answered" /\ Last(log) \in Failures) =>
          /\ Len(log) = Cardinality(origins)
          /\ ToSet(log) \subseteq Failures

\* Failing over is sparing: nothing but failures precedes the outcome an exchange ends
\* with; in particular "oversized block bodies are not failover-worthy" (route.ts:107).
DecisiveEndsTheSearch ==
  \A c \in Calls, a \in Attempts :
    \A m \in 1..(Len(route[c][a].log) - 1) : route[c][a].log[m] \in Failures

\* One call reaches an origin at most twice, even when the two attempts overlap: a
\* request with an effect (boing_faucetRequest) is repeated once at the most.
AtMostTwicePerOrigin ==
  \A c \in Calls : \A o \in ToSet(sends[c]) :
    Cardinality({m \in 1..Len(sends[c]) : sends[c][m] = o}) <= 2

\* A request is repeated only if the browser learnt nothing from the first attempt: a
\* decisive answer it received is never followed by a second attempt, nor is a limiter
\* that asked for a longer pause (docs/OPERATIONS.md:75).
RepeatsOnlyWhenInTheDark ==
  \A c \in Calls :
    call[c].attempt = 2 => call[c].got[1] \in {"lost", "server5xx", "limitedShort"}

\* Every call settles.
EveryCallSettles ==
  \A c \in Calls : (call[c].state # "idle") ~> (call[c].state = "settled")

=============================================================================
