-------------------------- MODULE RateLimiterProofs --------------------------
(***************************************************************************)
(* RateLimiter for any isolates, requests and finite set of clients, any   *)
(* rule, capacity and binding.                                             *)
(***************************************************************************)
EXTENDS RateLimiter, TLAPS, FiniteSetTheorems

EntriesUpTo(n) == [at: 0..n, count: Nat, resetAt: Nat]

\* The entries after a check, whichever way it went.
LEMMA CheckType ==
  ASSUME LimiterAssumption, TypeOK, NEW i \in Isolates, NEW k \in Keys,
         checks' = checks + 1, CountInWindow(i, k) \/ OpenWindow(i, k)
  PROVE  /\ entries' \in [Isolates -> [Keys -> EntriesUpTo(checks + 1)]]
         /\ forgotten' \subseteq Isolates \X Keys
<1>0. /\ entries \in [Isolates -> [Keys -> EntriesUpTo(checks)]]
      /\ checks \in Nat /\ now \in Nat /\ Window \in Nat
      /\ forgotten \subseteq Isolates \X Keys
  BY DEF TypeOK, EntriesUpTo, LimiterAssumption
<1>1. \A e \in EntriesUpTo(checks) : e \in EntriesUpTo(checks + 1)
  BY <1>0 DEF EntriesUpTo
<1>2. \A x \in Isolates : entries[x] \in [Keys -> EntriesUpTo(checks + 1)]
  BY <1>0, <1>1
<1>3. CASE CountInWindow(i, k)
  <2>1. [entries[i][k] EXCEPT !.count = @ + 1] \in EntriesUpTo(checks + 1)
    BY <1>0, <1>1 DEF EntriesUpTo
  <2>2. [entries[i] EXCEPT ![k] = [entries[i][k] EXCEPT !.count = @ + 1]]
          \in [Keys -> EntriesUpTo(checks + 1)]
    BY <1>2, <2>1
  <2>3. entries' = [entries EXCEPT ![i] =
                      [entries[i] EXCEPT ![k] = [entries[i][k] EXCEPT !.count = @ + 1]]]
    BY <1>0, <1>3 DEF CountInWindow
  <2>4. entries' \in [Isolates -> [Keys -> EntriesUpTo(checks + 1)]]
    BY <1>0, <1>2, <2>2, <2>3
  <2> QED BY <1>0, <1>3, <2>4 DEF CountInWindow
<1>4. CASE OpenWindow(i, k)
  <2>1. PICK kept \in SUBSET Present(i) :
          /\ entries' = [entries EXCEPT ![i] = [j \in Keys |->
               IF j = k THEN [at |-> IF k \in kept THEN entries[i][k].at ELSE checks + 1,
                              count |-> 1, resetAt |-> now + Window]
               ELSE IF j \in kept THEN entries[i][j] ELSE None]]
          /\ forgotten' = forgotten \cup
               {<<i, j>> : j \in {d \in Present(i) \ kept : ~ Expired(i, d)}}
    BY <1>4 DEF OpenWindow
  <2> DEFINE opened == [at |-> IF k \in kept THEN entries[i][k].at ELSE checks + 1,
                        count |-> 1, resetAt |-> now + Window]
             row == [j \in Keys |-> IF j = k THEN opened
                                    ELSE IF j \in kept THEN entries[i][j] ELSE None]
  <2>2. opened \in EntriesUpTo(checks + 1)
    BY <1>0 DEF EntriesUpTo
  <2>3. None \in EntriesUpTo(checks + 1)
    BY <1>0 DEF EntriesUpTo, None
  <2>4. row \in [Keys -> EntriesUpTo(checks + 1)]
    BY <1>2, <2>2, <2>3
  <2>5. entries' = [entries EXCEPT ![i] = row]
    BY <2>1
  <2>6. entries' \in [Isolates -> [Keys -> EntriesUpTo(checks + 1)]]
    BY <1>0, <1>2, <2>4, <2>5
  <2>7. forgotten' \subseteq Isolates \X Keys
    BY <1>0, <2>1 DEF Present
  <2> QED BY <2>6, <2>7
<1> QED BY <1>3, <1>4

\* A log that notes one more request.
LEMMA NotedIs ==
  ASSUME TypeOK, NEW log \in Logs
  PROVE  /\ Noted(log) \in Logs /\ <<now, Cardinality(log) + 1>> \notin log
         /\ IsFiniteSet(log) /\ Cardinality(log) \in Nat
<1>1. /\ log \in SUBSET ((0..MaxTime) \X Nat) /\ IsFiniteSet(log) /\ Cardinality(log) \in Nat
      /\ \A e \in log : e[2] <= Cardinality(log)
  BY FS_CardinalityType DEF Logs
<1>2. <<now, Cardinality(log) + 1>> \notin log
  BY <1>1
<1>3. IsFiniteSet(Noted(log)) /\ Cardinality(Noted(log)) = Cardinality(log) + 1
  BY <1>1, <1>2, FS_AddElement DEF Noted
<1>4. Noted(log) \in SUBSET ((0..MaxTime) \X Nat)
  BY <1>1 DEF Noted, TypeOK
<1>5. \A e \in Noted(log) : e[2] <= Cardinality(log) + 1
  BY <1>1 DEF Noted
<1> QED BY <1>1, <1>2, <1>3, <1>4, <1>5 DEF Logs

Tracked == [state: States, isolate: Isolates, key: Keys, refused: BOOLEAN]

\* A request that arrives.
LEMMA ArriveType ==
  ASSUME LimiterAssumption, TypeOK, NEW r \in Requests, NEW i \in Isolates, NEW k \in Keys,
         Arrive(r, i, k)
  PROVE  TypeOK'
<1>1. /\ checks' = checks + 1 /\ checks' \in 0..MaxChecks
      /\ CountInWindow(i, k) \/ OpenWindow(i, k)
  BY DEF Arrive, TypeOK, LimiterAssumption
<1>2. /\ entries' \in [Isolates -> [Keys -> EntriesUpTo(checks')]]
      /\ forgotten' \subseteq Isolates \X Keys
  BY <1>1, CheckType
<1> DEFINE verdict == IF ~ Admits(i, k) THEN "denied"
                      ELSE IF HasBinding THEN "awaiting" ELSE "allowed"
<1>3. [state |-> verdict, isolate |-> i, key |-> k, refused |-> FALSE] \in Tracked
  BY DEF Tracked, States
<1>4. req' \in [Requests -> {Idle} \cup Tracked]
  BY <1>3 DEF Arrive, TypeOK, Tracked
<1>7. /\ asked \in [Isolates -> [Keys -> Logs]] /\ admitted \in [Isolates -> [Keys -> Logs]]
      /\ Noted(asked[i][k]) \in Logs /\ Noted(admitted[i][k]) \in Logs
  <2>1. asked \in [Isolates -> [Keys -> Logs]] /\ admitted \in [Isolates -> [Keys -> Logs]]
    BY DEF TypeOK
  <2>2. asked[i][k] \in Logs /\ admitted[i][k] \in Logs
    BY <2>1
  <2> QED BY <2>1, <2>2, NotedIs
<1>5. asked' \in [Isolates -> [Keys -> Logs]]
  BY <1>7 DEF Arrive
<1>6. admitted' \in [Isolates -> [Keys -> Logs]]
  BY <1>7 DEF Arrive
<1> QED BY <1>1, <1>2, <1>4, <1>5, <1>6 DEF TypeOK, Arrive, EntriesUpTo, Tracked

\* What the binding's answer does to a request that awaits it.
LEMMA AnswerType ==
  ASSUME TypeOK, NEW r \in Requests, req[r].state = "awaiting"
  PROVE  /\ req[r] \in Tracked
         /\ req[r].key \in Keys
         /\ \A s \in States :
              /\ [req EXCEPT ![r].state = s] \in [Requests -> {Idle} \cup Tracked]
              /\ [req EXCEPT ![r].state = s, ![r].refused = TRUE]
                   \in [Requests -> {Idle} \cup Tracked]
<1>1. req \in [Requests -> {Idle} \cup Tracked] /\ Idle.state = "idle"
  BY DEF TypeOK, Tracked, Idle
<1>2. req[r] \in Tracked
  BY <1>1
<1>3. ASSUME NEW s \in States
      PROVE  /\ [req[r] EXCEPT !.state = s] \in Tracked
             /\ [req[r] EXCEPT !.state = s, !.refused = TRUE] \in Tracked
  BY <1>2 DEF Tracked
<1>4. ASSUME NEW s \in States
      PROVE  /\ [req EXCEPT ![r].state = s] \in [Requests -> {Idle} \cup Tracked]
             /\ [req EXCEPT ![r].state = s, ![r].refused = TRUE]
                  \in [Requests -> {Idle} \cup Tracked]
  <2>1. [req EXCEPT ![r].state = s] = [req EXCEPT ![r] = [req[r] EXCEPT !.state = s]]
    BY <1>1
  <2>2. [req EXCEPT ![r].state = s, ![r].refused = TRUE]
          = [req EXCEPT ![r] = [req[r] EXCEPT !.state = s, !.refused = TRUE]]
    BY <1>1
  <2> QED BY <1>1, <1>3, <2>1, <2>2
<1> QED BY <1>2, <1>4 DEF Tracked

\* The binding keeps the types, whatever it answers.
LEMMA BindingType ==
  ASSUME LimiterAssumption, TypeOK, NEW r \in Requests,
         BindingAdmits(r) \/ BindingRefuses(r) \/ BindingThrows(r)
  PROVE  TypeOK'
<1>0. /\ req[r].state = "awaiting" /\ req[r].key \in Keys
      /\ {"allowed", "denied"} \subseteq States
  BY AnswerType DEF BindingAdmits, BindingRefuses, BindingThrows, States
<1>1. req' \in [Requests -> {Idle} \cup Tracked]
  <2>1. \/ req' = [req EXCEPT ![r].state = "allowed"]
        \/ req' = [req EXCEPT ![r].state = "denied", ![r].refused = TRUE]
    BY DEF BindingAdmits, BindingRefuses, BindingThrows
  <2>2. /\ [req EXCEPT ![r].state = "allowed"] \in [Requests -> {Idle} \cup Tracked]
        /\ [req EXCEPT ![r].state = "denied", ![r].refused = TRUE]
             \in [Requests -> {Idle} \cup Tracked]
    <3>1. "allowed" \in States /\ "denied" \in States
      BY DEF States
    <3>2. \A s \in States :
            /\ [req EXCEPT ![r].state = s] \in [Requests -> {Idle} \cup Tracked]
            /\ [req EXCEPT ![r].state = s, ![r].refused = TRUE]
                 \in [Requests -> {Idle} \cup Tracked]
      BY <1>0, AnswerType
    <3> QED BY <3>1, <3>2
  <2>3. CASE req' = [req EXCEPT ![r].state = "allowed"]
    BY <2>2, <2>3
  <2>4. CASE req' = [req EXCEPT ![r].state = "denied", ![r].refused = TRUE]
    BY <2>2, <2>4
  <2> QED BY <2>1, <2>3, <2>4
<1>2. passed' \in [Keys -> Nat]
  <2>1. \E n \in Nat : \/ passed' = [passed EXCEPT ![req[r].key] = n]
                       \/ passed' = passed
    <3> DEFINE k == req[r].key
               m == (IF BindingFresh(k) THEN 0 ELSE passed[k]) + 1
    <3>1. passed[k] + 1 \in Nat /\ m \in Nat
      BY <1>0 DEF TypeOK
    <3>2. \/ passed' = [passed EXCEPT ![k] = m]
          \/ passed' = [passed EXCEPT ![k] = passed[k] + 1]
          \/ passed' = passed
      BY DEF BindingAdmits, BindingRefuses, BindingThrows
    <3> HIDE DEF m
    <3> QED BY <3>1, <3>2
  <2> QED BY <1>0, <2>1 DEF TypeOK
<1>3. binding' \in [Keys -> [used: 0..BindingLimit, until: Nat]]
  <2>1. CASE BindingAdmits(r)
    <3> DEFINE k == req[r].key
               used == IF BindingFresh(k) THEN 0 ELSE binding[k].used
               new == [used |-> used + 1,
                       until |-> IF BindingFresh(k) THEN now + Window ELSE binding[k].until]
    <3>0. /\ used \in 0..BindingLimit /\ used < BindingLimit
          /\ binding[k].until \in Nat /\ now + Window \in Nat
      BY <1>0, <2>1 DEF BindingAdmits, TypeOK, LimiterAssumption
    <3>1. new \in [used: 0..BindingLimit, until: Nat]
      BY <3>0 DEF LimiterAssumption
    <3>2. binding' = [binding EXCEPT ![k] = new]
      BY <2>1 DEF BindingAdmits
    <3> QED BY <1>0, <3>1, <3>2 DEF TypeOK
  <2>2. CASE ~ BindingAdmits(r)
    BY <2>2 DEF BindingRefuses, BindingThrows, TypeOK
  <2> QED BY <2>1, <2>2
<1>4. threw' \in BOOLEAN
  BY DEF TypeOK, BindingAdmits, BindingRefuses, BindingThrows
<1> QED BY <1>1, <1>2, <1>3, <1>4
        DEF TypeOK, BindingAdmits, BindingRefuses, BindingThrows, history, Tracked

\* Every variable keeps its type, whatever arrives, answers, throws or is recycled.
THEOREM TypeCorrect == LimiterAssumption => (Spec => []TypeOK)
<1> SUFFICES ASSUME LimiterAssumption PROVE Spec => []TypeOK
  OBVIOUS
<1>1. Init => TypeOK
  <2> SUFFICES ASSUME Init PROVE TypeOK
    OBVIOUS
  <2>1. now \in 0..MaxTime /\ checks \in 0..MaxChecks /\ checks = 0
    BY DEF Init, LimiterAssumption
  <2>2. entries \in [Isolates -> [Keys -> [at: 0..checks, count: Nat, resetAt: Nat]]]
    BY <2>1 DEF Init, None
  <2>3. binding \in [Keys -> [used: 0..BindingLimit, until: Nat]]
    BY DEF Init, LimiterAssumption
  <2>4. asked \in [Isolates -> [Keys -> Logs]] /\ admitted = asked
    BY FS_EmptySet DEF Init, Logs
  <2> QED BY <2>1, <2>2, <2>3, <2>4 DEF Init, TypeOK
<1>2. TypeOK /\ [Next]_vars => TypeOK'
  <2> SUFFICES ASSUME TypeOK, [Next]_vars PROVE TypeOK'
    OBVIOUS
  <2>1. ASSUME NEW r \in Requests, Respond(r) PROVE TypeOK'
    BY <2>1 DEF Respond, TypeOK, history
  <2>2. ASSUME NEW i \in Isolates, Recycle(i) PROVE TypeOK'
    <3>1. entries' \in [Isolates -> [Keys -> [at: 0..checks, count: Nat, resetAt: Nat]]]
      <4>1. entries \in [Isolates -> [Keys -> [at: 0..checks, count: Nat, resetAt: Nat]]]
            /\ checks \in Nat
        BY DEF TypeOK
      <4>2. None \in [at: 0..checks, count: Nat, resetAt: Nat]
        BY <4>1 DEF None
      <4>3. [k \in Keys |-> None] \in [Keys -> [at: 0..checks, count: Nat, resetAt: Nat]]
        BY <4>2
      <4> QED BY <2>2, <4>1, <4>3 DEF Recycle
    <3>2. forgotten' \subseteq Isolates \X Keys
      <4>1. forgotten \subseteq Isolates \X Keys
        BY DEF TypeOK
      <4>2. forgotten' = forgotten \cup {<<i, k>> : k \in Present(i)}
        BY <2>2 DEF Recycle
      <4>3. Present(i) \subseteq Keys
        BY DEF Present
      <4>4. \A p \in {<<i, k>> : k \in Present(i)} : p \in Isolates \X Keys
        BY <4>3
      <4> QED BY <4>1, <4>2, <4>4
    <3>3. UNCHANGED <<now, req, binding, checks, asked, admitted, passed, threw>>
      BY <2>2 DEF Recycle
    <3> QED BY <3>1, <3>2, <3>3 DEF TypeOK
  <2>3. CASE Tick
    <3>1. now' \in 0..MaxTime
      BY <2>3 DEF Tick, TypeOK, LimiterAssumption
    <3>2. UNCHANGED <<entries, req, binding, checks, asked, admitted, forgotten, passed, threw>>
      BY <2>3 DEF Tick, history
    <3> QED BY <3>1, <3>2 DEF TypeOK
  <2>4. CASE UNCHANGED vars
    BY <2>4 DEF vars, history, TypeOK
  <2> QED BY ArriveType, BindingType, <2>1, <2>2, <2>3, <2>4 DEF Next
<1> QED BY <1>1, <1>2, PTL DEF Spec

-----------------------------------------------------------------------------
\* Pruning leaves room for the one entry that check is about to insert.
LEMMA PruneLeavesRoom ==
  ASSUME LimiterAssumption, SizeBounded, NEW i \in Isolates, NEW kept, Prune(i, kept)
  PROVE  kept \subseteq Present(i) /\ IsFiniteSet(kept) /\ Cardinality(kept) < MaxEntries
<1> DEFINE open == {k \in Present(i) : ~ Expired(i, k)}
<1>1. IsFiniteSet(Present(i)) /\ IsFiniteSet(open) /\ open \subseteq Present(i)
  <2>1. Present(i) \subseteq Keys /\ open \subseteq Keys
    BY DEF Present
  <2> QED BY <2>1, FS_Subset DEF LimiterAssumption
<1>2. /\ Cardinality(Present(i)) \in Nat /\ Cardinality(open) \in Nat
      /\ Cardinality(open) <= Cardinality(Present(i))
      /\ Cardinality(Present(i)) <= MaxEntries
  BY <1>1, FS_CardinalityType, FS_Subset DEF SizeBounded
<1>3. CASE Cardinality(Present(i)) < MaxEntries
  BY <1>1, <1>3 DEF Prune
<1>4. CASE ~ (Cardinality(Present(i)) < MaxEntries) /\ Cardinality(open) < MaxEntries
  BY <1>1, <1>4 DEF Prune
<1>5. CASE ~ (Cardinality(Present(i)) < MaxEntries) /\ ~ (Cardinality(open) < MaxEntries)
  <2>1. kept \subseteq open /\ Cardinality(kept) = Cardinality(open) - DropCount
    BY <1>5 DEF Prune
  <2>2. IsFiniteSet(kept)
    BY <1>1, <2>1, FS_Subset
  <2>3. Cardinality(kept) < MaxEntries
    BY <1>2, <2>1 DEF LimiterAssumption
  <2> QED BY <1>1, <2>1, <2>2, <2>3
<1> QED BY <1>3, <1>4, <1>5

\* A Map that changes on one isolate leaves the others' sizes alone.
LEMMA OneMapChanges ==
  ASSUME TypeOK, SizeBounded, NEW i \in Isolates, NEW row,
         entries' = [entries EXCEPT ![i] = row],
         Cardinality({k \in Keys : row[k].at # 0}) <= MaxEntries
  PROVE  SizeBounded'
<1>1. entries'[i] = row /\ \A x \in Isolates \ {i} : entries'[x] = entries[x]
  BY DEF TypeOK
<1>2. ASSUME NEW x \in Isolates PROVE Cardinality(Present(x)') <= MaxEntries
  <2>1. CASE x = i
    <3>1. Present(x)' = {k \in Keys : row[k].at # 0}
      BY <1>1, <2>1 DEF Present
    <3> QED BY <3>1
  <2>2. CASE x # i
    <3>1. Present(x)' = Present(x)
      BY <1>1, <2>2 DEF Present
    <3> QED BY <3>1 DEF SizeBounded
  <2> QED BY <2>1, <2>2
<1> QED BY <1>2 DEF SizeBounded

\* A check in memory keeps the size: room is made before a window opens.
LEMMA CheckKeepsSize ==
  ASSUME LimiterAssumption, TypeOK, SizeBounded, NEW i \in Isolates, NEW k \in Keys,
         CountInWindow(i, k) \/ OpenWindow(i, k)
  PROVE  SizeBounded'
<1>1. CASE CountInWindow(i, k)
  <2> DEFINE row == [entries[i] EXCEPT ![k] = [entries[i][k] EXCEPT !.count = @ + 1]]
  <2>0. /\ entries \in [Isolates -> [Keys -> [at: 0..checks, count: Nat, resetAt: Nat]]]
        /\ entries[i] \in [Keys -> [at: 0..checks, count: Nat, resetAt: Nat]]
        /\ entries[i][k] \in [at: 0..checks, count: Nat, resetAt: Nat]
    BY DEF TypeOK
  <2>1. entries' = [entries EXCEPT ![i] = row]
    BY <1>1, <2>0 DEF CountInWindow
  <2>2. \A j \in Keys : row[j].at = entries[i][j].at
    BY <2>0
  <2>3. {j \in Keys : row[j].at # 0} = Present(i)
    BY <2>2 DEF Present
  <2>4. Cardinality({j \in Keys : row[j].at # 0}) <= MaxEntries
    BY <2>3 DEF SizeBounded
  <2> HIDE DEF row
  <2> QED BY <2>1, <2>4, OneMapChanges
<1>2. CASE OpenWindow(i, k)
  <2>1. PICK kept \in SUBSET Present(i) :
          /\ Prune(i, kept)
          /\ entries' = [entries EXCEPT ![i] = [j \in Keys |->
               IF j = k THEN [at |-> IF k \in kept THEN entries[i][k].at ELSE checks + 1,
                              count |-> 1, resetAt |-> now + Window]
               ELSE IF j \in kept THEN entries[i][j] ELSE None]]
    BY <1>2 DEF OpenWindow
  <2> DEFINE row == [j \in Keys |->
               IF j = k THEN [at |-> IF k \in kept THEN entries[i][k].at ELSE checks + 1,
                              count |-> 1, resetAt |-> now + Window]
               ELSE IF j \in kept THEN entries[i][j] ELSE None]
             filled == {j \in Keys : row[j].at # 0}
  <2>2. IsFiniteSet(kept) /\ Cardinality(kept) < MaxEntries
    BY <2>1, PruneLeavesRoom
  <2>3. /\ IsFiniteSet(kept \cup {k})
        /\ Cardinality(kept \cup {k}) =
             IF k \in kept THEN Cardinality(kept) ELSE Cardinality(kept) + 1
    BY <2>2, FS_AddElement
  <2>4. Cardinality(kept) \in Nat /\ MaxEntries \in Nat
    BY <2>2, FS_CardinalityType DEF LimiterAssumption
  <2>5. filled \subseteq kept \cup {k}
    BY DEF None
  <2>6. Cardinality(filled) \in Nat /\ Cardinality(filled) <= Cardinality(kept \cup {k})
    BY <2>3, <2>5, FS_Subset, FS_CardinalityType
  <2>7. Cardinality(filled) <= MaxEntries
    BY <2>2, <2>3, <2>4, <2>6
  <2>8. entries' = [entries EXCEPT ![i] = row]
    BY <2>1
  <2> HIDE DEF row
  <2> QED BY <2>7, <2>8, OneMapChanges
<1> QED BY <1>1, <1>2

\* No Map ever holds more than its capacity, however many clients knock.
THEOREM MemoryBounded == LimiterAssumption => (Spec => []SizeBounded)
<1> SUFFICES ASSUME LimiterAssumption PROVE Spec => []SizeBounded
  OBVIOUS
<1>1. Init => SizeBounded
  <2> SUFFICES ASSUME Init, NEW i \in Isolates PROVE Cardinality(Present(i)) <= MaxEntries
    BY DEF SizeBounded
  <2>1. Present(i) = {}
    BY DEF Init, Present, None
  <2> QED BY <2>1, FS_EmptySet DEF LimiterAssumption
<1>2. TypeOK /\ SizeBounded /\ [Next]_vars => SizeBounded'
  <2> SUFFICES ASSUME TypeOK, SizeBounded, [Next]_vars PROVE SizeBounded'
    OBVIOUS
  <2>1. ASSUME NEW r \in Requests, NEW i \in Isolates, NEW k \in Keys, Arrive(r, i, k)
        PROVE  SizeBounded'
    BY <2>1, CheckKeepsSize DEF Arrive
  <2>2. ASSUME NEW i \in Isolates, Recycle(i) PROVE SizeBounded'
    <3>1. entries' = [entries EXCEPT ![i] = [k \in Keys |-> None]]
      BY <2>2 DEF Recycle
    <3>2. {k \in Keys : [j \in Keys |-> None][k].at # 0} = {}
      BY DEF None
    <3>3. Cardinality({k \in Keys : [j \in Keys |-> None][k].at # 0}) <= MaxEntries
      BY <3>2, FS_EmptySet DEF LimiterAssumption
    <3> QED BY <3>1, <3>3, OneMapChanges
  <2>3. CASE UNCHANGED entries
    BY <2>3 DEF SizeBounded, Present
  <2>4. ASSUME NEW r \in Requests,
               \/ BindingAdmits(r) \/ BindingRefuses(r) \/ BindingThrows(r) \/ Respond(r)
        PROVE  UNCHANGED entries
    BY <2>4 DEF BindingAdmits, BindingRefuses, BindingThrows, Respond
  <2>5. Tick \/ UNCHANGED vars => UNCHANGED entries
    BY DEF Tick, vars
  <2> QED BY <2>1, <2>2, <2>3, <2>4, <2>5 DEF Next
<1> QED BY <1>1, <1>2, TypeCorrect, PTL DEF Spec

-----------------------------------------------------------------------------
\* While the binding has not failed, what it let through is what it counted.
CountsAgree == ~ threw => \A k \in Keys : passed[k] = binding[k].used

\* All isolates together stay under the binding's limit until it fails.
THEOREM CeilingHolds == LimiterAssumption => (Spec => []GlobalCeiling)
<1> SUFFICES ASSUME LimiterAssumption PROVE Spec => []GlobalCeiling
  OBVIOUS
<1>1. Init => CountsAgree
  BY DEF Init, CountsAgree
<1>2. TypeOK /\ CountsAgree /\ [Next]_vars => CountsAgree'
  <2> SUFFICES ASSUME TypeOK, CountsAgree, [Next]_vars PROVE CountsAgree'
    OBVIOUS
  <2>1. ASSUME NEW r \in Requests, BindingAdmits(r) PROVE CountsAgree'
    <3> DEFINE k == req[r].key
               used == (IF BindingFresh(k) THEN 0 ELSE binding[k].used) + 1
               until == IF BindingFresh(k) THEN now + Window ELSE binding[k].until
               through == (IF BindingFresh(k) THEN 0 ELSE passed[k]) + 1
    <3>1. k \in Keys
      BY <2>1, AnswerType DEF BindingAdmits
    <3>2. /\ binding' = [binding EXCEPT ![k] = [used |-> used, until |-> until]]
          /\ passed' = [passed EXCEPT ![k] = through]
          /\ threw' = threw
      BY <2>1 DEF BindingAdmits
    <3>3. ~ threw => used = through
      BY <3>1 DEF CountsAgree
    <3> HIDE DEF used, until, through, k
    <3>4. /\ binding'[k].used = used /\ passed'[k] = through
          /\ \A j \in Keys \ {k} : binding'[j] = binding[j] /\ passed'[j] = passed[j]
      BY <3>1, <3>2 DEF TypeOK
    <3> QED BY <3>2, <3>3, <3>4 DEF CountsAgree
  <2>2. ASSUME NEW r \in Requests, BindingThrows(r) PROVE CountsAgree'
    BY <2>2 DEF BindingThrows, CountsAgree
  <2>3. CASE UNCHANGED <<binding, passed, threw>>
    BY <2>3 DEF CountsAgree
  <2>4. ASSUME NEW r \in Requests, NEW i \in Isolates, NEW k \in Keys, Arrive(r, i, k)
        PROVE  UNCHANGED <<binding, passed, threw>>
    BY <2>4 DEF Arrive
  <2>5. ASSUME NEW r \in Requests, BindingRefuses(r) \/ Respond(r)
        PROVE  UNCHANGED <<binding, passed, threw>>
    BY <2>5 DEF BindingRefuses, Respond
  <2>6. ASSUME NEW i \in Isolates, Recycle(i) PROVE UNCHANGED <<binding, passed, threw>>
    BY <2>6 DEF Recycle
  <2>7. Tick \/ UNCHANGED vars => UNCHANGED <<binding, passed, threw>>
    BY DEF Tick, vars
  <2> QED BY <2>1, <2>2, <2>3, <2>4, <2>5, <2>6, <2>7 DEF Next
<1>3. TypeOK /\ CountsAgree => GlobalCeiling
  BY DEF TypeOK, CountsAgree, GlobalCeiling
<1> QED BY <1>1, <1>2, <1>3, TypeCorrect, PTL DEF Spec

-----------------------------------------------------------------------------
\* What a log has for a window that is open since tick s: a request at s itself, no more in the
\* window than it counts and admits, less than the limit in what is left of the one before.
Within(log, s) == {e \in log : s <= e[1]}
Before(log, s) == {e \in log : e[1] < s /\ s < e[1] + Window}
OpenSince(log, entry, s) ==
  /\ entry.resetAt = s + Window
  /\ \A e \in log : e[1] < s + Window
  /\ \E e \in log : e[1] = s
  /\ Cardinality(Within(log, s)) <= Limit /\ Cardinality(Within(log, s)) <= entry.count
  /\ Cardinality(Before(log, s)) < Limit

\* And while no window is open at tick t: less than the limit in the last Window ticks.
Closed(log, t) ==
  /\ \A e \in log : e[1] < t
  /\ Cardinality({e \in log : t < e[1] + Window}) < Limit

NoBurst(log) == \A t \in Nat : InSpan(log, t) < 2 * Limit
Sparse(log, entry, t) ==
  /\ NoBurst(log)
  /\ entry.at = 0 => Closed(log, t)
  /\ entry.at # 0 => /\ \A e \in log : e[1] <= t
                     /\ \E s \in Nat : s <= t /\ OpenSince(log, entry, s)
Sparsely == \A i \in Isolates, k \in Keys :
              <<i, k>> \notin forgotten => Sparse(admitted[i][k], entries[i][k], now)

\* A log is a finite set of times.
LEMMA LogIs ==
  ASSUME NEW log \in Logs
  PROVE  /\ IsFiniteSet(log) /\ \A e \in log : e[1] \in Nat
         /\ \A S \in SUBSET log : IsFiniteSet(S) /\ Cardinality(S) \in Nat
<1>1. IsFiniteSet(log) /\ \A e \in log : e[1] \in Nat
  BY DEF Logs
<1> QED BY <1>1, FS_Subset, FS_CardinalityType

\* A window that has ended leaves less than the limit in the last Window ticks.
LEMMA Ends ==
  ASSUME LimiterAssumption, NEW log \in Logs, NEW entry, NEW s \in Nat, NEW t \in Nat,
         OpenSince(log, entry, s), entry.resetAt <= t
  PROVE  Closed(log, t)
<1> DEFINE W == Within(log, s)
           T == {e \in log : t < e[1] + Window}
<1>1. s + Window <= t /\ Window \in Nat /\ Limit \in Nat
  BY DEF OpenSince, LimiterAssumption
<1>2. PICK first \in log : first[1] = s
  BY DEF OpenSince
<1>3. first \in W /\ T \subseteq W \ {first}
  BY <1>1, <1>2, LogIs DEF Within
<1>4. IsFiniteSet(W) /\ Cardinality(W) \in Nat /\ Cardinality(W) <= Limit
  BY LogIs DEF Within, OpenSince
<1>5. IsFiniteSet(W \ {first}) /\ Cardinality(W \ {first}) = Cardinality(W) - 1
  BY <1>3, <1>4, FS_RemoveElement
<1>6. Cardinality(T) <= Cardinality(W \ {first}) /\ Cardinality(T) \in Nat
  BY <1>3, <1>5, FS_Subset, LogIs
<1>7. \A e \in log : e[1] < t
  BY <1>1, LogIs DEF OpenSince
<1> QED BY <1>1, <1>4, <1>5, <1>6, <1>7 DEF Closed

\* One more element.
LEMMA OneMore ==
  ASSUME NEW S, IsFiniteSet(S), NEW x
  PROVE  /\ IsFiniteSet(S \cup {x}) /\ Cardinality(S \cup {x}) \in Nat
         /\ Cardinality(S \cup {x}) <= Cardinality(S) + 1
<1>1. /\ IsFiniteSet(S \cup {x})
      /\ Cardinality(S \cup {x}) = IF x \in S THEN Cardinality(S) ELSE Cardinality(S) + 1
  BY FS_AddElement
<1>2. Cardinality(S) \in Nat
  BY FS_CardinalityType
<1> QED BY <1>1, <1>2

\* A span that ended before now is as it was.
LEMMA PastSpans ==
  ASSUME TypeOK, NEW log \in Logs, NoBurst(log), NEW t \in Nat, t < now
  PROVE  InSpan(Noted(log), t) < 2 * Limit
<1>1. {e \in Noted(log) : e[1] <= t /\ t < e[1] + Window} = {e \in log : e[1] <= t /\ t < e[1] + Window}
  BY DEF Noted, TypeOK
<1> QED BY <1>1 DEF NoBurst, InSpan

\* A request that opens a window, after Window ticks with less than the limit.
LEMMA Opens ==
  ASSUME LimiterAssumption, TypeOK, NEW log \in Logs, NoBurst(log), Closed(log, now),
         NEW entry, entry.resetAt = now + Window, entry.count = 1
  PROVE  /\ NoBurst(Noted(log)) /\ OpenSince(Noted(log), entry, now)
         /\ \A e \in Noted(log) : e[1] <= now
<1> DEFINE x == <<now, Cardinality(log) + 1>>
           T == {e \in log : now < e[1] + Window}
<1>1. now \in Nat /\ Window \in Nat \ {0} /\ Limit \in Nat \ {0}
  BY DEF TypeOK, LimiterAssumption
<1>2. Noted(log) = log \cup {x} /\ x[1] = now
  BY DEF Noted
<1> HIDE DEF x
<1>3. \A e \in log : e[1] \in Nat /\ e[1] < now
  BY LogIs DEF Closed
<1>4. IsFiniteSet(T) /\ Cardinality(T) \in Nat /\ Cardinality(T) < Limit
  BY LogIs DEF Closed
<1>5. ASSUME NEW t \in Nat, now <= t PROVE InSpan(Noted(log), t) < 2 * Limit
  <2> DEFINE S == {e \in Noted(log) : e[1] <= t /\ t < e[1] + Window}
  <2>1. S \subseteq T \cup {x}
    BY <1>1, <1>2, <1>3, <1>5
  <2>2. IsFiniteSet(T \cup {x}) /\ Cardinality(T \cup {x}) <= Cardinality(T) + 1
    BY <1>4, OneMore
  <2>3. Cardinality(S) <= Cardinality(T \cup {x}) /\ Cardinality(S) \in Nat
    BY <2>1, <2>2, FS_Subset, FS_CardinalityType
  <2>4. Cardinality(T \cup {x}) \in Nat
    BY <2>2, FS_CardinalityType
  <2> HIDE DEF S, T
  <2>5. Cardinality(S) < 2 * Limit
    BY <1>1, <1>4, <2>2, <2>3, <2>4
  <2> QED BY <2>5 DEF InSpan, S
<1>6. NoBurst(Noted(log))
  <2> SUFFICES ASSUME NEW t \in Nat PROVE InSpan(Noted(log), t) < 2 * Limit
    BY DEF NoBurst
  <2> QED BY <1>1, <1>5, PastSpans
<1>7. Within(Noted(log), now) = {x}
  BY <1>1, <1>2, <1>3 DEF Within
<1>8. Before(Noted(log), now) = T
  BY <1>1, <1>2, <1>3 DEF Before
<1>9. Cardinality(Within(Noted(log), now)) = 1
  BY <1>7, FS_Singleton
<1>10. \A e \in Noted(log) : e[1] <= now /\ e[1] < now + Window
  BY <1>1, <1>2, <1>3
<1>11. \E e \in Noted(log) : e[1] = now
  BY <1>2
<1> QED BY <1>1, <1>4, <1>6, <1>8, <1>9, <1>10, <1>11 DEF OpenSince

\* A request in an open window that has room for it: what a span has of the window and of the
\* one before is less than twice the limit, for its first request lies before the span.
LEMMA Counts ==
  ASSUME LimiterAssumption, TypeOK, NEW log \in Logs, NoBurst(log), NEW entry, NEW s \in Nat,
         OpenSince(log, entry, s), s <= now, now < entry.resetAt, \A e \in log : e[1] <= now,
         NEW next, next.resetAt = entry.resetAt, next.count = entry.count + 1, entry.count \in Nat,
         next.count <= Limit
  PROVE  /\ NoBurst(Noted(log)) /\ OpenSince(Noted(log), next, s)
         /\ \A e \in Noted(log) : e[1] <= now
<1> DEFINE x == <<now, Cardinality(log) + 1>>
           W == Within(log, s)
           B == Before(log, s)
<1>1. now \in Nat /\ Window \in Nat \ {0} /\ Limit \in Nat \ {0} /\ now < s + Window
  BY DEF TypeOK, LimiterAssumption, OpenSince
<1>2. Noted(log) = log \cup {x} /\ x[1] = now
  BY DEF Noted
<1> HIDE DEF x
<1>3. \A e \in log : e[1] \in Nat /\ e[1] <= now
  BY LogIs
<1>4. /\ IsFiniteSet(W) /\ Cardinality(W) \in Nat /\ Cardinality(W) <= entry.count
      /\ IsFiniteSet(B) /\ Cardinality(B) \in Nat /\ Cardinality(B) < Limit
  BY LogIs DEF Within, Before, OpenSince
<1>5. Within(Noted(log), s) = W \cup {x}
  BY <1>1, <1>2, <1>3 DEF Within
<1>6. Before(Noted(log), s) = B
  BY <1>1, <1>2, <1>3 DEF Before
<1> HIDE DEF W, B
<1>7. /\ IsFiniteSet(W \cup {x}) /\ Cardinality(W \cup {x}) \in Nat
      /\ Cardinality(W \cup {x}) <= Cardinality(W) + 1
  BY <1>4, OneMore
<1>8. Cardinality(W \cup {x}) <= next.count /\ Cardinality(W \cup {x}) <= Limit
  BY <1>1, <1>4, <1>7
<1>9. ASSUME NEW t \in Nat, now <= t PROVE InSpan(Noted(log), t) < 2 * Limit
  <2> DEFINE S == {e \in Noted(log) : e[1] <= t /\ t < e[1] + Window}
  <2>1. S \subseteq (W \cup {x}) \cup B
    BY <1>1, <1>2, <1>3, <1>9 DEF W, B, Within, Before
  <2>2. /\ IsFiniteSet((W \cup {x}) \cup B)
        /\ Cardinality((W \cup {x}) \cup B)
             = Cardinality(W \cup {x}) + Cardinality(B) - Cardinality((W \cup {x}) \cap B)
    BY <1>4, <1>7, FS_Union
  <2>3. Cardinality((W \cup {x}) \cap B) \in Nat /\ Cardinality((W \cup {x}) \cup B) \in Nat
    <3>1. IsFiniteSet((W \cup {x}) \cap B)
      BY <1>7, FS_Subset
    <3> QED BY <2>2, <3>1, FS_CardinalityType
  <2>4. Cardinality(S) <= Cardinality((W \cup {x}) \cup B) /\ Cardinality(S) \in Nat
    BY <2>1, <2>2, FS_Subset, FS_CardinalityType
  <2> HIDE DEF S
  <2>5. Cardinality(S) < 2 * Limit
    BY <1>1, <1>4, <1>7, <1>8, <2>2, <2>3, <2>4
  <2> QED BY <2>5 DEF InSpan, S
<1>10. NoBurst(Noted(log))
  <2> SUFFICES ASSUME NEW t \in Nat PROVE InSpan(Noted(log), t) < 2 * Limit
    BY DEF NoBurst
  <2> QED BY <1>1, <1>9, PastSpans
<1>11. \A e \in Noted(log) : e[1] <= now /\ e[1] < s + Window
  BY <1>1, <1>2, <1>3
<1>12. \E e \in Noted(log) : e[1] = s
  BY <1>2 DEF OpenSince
<1>13. next.resetAt = s + Window
  BY DEF OpenSince
<1> QED BY <1>4, <1>5, <1>6, <1>8, <1>10, <1>11, <1>12, <1>13 DEF OpenSince

\* The entries of an isolate after a check: that of the key, and the others as they were or gone.
LEMMA OthersAfter ==
  ASSUME LimiterAssumption, TypeOK, NEW i \in Isolates, NEW k \in Keys, CountInWindow(i, k) \/ OpenWindow(i, k)
  PROVE  /\ forgotten \subseteq forgotten'
         /\ \A x \in Isolates \ {i} : entries'[x] = entries[x]
         /\ \A j \in Keys \ {k} :
              \/ entries'[i][j] = entries[i][j]
              \/ /\ entries'[i][j] = None
                 /\ entries[i][j].at = 0 \/ Expired(i, j) \/ <<i, j>> \in forgotten'
<1>1. entries \in [Isolates -> [Keys -> [at: 0..checks, count: Nat, resetAt: Nat]]]
  BY DEF TypeOK
<1>2. CASE CountInWindow(i, k)
  BY <1>1, <1>2 DEF CountInWindow
<1>3. CASE OpenWindow(i, k)
  <2>1. PICK kept \in SUBSET Present(i) :
          /\ entries' = [entries EXCEPT ![i] = [j \in Keys |->
               IF j = k THEN [at |-> IF k \in kept THEN entries[i][k].at ELSE checks + 1,
                              count |-> 1, resetAt |-> now + Window]
               ELSE IF j \in kept THEN entries[i][j] ELSE None]]
          /\ forgotten' = forgotten \cup
               {<<i, j>> : j \in {d \in Present(i) \ kept : ~ Expired(i, d)}}
    BY <1>3 DEF OpenWindow
  <2>2. \A j \in Keys \ {k} : entries'[i][j] = IF j \in kept THEN entries[i][j] ELSE None
    BY <1>1, <2>1
  <2>3. \A j \in Keys \ kept : entries[i][j].at = 0 \/ Expired(i, j) \/ <<i, j>> \in forgotten'
    BY <2>1 DEF Present
  <2> QED BY <1>1, <2>1, <2>2, <2>3
<1> QED BY <1>2, <1>3

\* And the entry of the key.
LEMMA EntryAfter ==
  ASSUME LimiterAssumption, TypeOK, NEW i \in Isolates, NEW k \in Keys
  PROVE  /\ CountInWindow(i, k) =>
              /\ entries[i][k].at # 0 /\ now < entries[i][k].resetAt
              /\ entries'[i][k].at # 0 /\ entries'[i][k].resetAt = entries[i][k].resetAt
              /\ entries'[i][k].count = entries[i][k].count + 1
         /\ OpenWindow(i, k) =>
              /\ entries[i][k].at = 0 \/ entries[i][k].resetAt <= now
              /\ entries'[i][k].at # 0 /\ entries'[i][k].resetAt = now + Window /\ entries'[i][k].count = 1
<1>1. /\ entries \in [Isolates -> [Keys -> [at: 0..checks, count: Nat, resetAt: Nat]]]
      /\ now \in Nat /\ checks \in Nat
  BY DEF TypeOK
<1>2. ASSUME CountInWindow(i, k)
      PROVE  /\ entries[i][k].at # 0 /\ now < entries[i][k].resetAt
             /\ entries'[i][k].at # 0 /\ entries'[i][k].resetAt = entries[i][k].resetAt
             /\ entries'[i][k].count = entries[i][k].count + 1
  <2>1. entries'[i][k] = [entries[i][k] EXCEPT !.count = @ + 1]
    BY <1>1, <1>2 DEF CountInWindow
  <2> QED BY <1>1, <1>2, <2>1 DEF CountInWindow, Expired
<1>3. ASSUME OpenWindow(i, k)
      PROVE  /\ entries[i][k].at = 0 \/ entries[i][k].resetAt <= now
             /\ entries'[i][k].at # 0 /\ entries'[i][k].resetAt = now + Window /\ entries'[i][k].count = 1
  <2>1. PICK kept \in SUBSET Present(i) :
          entries' = [entries EXCEPT ![i] = [j \in Keys |->
               IF j = k THEN [at |-> IF k \in kept THEN entries[i][k].at ELSE checks + 1,
                              count |-> 1, resetAt |-> now + Window]
               ELSE IF j \in kept THEN entries[i][j] ELSE None]]
    BY <1>3 DEF OpenWindow
  <2>2. entries'[i][k] = [at |-> IF k \in kept THEN entries[i][k].at ELSE checks + 1,
                          count |-> 1, resetAt |-> now + Window]
    BY <1>1, <2>1
  <2>3. k \in kept => entries[i][k].at # 0
    BY DEF Present
  <2>4. (IF k \in kept THEN entries[i][k].at ELSE checks + 1) # 0
    BY <1>1, <2>3
  <2> QED BY <1>3, <2>2, <2>4 DEF OpenWindow, Expired
<1> QED BY <1>2, <1>3

\* What is sparse stays so without a request, and closes when its window has ended.
LEMMA Waning ==
  ASSUME LimiterAssumption, NEW log \in Logs, NEW entry, NEW t \in Nat, Sparse(log, entry, t), NEW u \in Nat, t <= u
  PROVE  Sparse(log, entry, u) /\ (entry.at = 0 \/ entry.resetAt <= u => Closed(log, u))
<1>1. \A e \in log : e[1] \in Nat
  BY LogIs
<1>2. CASE entry.at = 0
  <2>1. \A e \in log : e[1] < t
    BY <1>2 DEF Sparse, Closed
  <2> DEFINE T == {e \in log : t < e[1] + Window}
             U == {e \in log : u < e[1] + Window}
  <2>2. U \in SUBSET T /\ IsFiniteSet(T) /\ Cardinality(T) \in Nat /\ Cardinality(U) \in Nat
    BY <1>1, LogIs DEF LimiterAssumption
  <2>3. Cardinality(U) <= Cardinality(T)
    BY <2>2, FS_Subset
  <2>4. Cardinality(T) < Limit
    BY <1>2 DEF Sparse, Closed
  <2>5. Cardinality(U) < Limit
    BY <2>2, <2>3, <2>4 DEF LimiterAssumption
  <2>6. Closed(log, u)
    BY <1>1, <2>1, <2>5 DEF Closed
  <2> QED BY <1>2, <2>6 DEF Sparse
<1>3. CASE entry.at # 0
  <2>1. PICK s \in Nat : s <= t /\ OpenSince(log, entry, s)
    BY <1>3 DEF Sparse
  <2>2. \A e \in log : e[1] <= u
    BY <1>1, <1>3 DEF Sparse
  <2>3. entry.resetAt <= u => Closed(log, u)
    BY <2>1, Ends
  <2> QED BY <1>3, <2>1, <2>2, <2>3 DEF Sparse
<1> QED BY <1>2, <1>3

\* A request that arrives keeps the counted ones apart, window by window.
LEMMA ArriveSparse ==
  ASSUME LimiterAssumption, TypeOK, Sparsely, NEW r \in Requests, NEW i \in Isolates, NEW k \in Keys,
         Arrive(r, i, k)
  PROVE  Sparsely'
<1>1. /\ CountInWindow(i, k) \/ OpenWindow(i, k)
      /\ now' = now /\ now \in Nat /\ Limit \in Nat \ {0}
  BY DEF Arrive, TypeOK, LimiterAssumption
<1>2. /\ admitted \in [Isolates -> [Keys -> Logs]]
      /\ entries \in [Isolates -> [Keys -> [at: 0..checks, count: Nat, resetAt: Nat]]]
  BY DEF TypeOK
<1>3. \/ ~ Admits(i, k) /\ admitted' = admitted
      \/ Admits(i, k) /\ admitted' = [admitted EXCEPT ![i][k] = Noted(@)]
  BY DEF Arrive
<1>4. ASSUME NEW x \in Isolates, NEW j \in Keys, <<x, j>> \notin forgotten', <<x, j>> # <<i, k>>
      PROVE  Sparse(admitted'[x][j], entries'[x][j], now')
  <2>1. admitted'[x][j] = admitted[x][j]
    BY <1>2, <1>3, <1>4
  <2>2. Sparse(admitted[x][j], entries[x][j], now) /\ admitted[x][j] \in Logs
    BY <1>1, <1>2, <1>4, OthersAfter DEF Sparsely
  <2>3. CASE entries'[x][j] = entries[x][j]
    BY <1>1, <2>1, <2>2, <2>3
  <2>4. CASE entries'[x][j] # entries[x][j]
    <3>1. x = i /\ j # k /\ entries'[x][j] = None /\ (entries[x][j].at = 0 \/ Expired(x, j))
      BY <1>1, <1>4, <2>4, OthersAfter
    <3>2. Closed(admitted[x][j], now) /\ NoBurst(admitted[x][j])
      BY <1>1, <2>2, <3>1, Waning DEF Expired, Sparse
    <3> QED BY <1>1, <2>1, <3>1, <3>2 DEF Sparse, None
  <2> QED BY <2>3, <2>4
<1>5. ASSUME <<i, k>> \notin forgotten' PROVE Sparse(admitted'[i][k], entries'[i][k], now')
  <2> DEFINE log == admitted[i][k]
             entry == entries[i][k]
             next == entries'[i][k]
  <2>1. Sparse(log, entry, now) /\ log \in Logs /\ entry.count \in Nat
    BY <1>1, <1>2, <1>5, OthersAfter DEF Sparsely
  <2>2. Admits(i, k) <=> next.count <= Limit
    BY DEF Admits
  <2>3. /\ ~ Admits(i, k) => admitted'[i][k] = log
        /\ Admits(i, k) => admitted'[i][k] = Noted(log)
    BY <1>2, <1>3
  <2>4. CASE CountInWindow(i, k)
    <3>1. /\ entry.at # 0 /\ now < entry.resetAt /\ next.at # 0 /\ next.resetAt = entry.resetAt
          /\ next.count = entry.count + 1
      BY <2>4, EntryAfter
    <3> HIDE DEF log, entry, next
    <3>2. PICK s \in Nat : s <= now /\ OpenSince(log, entry, s)
      BY <2>1, <3>1 DEF Sparse
    <3>3. NoBurst(log) /\ \A e \in log : e[1] <= now
      BY <2>1, <3>1 DEF Sparse
    <3>4. ASSUME next.count <= Limit
          PROVE  /\ NoBurst(Noted(log)) /\ OpenSince(Noted(log), next, s)
                 /\ \A e \in Noted(log) : e[1] <= now
      BY <2>1, <3>1, <3>2, <3>3, <3>4, Counts
    <3>5. OpenSince(log, next, s)
      <4>1. Cardinality(Within(log, s)) \in Nat
        BY <2>1, LogIs DEF Within
      <4> QED BY <2>1, <3>1, <3>2, <4>1 DEF OpenSince
    <3>6. CASE Admits(i, k)
      BY <1>1, <2>2, <2>3, <3>1, <3>2, <3>4, <3>6 DEF Sparse, next
    <3>7. CASE ~ Admits(i, k)
      BY <1>1, <2>3, <3>1, <3>2, <3>3, <3>5, <3>7 DEF Sparse, next
    <3> QED BY <3>6, <3>7
  <2>5. CASE OpenWindow(i, k)
    <3>1. /\ entry.at = 0 \/ entry.resetAt <= now
          /\ next.at # 0 /\ next.resetAt = now + Window /\ next.count = 1
      BY <2>5, EntryAfter
    <3>2. Admits(i, k)
      BY <1>1, <2>2, <3>1
    <3> HIDE DEF log, entry, next
    <3>3. Closed(log, now) /\ NoBurst(log)
      BY <1>1, <2>1, <3>1, Waning DEF Sparse
    <3>4. /\ NoBurst(Noted(log)) /\ OpenSince(Noted(log), next, now)
          /\ \A e \in Noted(log) : e[1] <= now
      BY <2>1, <3>1, <3>3, Opens
    <3> QED BY <1>1, <2>3, <3>1, <3>2, <3>4 DEF Sparse, next
  <2> QED BY <1>1, <2>4, <2>5
<1> QED BY <1>4, <1>5 DEF Sparsely

\* No client gets twice the limit within any Window ticks from an isolate that has not forgotten
\* it, however its requests lie around the borders of windows (rate-limit.ts:91-101).
THEOREM Bursts == LimiterAssumption => (Spec => []BurstBound)
<1> SUFFICES ASSUME LimiterAssumption PROVE Spec => []BurstBound
  OBVIOUS
<1>1. Init => Sparsely
  <2> SUFFICES ASSUME Init PROVE Sparsely
    OBVIOUS
  <2>1. Limit \in Nat \ {0} /\ Cardinality({}) = 0
    BY FS_EmptySet DEF LimiterAssumption
  <2>2. \A t \in Nat : InSpan({}, t) = 0
    <3>1. \A t \in Nat : {e \in {} : e[1] <= t /\ t < e[1] + Window} = {}
      OBVIOUS
    <3> QED BY <2>1, <3>1 DEF InSpan
  <2>3. NoBurst({})
    BY <2>1, <2>2 DEF NoBurst
  <2>4. Closed({}, 0)
    <3>1. {e \in {} : 0 < e[1] + Window} = {}
      OBVIOUS
    <3> QED BY <2>1, <3>1 DEF Closed
  <2>5. Sparse({}, None, 0)
    BY <2>3, <2>4 DEF Sparse, None
  <2> QED BY <2>5 DEF Init, Sparsely
<1>2. TypeOK /\ Sparsely /\ [Next]_vars => Sparsely'
  <2> SUFFICES ASSUME TypeOK, Sparsely, [Next]_vars PROVE Sparsely'
    OBVIOUS
  <2>1. ASSUME NEW i \in Isolates, Recycle(i) PROVE Sparsely'
    <3>1. /\ entries' = [entries EXCEPT ![i] = [k \in Keys |-> None]]
          /\ forgotten' = forgotten \cup {<<i, k>> : k \in Present(i)}
          /\ UNCHANGED <<now, admitted>>
      BY <2>1 DEF Recycle
    <3>2. ASSUME NEW x \in Isolates, NEW j \in Keys, <<x, j>> \notin forgotten'
          PROVE  Sparse(admitted'[x][j], entries'[x][j], now')
      <4>1. Sparse(admitted[x][j], entries[x][j], now)
        BY <3>1, <3>2 DEF Sparsely
      <4>3. CASE x # i
        BY <3>1, <4>1, <4>3 DEF TypeOK
      <4>4. CASE x = i
        <5>1. entries[x][j].at = 0
          BY <3>1, <3>2, <4>4 DEF Present
        <5>2. entries'[x][j] = None
          BY <3>1, <4>4 DEF TypeOK
        <5> QED BY <3>1, <4>1, <5>1, <5>2 DEF Sparse, None
      <4> QED BY <4>3, <4>4
    <3> QED BY <3>2 DEF Sparsely
  <2>2. CASE Tick
    <3>1. now' = now + 1 /\ UNCHANGED <<entries, admitted, forgotten>> /\ now \in Nat
      BY <2>2 DEF Tick, TypeOK, history
    <3>2. ASSUME NEW x \in Isolates, NEW j \in Keys, <<x, j>> \notin forgotten
          PROVE  Sparse(admitted[x][j], entries[x][j], now + 1)
      <4>1. Sparse(admitted[x][j], entries[x][j], now) /\ admitted[x][j] \in Logs
        BY <3>2 DEF Sparsely, TypeOK
      <4> QED BY <3>1, <4>1, Waning
    <3> QED BY <3>1, <3>2 DEF Sparsely
  <2>3. CASE UNCHANGED <<now, entries, admitted, forgotten>>
    BY <2>3 DEF Sparsely
  <2>4. ASSUME NEW r \in Requests, BindingAdmits(r) \/ BindingRefuses(r) \/ BindingThrows(r) \/ Respond(r)
        PROVE  UNCHANGED <<now, entries, admitted, forgotten>>
    BY <2>4 DEF BindingAdmits, BindingRefuses, BindingThrows, Respond, history
  <2>5. UNCHANGED vars => UNCHANGED <<now, entries, admitted, forgotten>>
    BY DEF vars, history
  <2> QED BY <2>1, <2>2, <2>3, <2>4, <2>5, ArriveSparse DEF Next
<1>3. Sparsely => BurstBound
  BY DEF Sparsely, Sparse, NoBurst, BurstBound
<1> QED BY <1>1, <1>2, <1>3, TypeCorrect, PTL DEF Spec

-----------------------------------------------------------------------------
\* An entry counts no more requests than were made in its window.
Counted(log, entry, t) ==
  /\ \A e \in log : e[1] <= t
  /\ entry.at # 0 => \E s \in Nat : /\ s <= t /\ entry.resetAt = s + Window
                                    /\ entry.count <= Cardinality(Within(log, s))
CountsAsked == \A i \in Isolates, k \in Keys : Counted(asked[i][k], entries[i][k], now)

\* A request that arrives is counted, and refused only beyond the limit.
LEMMA ArriveCounted ==
  ASSUME LimiterAssumption, TypeOK, CountsAsked, NEW r \in Requests, NEW i \in Isolates, NEW k \in Keys,
         Arrive(r, i, k)
  PROVE  CountsAsked' /\ (~ Admits(i, k) => InSpan(asked'[i][k], now) > Limit)
<1>1. /\ CountInWindow(i, k) \/ OpenWindow(i, k)
      /\ asked' = [asked EXCEPT ![i][k] = Noted(@)]
      /\ now' = now /\ now \in Nat /\ Limit \in Nat \ {0} /\ Window \in Nat
  BY DEF Arrive, TypeOK, LimiterAssumption
<1>2. /\ asked \in [Isolates -> [Keys -> Logs]]
      /\ entries \in [Isolates -> [Keys -> [at: 0..checks, count: Nat, resetAt: Nat]]]
  BY DEF TypeOK
<1>3. ASSUME NEW x \in Isolates, NEW j \in Keys, <<x, j>> # <<i, k>>
      PROVE  Counted(asked'[x][j], entries'[x][j], now')
  <2>1. asked'[x][j] = asked[x][j] /\ Counted(asked[x][j], entries[x][j], now)
    BY <1>1, <1>2, <1>3 DEF CountsAsked
  <2>2. entries'[x][j] = entries[x][j] \/ entries'[x][j] = None
    BY <1>1, <1>3, OthersAfter
  <2> QED BY <1>1, <2>1, <2>2 DEF Counted, None
<1> DEFINE log == asked[i][k]
           entry == entries[i][k]
           next == entries'[i][k]
           y == <<now, Cardinality(log) + 1>>
<1>4. /\ log \in Logs /\ entry.count \in Nat /\ Counted(log, entry, now)
      /\ asked'[i][k] = log \cup {y} /\ y[1] = now /\ y \notin log /\ Noted(log) \in Logs
      /\ Noted(log) = log \cup {y}
  <2>1. log \in Logs /\ entry.count \in Nat
    BY <1>2
  <2>2. asked'[i][k] = log \cup {y} /\ Noted(log) = log \cup {y}
    BY <1>1, <1>2 DEF Noted
  <2> QED BY <2>1, <2>2, NotedIs DEF CountsAsked
<1>5. \/ /\ entry.at # 0 /\ now < entry.resetAt /\ next.at # 0 /\ next.resetAt = entry.resetAt
         /\ next.count = entry.count + 1
      \/ next.at # 0 /\ next.resetAt = now + Window /\ next.count = 1
  BY <1>1, EntryAfter
<1> HIDE DEF log, entry, next, y
<1>6. /\ next.at # 0
      /\ \E s \in Nat : /\ next.resetAt = s + Window /\ now < s + Window /\ s <= now
                        /\ next.count <= Cardinality(Within(log \cup {y}, s))
  <2>1. ASSUME NEW s \in Nat, s <= now
        PROVE  Cardinality(Within(log \cup {y}, s)) = Cardinality(Within(log, s)) + 1
               /\ Cardinality(Within(log, s)) \in Nat
    <3>1. Within(log \cup {y}, s) = Within(log, s) \cup {y} /\ y \notin Within(log, s)
      BY <1>4, <2>1 DEF Within
    <3>2. IsFiniteSet(Within(log, s)) /\ Cardinality(Within(log, s)) \in Nat
      BY <1>4, LogIs DEF Within
    <3> QED BY <3>1, <3>2, FS_AddElement
  <2>2. CASE entry.at # 0 /\ now < entry.resetAt /\ next.at # 0 /\ next.resetAt = entry.resetAt
             /\ next.count = entry.count + 1
    <3>1. PICK s \in Nat : /\ s <= now /\ entry.resetAt = s + Window
                           /\ entry.count <= Cardinality(Within(log, s))
      BY <1>4, <2>2 DEF Counted
    <3>2. next.count <= Cardinality(Within(log \cup {y}, s))
      <4>1. /\ Cardinality(Within(log \cup {y}, s)) = Cardinality(Within(log, s)) + 1
            /\ Cardinality(Within(log, s)) \in Nat
        BY <2>1, <3>1
      <4> QED BY <1>4, <2>2, <3>1, <4>1
    <3> QED BY <2>2, <3>1, <3>2
  <2>3. CASE next.at # 0 /\ next.resetAt = now + Window /\ next.count = 1
    <3>1. next.count <= Cardinality(Within(log \cup {y}, now)) /\ now < now + Window
      BY <1>1, <2>1, <2>3 DEF LimiterAssumption
    <3> QED BY <1>1, <2>3, <3>1
  <2> QED BY <1>5, <2>2, <2>3
<1>7. Counted(asked'[i][k], next, now')
  <2>1. \A e \in log \cup {y} : e[1] <= now
    BY <1>1, <1>4 DEF Counted
  <2>2. Counted(log \cup {y}, next, now)
    BY <1>6, <2>1 DEF Counted
  <2> QED BY <1>1, <1>4, <2>2
<1>8. ASSUME ~ Admits(i, k) PROVE InSpan(asked'[i][k], now) > Limit
  <2>1. PICK s \in Nat : /\ now < s + Window /\ s <= now
                         /\ next.count <= Cardinality(Within(log \cup {y}, s))
    BY <1>6
  <2> DEFINE S == {e \in log \cup {y} : e[1] <= now /\ now < e[1] + Window}
             W == Within(log \cup {y}, s)
  <2>2. \A e \in log \cup {y} : e[1] \in Nat /\ e[1] <= now
    BY <1>1, <1>4, LogIs DEF Counted
  <2>3. W \subseteq S
    BY <1>1, <2>1, <2>2 DEF Within
  <2>4. IsFiniteSet(S) /\ Cardinality(S) \in Nat /\ Cardinality(W) \in Nat
    BY <1>4, LogIs DEF Within
  <2>5. Cardinality(W) <= Cardinality(S)
    BY <2>3, <2>4, FS_Subset
  <2>6. ~ (next.count <= Limit) /\ next.count \in Nat
    BY <1>4, <1>5, <1>8 DEF Admits, next
  <2> HIDE DEF S, W
  <2>7. Cardinality(S) > Limit
    BY <1>1, <2>1, <2>4, <2>5, <2>6 DEF W
  <2> QED BY <1>4, <2>7 DEF S, InSpan
<1>9. CountsAsked'
  BY <1>3, <1>7 DEF CountsAsked, next
<1> QED BY <1>8, <1>9

\* No client is refused for what others did, for pruning, or for a failing binding: it asked too
\* often within the last Window ticks, or the binding refused it (rate-limit.ts:91-101, 186-199).
THEOREM Denials == LimiterAssumption => (Spec => DenialJustified)
<1> SUFFICES ASSUME LimiterAssumption PROVE Spec => DenialJustified
  OBVIOUS
<1>1. Init => CountsAsked
  BY DEF Init, CountsAsked, Counted, None
<1>2. TypeOK /\ CountsAsked /\ [Next]_vars => CountsAsked' /\ [DenialJustifiedStep]_vars
  <2> SUFFICES ASSUME TypeOK, CountsAsked, [Next]_vars PROVE CountsAsked' /\ DenialJustifiedStep
    OBVIOUS
  <2>1. ASSUME NEW r \in Requests, NEW i \in Isolates, NEW k \in Keys, Arrive(r, i, k)
        PROVE  CountsAsked' /\ DenialJustifiedStep
    <3> DEFINE verdict == IF ~ Admits(i, k) THEN "denied" ELSE IF HasBinding THEN "awaiting" ELSE "allowed"
    <3>1. req' = [req EXCEPT ![r] = [state |-> verdict, isolate |-> i, key |-> k, refused |-> FALSE]]
      BY <2>1 DEF Arrive
    <3>2. verdict = "denied" => ~ Admits(i, k)
      OBVIOUS
    <3> HIDE DEF verdict
    <3>3. ASSUME NEW q \in Requests, req[q].state # "denied", req'[q].state = "denied"
          PROVE  InSpan(asked'[req'[q].isolate][req'[q].key], now) > Limit
      <4>1. q = r /\ req'[q].isolate = i /\ req'[q].key = k /\ verdict = "denied"
        BY <3>1, <3>3 DEF TypeOK
      <4> QED BY <2>1, <3>2, <4>1, ArriveCounted
    <3> QED BY <2>1, <3>3, ArriveCounted DEF DenialJustifiedStep
  <2>2. ASSUME NEW i \in Isolates, Recycle(i) PROVE CountsAsked' /\ DenialJustifiedStep
    <3>1. /\ entries' = [entries EXCEPT ![i] = [k \in Keys |-> None]]
          /\ UNCHANGED <<now, asked, req>>
      BY <2>2 DEF Recycle
    <3>2. \A x \in Isolates, j \in Keys : entries'[x][j] = entries[x][j] \/ entries'[x][j] = None
      BY <3>1 DEF TypeOK
    <3>3. CountsAsked'
      BY <3>1, <3>2 DEF CountsAsked, Counted, None
    <3> QED BY <3>1, <3>3 DEF DenialJustifiedStep
  <2>3. CASE Tick
    <3>1. now' = now + 1 /\ UNCHANGED <<entries, asked, req>> /\ now \in Nat
      BY <2>3 DEF Tick, TypeOK, history
    <3>2. ASSUME NEW x \in Isolates, NEW j \in Keys PROVE Counted(asked[x][j], entries[x][j], now + 1)
      <4>1. asked[x][j] \in Logs /\ Counted(asked[x][j], entries[x][j], now)
        BY DEF TypeOK, CountsAsked
      <4>2. \A e \in asked[x][j] : e[1] \in Nat
        BY <4>1, LogIs
      <4> QED BY <3>1, <4>1, <4>2 DEF Counted
    <3> QED BY <3>1, <3>2 DEF CountsAsked, DenialJustifiedStep
  <2>4. ASSUME NEW r \in Requests, BindingAdmits(r) \/ BindingThrows(r) \/ Respond(r)
        PROVE  CountsAsked' /\ DenialJustifiedStep
    <3>1. UNCHANGED <<now, entries, asked>>
      BY <2>4 DEF BindingAdmits, BindingThrows, Respond, history
    <3>2. CASE BindingAdmits(r) \/ BindingThrows(r)
      <4>1. req' = [req EXCEPT ![r].state = "allowed"] /\ req[r] \in Tracked
        BY <3>2, AnswerType DEF BindingAdmits, BindingThrows
      <4>2. req'[r].state = "allowed" /\ \A q \in Requests \ {r} : req'[q] = req[q]
        BY <4>1 DEF TypeOK, Tracked
      <4> QED BY <3>1, <4>2 DEF CountsAsked, DenialJustifiedStep
    <3>4. CASE Respond(r)
      <4>1. req'[r].state = "idle" /\ \A q \in Requests \ {r} : req'[q] = req[q]
        BY <3>4 DEF Respond, TypeOK, Idle
      <4> QED BY <3>1, <4>1 DEF CountsAsked, DenialJustifiedStep
    <3> QED BY <2>4, <3>2, <3>4
  <2>5. ASSUME NEW r \in Requests, BindingRefuses(r) PROVE CountsAsked' /\ DenialJustifiedStep
    <3>1. UNCHANGED <<now, entries, asked>> /\ req' = [req EXCEPT ![r].state = "denied", ![r].refused = TRUE]
      BY <2>5 DEF BindingRefuses, history
    <3>2. req[r] \in Tracked
      BY <2>5, AnswerType DEF BindingRefuses
    <3>3. req'[r].refused /\ \A q \in Requests \ {r} : req'[q] = req[q]
      BY <3>1, <3>2 DEF TypeOK, Tracked
    <3> QED BY <3>1, <3>3 DEF CountsAsked, DenialJustifiedStep
  <2>6. CASE UNCHANGED vars
    BY <2>6 DEF vars, history, CountsAsked, DenialJustifiedStep
  <2> QED BY <2>1, <2>2, <2>3, <2>4, <2>5, <2>6 DEF Next
<1> QED BY <1>1, <1>2, TypeCorrect, PTL DEF Spec, DenialJustified

=============================================================================
