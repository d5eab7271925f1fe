----------------------------- MODULE PanelsProofs -----------------------------
(***************************************************************************)
(* Panels for any panels that have in common what KindsAssumption says,    *)
(* any queries and any number of changes.                                  *)
(***************************************************************************)
EXTENDS Panels, TLAPS

-----------------------------------------------------------------------------
\* Removing one of a sequence.

\* The place from which the j-th of the rest comes.
Old(i, j) == IF j < i THEN j ELSE j + 1

\* A run taken out of the list: the others are the old ones, in their order.
LEMMA Removing ==
  ASSUME NEW S, NEW s \in Seq(S), NEW i \in DOMAIN s
  PROVE  /\ RemoveAt(s, i) \in Seq(S)
         /\ \A j \in DOMAIN RemoveAt(s, i) :
              /\ j \in Nat
              /\ Old(i, j) \in DOMAIN s /\ Old(i, j) # i
              /\ RemoveAt(s, i)[j] = s[Old(i, j)]
<1> DEFINE a == SubSeq(s, 1, i - 1)
           b == SubSeq(s, i + 1, Len(s))
<1>1. i \in 1..Len(s) /\ Len(s) \in Nat
  OBVIOUS
<1>2. /\ a \in Seq(S) /\ Len(a) = i - 1
      /\ \A j \in 1..(i - 1) : a[j] = s[j]
  BY <1>1
<1>3. /\ b \in Seq(S) /\ Len(b) = Len(s) - i
      /\ \A j \in 1..(Len(s) - i) : b[j] = s[i + j]
  BY <1>1
<1>4. RemoveAt(s, i) = a \o b
  BY DEF RemoveAt
<1> HIDE DEF a, b
<1>5. /\ a \o b \in Seq(S) /\ Len(a \o b) = Len(s) - 1
      /\ \A j \in 1..(Len(s) - 1) : (a \o b)[j] = IF j <= Len(a) THEN a[j] ELSE b[j - Len(a)]
  BY <1>1, <1>2, <1>3
<1>6. \A j \in 1..(Len(s) - 1) : (a \o b)[j] = s[Old(i, j)] /\ Old(i, j) \in 1..Len(s) /\ Old(i, j) # i
  <2> SUFFICES ASSUME NEW j \in 1..(Len(s) - 1)
               PROVE  (a \o b)[j] = s[Old(i, j)] /\ Old(i, j) \in 1..Len(s) /\ Old(i, j) # i
    OBVIOUS
  <2>1. CASE j < i
    <3>1. j \in 1..(i - 1) /\ j <= Len(a)
      BY <1>1, <1>2, <2>1
    <3> QED BY <1>1, <1>2, <1>5, <2>1, <3>1 DEF Old
  <2>2. CASE ~ (j < i)
    <3>1. j - Len(a) \in 1..(Len(s) - i) /\ i + (j - Len(a)) = j + 1 /\ ~ (j <= Len(a))
      BY <1>1, <1>2, <2>2
    <3>2. (a \o b)[j] = b[j - Len(a)]
      BY <1>5, <3>1
    <3>3. b[j - Len(a)] = s[j + 1]
      BY <1>3, <3>1
    <3>4. Old(i, j) = j + 1
      BY <2>2 DEF Old
    <3> QED BY <1>1, <2>2, <3>2, <3>3, <3>4
  <2> QED BY <2>1, <2>2
<1> QED BY <1>4, <1>5, <1>6

\* A run put behind the list.
LEMMA Appending ==
  ASSUME NEW S, NEW s \in Seq(S), NEW e
  PROVE  \A j \in DOMAIN Append(s, e) :
           \/ j \in DOMAIN s /\ Append(s, e)[j] = s[j]
           \/ j = Len(s) + 1 /\ Append(s, e)[j] = e
OBVIOUS

\* No two runs have the same old place.
LEMMA OldIsOneToOne ==
  ASSUME NEW i \in Nat, NEW j \in Nat, NEW k \in Nat, Old(i, j) = Old(i, k)
  PROVE  j = k
BY DEF Old

-----------------------------------------------------------------------------
\* Types.

RunType == [query: Queries, page: 1..panel.pages, part: 1..panel.parts,
            more: BOOLEAN, over: BOOLEAN]
PieceType == [of: Queries, page: 1..panel.pages, part: 1..panel.parts]

\* What every panel is, whichever kind it has.
LEMMA PanelFacts ==
  ASSUME TypeOK
  PROVE  /\ panel \in PanelType /\ panel \in Kinds
         /\ panel.pages \in Nat /\ panel.pages >= 1
         /\ panel.parts \in Nat /\ panel.parts >= 1
<1>1. panel \in Kinds
  BY DEF TypeOK
<1>2. panel \in PanelType
  BY <1>1, KindsAssumption DEF KindsAssumption
<1> QED BY <1>1, <1>2 DEF PanelType

\* The types hold at first.
LEMMA TypesInit == Init => TypeOK
<1> SUFFICES ASSUME Init PROVE TypeOK
  OBVIOUS
<1>1. panel \in PanelType /\ panel \in Kinds
  BY KindsAssumption DEF KindsAssumption, Init
<1>2. panel.pages \in Nat /\ panel.byItself \in BOOLEAN
  BY <1>1 DEF PanelType
<1>3. runs = <<>> /\ data = <<>> /\ next = 0 /\ changes = 0
  BY DEF Init
<1>4. 0 \in 0..panel.pages /\ 0 \in 0..Changes
  BY <1>2, PanelAssumption DEF PanelAssumption
<1>5. runs \in Seq(RunType) /\ data \in Seq(PieceType)
  BY <1>3
<1> QED BY <1>1, <1>2, <1>3, <1>4, <1>5 DEF Init, TypeOK, RunType, PieceType

\* The changes are counted up to the bound.
LEMMA ActType == ASSUME TypeOK, Act PROVE changes' \in 0..Changes
<1>1. changes \in 0..Changes /\ Changes \in Nat
  BY PanelAssumption DEF TypeOK, PanelAssumption
<1> QED BY <1>1 DEF Act

\* The cleanup marks runs and does nothing else.
LEMMA Cancels ==
  ASSUME TypeOK
  PROVE  /\ Cancelled(runs) \in Seq(RunType) /\ DOMAIN Cancelled(runs) = DOMAIN runs
         /\ Len(Cancelled(runs)) = Len(runs)
         /\ \A i \in DOMAIN runs : Cancelled(runs)[i] = [runs[i] EXCEPT !.over = TRUE]
<1>1. runs \in Seq(RunType)
  BY DEF TypeOK, RunType
<1>2. ASSUME NEW i \in DOMAIN runs PROVE [runs[i] EXCEPT !.over = TRUE] \in RunType
  <2>1. runs[i] \in RunType
    BY <1>1
  <2> QED BY <2>1 DEF RunType
<1> QED BY <1>1, <1>2 DEF Cancelled

\* A load of the whole, begun by the effect, a form, a button or a timer.
LEMMA LoadType ==
  ASSUME TypeOK, NEW rs \in Seq(RunType), NEW spin \in BOOLEAN, Load(rs, spin), UNCHANGED panel
  PROVE  /\ runs' \in Seq(RunType) /\ data' \in Seq(PieceType) /\ next' \in 0..panel.pages
         /\ loading' \in BOOLEAN /\ loadingMore' \in BOOLEAN /\ error' \in BOOLEAN
         /\ asked' \in Queries \cup {"none"} /\ overlapped' \in BOOLEAN /\ unsaid' \in BOOLEAN
<1> DEFINE r == [query |-> query, page |-> 1, part |-> 1, more |-> FALSE, over |-> FALSE]
<1>1. r \in RunType
  BY PanelFacts DEF TypeOK, RunType
<1>2. runs' = Append(rs, r)
  BY DEF Load
<1> HIDE DEF r
<1>3. runs' \in Seq(RunType)
  BY <1>1, <1>2
<1>4. data' \in Seq(PieceType) /\ next' \in 0..panel.pages
  BY PanelFacts DEF Load, TypeOK, PieceType
<1> QED BY <1>3, <1>4 DEF Load, Overlap, TypeOK

\* Asking for more keeps the types.
LEMMA MoreType == ASSUME TypeOK, LoadMore PROVE TypeOK'
<1> DEFINE r == [query |-> query, page |-> next, part |-> 1, more |-> TRUE, over |-> FALSE]
<1>1. r \in RunType
  BY PanelFacts DEF LoadMore, LoadMoreAnyTime, TypeOK, RunType
<1>2. runs' = Append(runs, r) /\ runs \in Seq(RunType)
  BY DEF LoadMore, LoadMoreAnyTime, TypeOK, RunType
<1> HIDE DEF r
<1>3. runs' \in Seq(RunType)
  BY <1>1, <1>2
<1>4. panel.guarded \in BOOLEAN
  BY PanelFacts DEF PanelType
<1>5. changes' \in 0..Changes
  BY ActType DEF LoadMore, LoadMoreAnyTime
<1> QED BY <1>3, <1>4, <1>5 DEF LoadMore, LoadMoreAnyTime, Overlap, TypeOK, RunType

\* What is left of the runs when one is at its end, or goes on to its next part.
LEMMA LeaveType == ASSUME TypeOK, NEW i \in DOMAIN runs, Leave(i) PROVE runs' \in Seq(RunType)
BY Removing DEF Leave, TypeOK, RunType

\* A spinner that stops keeps its type.
LEMMA SpinnerType ==
  ASSUME TypeOK, NEW i, StopSpinner(i) \/ UNCHANGED <<loading, loadingMore>>
  PROVE  loading' \in BOOLEAN /\ loadingMore' \in BOOLEAN
BY DEF StopSpinner, TypeOK

\* So does an answer.
LEMMA SucceedType == ASSUME TypeOK, NEW i \in DOMAIN runs, Succeed(i) PROVE TypeOK'
<1>1. runs \in Seq(RunType) /\ runs[i] \in RunType /\ data \in Seq(PieceType)
  <2>1. runs \in Seq(RunType) /\ data \in Seq(PieceType)
    BY DEF TypeOK, RunType, PieceType
  <2> QED BY <2>1
<1>2. Piece(runs[i]) \in PieceType
  BY <1>1 DEF Piece, RunType, PieceType
<1>3. data' \in Seq(PieceType)
  <2> DEFINE p == Piece(runs[i])
  <2>1. data' = Append(data, p) \/ data' = <<p>> \/ data' = <<>>
    BY DEF Succeed
  <2>2. p \in PieceType
    BY <1>2
  <2> HIDE DEF p
  <2>3. Append(data, p) \in Seq(PieceType)
    BY <1>1, <2>2
  <2>4. <<p>> \in Seq(PieceType) /\ <<>> \in Seq(PieceType)
    BY <2>2
  <2> QED BY <2>1, <2>3, <2>4
<1>4. next' \in 0..panel.pages
  BY <1>1, PanelFacts DEF Succeed, RunType
<1>5. runs' \in Seq(RunType)
  <2>1. CASE runs[i].part < panel.parts /\ runs' = [runs EXCEPT ![i].part = @ + 1]
    <3> DEFINE n == runs[i].part + 1
    <3>1. n \in 1..panel.parts
      BY <1>1, <2>1, PanelFacts DEF RunType
    <3> HIDE DEF n
    <3>2. [runs[i] EXCEPT !.part = n] \in RunType
      BY <1>1, <3>1 DEF RunType
    <3>3. runs' = [runs EXCEPT ![i] = [runs[i] EXCEPT !.part = n]]
      BY <2>1 DEF n
    <3> QED BY <1>1, <3>2, <3>3
  <2> QED BY <2>1, LeaveType DEF Succeed
<1>6. loading' \in BOOLEAN /\ loadingMore' \in BOOLEAN /\ error' \in BOOLEAN
  <2>1. StopSpinner(i) \/ UNCHANGED <<loading, loadingMore>>
    BY DEF Succeed
  <2>2. error' \in {error, error /\ ~ panel.recovers}
    BY DEF Succeed
  <2> QED BY <2>1, <2>2, SpinnerType DEF TypeOK
<1> QED BY <1>3, <1>4, <1>5, <1>6 DEF Succeed, TypeOK, RunType, PieceType

\* So does a failure.
LEMMA FailType == ASSUME TypeOK, NEW i \in DOMAIN runs, Fail(i) PROVE TypeOK'
<1>1. runs' \in Seq(RunType) /\ loading' \in BOOLEAN /\ loadingMore' \in BOOLEAN
  BY LeaveType, SpinnerType DEF Fail
<1>2. data' \in Seq(PieceType) /\ next' \in 0..panel.pages
  <2>1. data \in Seq(PieceType) /\ next \in 0..panel.pages /\ 0 \in 0..panel.pages
    BY PanelFacts DEF TypeOK, PieceType
  <2>2. UNCHANGED <<data, next>> \/ (data' = <<>> /\ next' = 0)
    BY DEF Fail
  <2>3. <<>> \in Seq(PieceType)
    OBVIOUS
  <2> QED BY <2>1, <2>2, <2>3
<1>3. error' \in BOOLEAN /\ unsaid' \in BOOLEAN
  BY DEF Fail, TypeOK
<1> QED BY <1>1, <1>2, <1>3 DEF Fail, TypeOK, RunType, PieceType

\* Every step keeps the types.
LEMMA TypesKeep == ASSUME TypeOK, [Next]_vars PROVE TypeOK'
<1>1. CASE Change
  BY <1>1, ActType DEF Change, TypeOK
<1>2. CASE Resolve
  BY <1>2 DEF Resolve, TypeOK
<1>3. CASE Commit
  <2>1. Now \in [query: Queries, ready: BOOLEAN] /\ panel.spins \in BOOLEAN
    BY PanelFacts DEF Now, TypeOK, PanelType
  <2>2. CASE Load(Cancelled(runs), panel.spins)
    BY <1>3, <2>1, <2>2, Cancels, LoadType DEF Commit, TypeOK, RunType, PieceType
  <2>3. CASE /\ runs' = Cancelled(runs)
             /\ UNCHANGED <<data, next, loading, loadingMore, error, asked, overlapped, unsaid>>
    BY <1>3, <2>1, <2>3, Cancels DEF Commit, TypeOK, RunType, PieceType
  <2> QED BY <1>3, <2>2, <2>3 DEF Commit
<1>4. CASE Submit \/ Again
  <2>1. runs \in Seq(RunType)
    BY DEF TypeOK, RunType
  <2>2. \E spin \in BOOLEAN : Load(runs, spin)
    BY <1>4 DEF Submit, Again
  <2>3. UNCHANGED <<panel, query, ready, seen>> /\ changes' \in 0..Changes
    BY <1>4, ActType DEF Submit, Again
  <2> QED BY <2>1, <2>2, <2>3, LoadType DEF TypeOK, RunType, PieceType
<1>5. CASE Remount
  <2>1. panel.byItself \in BOOLEAN
    BY PanelFacts DEF PanelType
  <2>2. runs' = <<>> /\ data' = <<>> /\ next' = 0 /\ seen' = NotYet /\ changes' \in 0..Changes
    BY <1>5, ActType DEF Remount, Fresh
  <2>3. <<>> \in Seq(RunType) /\ <<>> \in Seq(PieceType) /\ 0 \in 0..panel.pages
    BY PanelFacts
  <2>4. /\ UNCHANGED <<panel, query, ready>>
        /\ loading' = panel.byItself /\ loadingMore' = FALSE /\ error' = FALSE
        /\ asked' = "none" /\ overlapped' = FALSE /\ unsaid' = FALSE
    BY <1>5 DEF Remount, Fresh
  <2> QED BY <2>1, <2>2, <2>3, <2>4 DEF TypeOK, RunType, PieceType
<1>6. ASSUME NEW i \in DOMAIN runs, Drop(i) PROVE TypeOK'
  BY <1>6, LeaveType DEF Drop, TypeOK, RunType
<1>7. CASE UNCHANGED vars
  BY <1>7 DEF vars, TypeOK
<1> QED BY <1>1, <1>2, <1>3, <1>4, <1>5, <1>6, <1>7, MoreType, SucceedType, FailType DEF Next

-----------------------------------------------------------------------------
\* Pages of a list.

\* One more page at a time is on its way, and the button knows.
OneMore ==
  /\ \A i \in DOMAIN runs : IF runs[i].more THEN runs[i].page >= 2 /\ loadingMore ELSE runs[i].page = 1
  /\ \A i, j \in DOMAIN runs : runs[i].more /\ runs[j].more => i = j

\* The page on its way, and the one to ask for next, come after those of the list.
Ahead ==
  /\ next = 0 \/ (next >= 2 /\ \A d \in DOMAIN data : data[d].page < next)
  /\ \A i \in DOMAIN runs : runs[i].more => \A d \in DOMAIN data : data[d].page < runs[i].page

Ascending == \A c, d \in DOMAIN data : c < d => data[c].page < data[d].page

PagesInv == panel.guarded => OneMore /\ Ahead /\ Ascending

\* No page was shown at first.
LEMMA PagesInit == Init => PagesInv
BY DEF Init, PagesInv, OneMore, Ahead, Ascending

\* Pages that ascend are shown once each.
LEMMA PagesFollow == ASSUME TypeOK, PagesInv PROVE NoPageTwice
<1> SUFFICES ASSUME panel.guarded, NEW c \in DOMAIN data, NEW d \in DOMAIN data,
                    data[c].page = data[d].page
             PROVE  c = d
  BY DEF NoPageTwice
<1>1. c \in Nat /\ d \in Nat /\ data[c].page \in Nat /\ data[d].page \in Nat
  <2>1. data \in Seq(PieceType) /\ panel.pages \in Nat
    BY PanelFacts DEF TypeOK, PieceType
  <2>2. data[c] \in PieceType /\ data[d] \in PieceType
    BY <2>1
  <2> QED BY <2>1, <2>2 DEF PieceType
<1> QED BY <1>1 DEF PagesInv, Ascending

\* The numbers that the invariants compare.
LEMMA Numbers ==
  ASSUME TypeOK
  PROVE  /\ next \in Nat /\ Len(data) \in Nat /\ DOMAIN data = 1..Len(data)
         /\ DOMAIN runs = 1..Len(runs) /\ Len(runs) \in Nat
         /\ \A i \in DOMAIN runs : runs[i] \in RunType /\ runs[i].page \in Nat /\ i \in Nat
         /\ \A d \in DOMAIN data : data[d] \in PieceType /\ data[d].page \in Nat /\ d \in Nat
<1>1. runs \in Seq(RunType) /\ data \in Seq(PieceType) /\ panel.pages \in Nat /\ next \in 0..panel.pages
  BY PanelFacts DEF TypeOK, PieceType, RunType
<1>2. \A i \in DOMAIN runs : runs[i] \in RunType
  BY <1>1
<1>3. \A d \in DOMAIN data : data[d] \in PieceType
  BY <1>1
<1>4. next \in Nat
  BY <1>1
<1>5. \A r \in RunType : r.page \in Nat
  BY <1>1 DEF RunType
<1>6. \A q \in PieceType : q.page \in Nat
  BY <1>1 DEF PieceType
<1> QED BY <1>1, <1>2, <1>3, <1>4, <1>5, <1>6

\* One run goes, and with it the page that was on its way if it is the one.
LEMMA LeavePages ==
  ASSUME TypeOK, OneMore, NEW i \in DOMAIN runs, Leave(i),
         loadingMore' = (loadingMore /\ ~ runs[i].more) \/ (loadingMore' = loadingMore)
  PROVE  /\ OneMore'
         /\ \A j \in DOMAIN runs' : \E k \in DOMAIN runs : k # i /\ runs'[j] = runs[k]
<1>1. runs \in Seq(RunType) /\ i \in Nat
  BY Numbers DEF TypeOK, RunType
<1>2. \A j \in DOMAIN runs' : /\ j \in Nat /\ Old(i, j) \in DOMAIN runs /\ Old(i, j) # i
                              /\ runs'[j] = runs[Old(i, j)]
  BY <1>1, Removing DEF Leave
<1>3. ASSUME NEW j \in DOMAIN runs', runs'[j].more PROVE loadingMore'
  <2>1. loadingMore /\ ~ runs[i].more
    BY <1>2, <1>3 DEF OneMore
  <2> QED BY <2>1
<1>4. \A j, k \in DOMAIN runs' : runs'[j].more /\ runs'[k].more => j = k
  <2> SUFFICES ASSUME NEW j \in DOMAIN runs', NEW k \in DOMAIN runs', runs'[j].more, runs'[k].more
               PROVE  j = k
    OBVIOUS
  <2>1. Old(i, j) = Old(i, k)
    BY <1>2 DEF OneMore
  <2> QED BY <1>1, <1>2, <2>1, OldIsOneToOne
<1> QED BY <1>2, <1>3, <1>4 DEF OneMore

\* A load of the whole begins with the first page.
LEMMA LoadPages ==
  ASSUME TypeOK, OneMore, Ahead, Ascending, NEW rs \in Seq(RunType), NEW spin, Load(rs, spin),
         DOMAIN rs = DOMAIN runs,
         \A j \in DOMAIN runs : rs[j].more = runs[j].more /\ rs[j].page = runs[j].page
  PROVE  OneMore' /\ Ahead' /\ Ascending'
<1> DEFINE r == [query |-> query, page |-> 1, part |-> 1, more |-> FALSE, over |-> FALSE]
<1>1. runs' = Append(rs, r) /\ r.page = 1 /\ ~ r.more
  BY DEF Load
<1> HIDE DEF r
<1>2. /\ Len(runs') = Len(rs) + 1 /\ DOMAIN runs' = 1..Len(runs')
      /\ runs'[Len(rs) + 1] = r
      /\ \A j \in DOMAIN rs : runs'[j] = rs[j] /\ j \in 1..Len(rs)
      /\ Len(rs) \in Nat /\ DOMAIN rs = 1..Len(rs)
  BY <1>1
<1>3. \A j \in DOMAIN runs' :
        \/ /\ j \in DOMAIN runs
           /\ runs'[j].more = runs[j].more /\ runs'[j].page = runs[j].page
        \/ j = Len(rs) + 1 /\ runs'[j] = r
  BY <1>2
<1>4. loadingMore' = loadingMore
  BY DEF Load
<1>5. OneMore'
  BY <1>1, <1>3, <1>4 DEF OneMore
<1>6. (data' = data /\ next' = next) \/ (data' = <<>> /\ next' = 0)
  BY DEF Load
<1>7. Ahead' /\ Ascending'
  BY <1>1, <1>3, <1>6 DEF Ahead, Ascending
<1> QED BY <1>5, <1>7

\* Asking for more asks for the page behind those shown.
LEMMA MorePages ==
  ASSUME TypeOK, panel.guarded, OneMore, Ahead, Ascending, LoadMore
  PROVE  OneMore' /\ Ahead' /\ Ascending'
<1> DEFINE r == [query |-> query, page |-> next, part |-> 1, more |-> TRUE, over |-> FALSE]
<1>1. runs' = Append(runs, r) /\ r.page = next /\ r.more
  BY DEF LoadMore, LoadMoreAnyTime
<1> HIDE DEF r
<1>2. /\ Len(runs') = Len(runs) + 1 /\ DOMAIN runs' = 1..Len(runs')
      /\ runs'[Len(runs) + 1] = r
      /\ \A j \in DOMAIN runs : runs'[j] = runs[j] /\ j \in 1..Len(runs)
  BY <1>1 DEF TypeOK
<1>3. \A j \in DOMAIN runs' : j \in DOMAIN runs \/ (j = Len(runs) + 1 /\ runs'[j] = r)
  BY <1>2, Numbers
<1>4. ~ loadingMore /\ loadingMore' /\ UNCHANGED <<data, next>> /\ next # 0
  BY DEF LoadMore, LoadMoreAnyTime
<1>5. \A j \in DOMAIN runs : ~ runs[j].more
  BY <1>4 DEF OneMore
<1>6. OneMore'
  BY <1>1, <1>2, <1>3, <1>4, <1>5 DEF OneMore, Ahead
<1>7. Ahead' /\ Ascending'
  BY <1>1, <1>2, <1>3, <1>4, <1>5 DEF Ahead, Ascending
<1> QED BY <1>6, <1>7

\* A page that comes is put behind those shown.
LEMMA SucceedPages ==
  ASSUME TypeOK, panel.guarded, OneMore, Ahead, Ascending, NEW i \in DOMAIN runs, Succeed(i)
  PROVE  OneMore' /\ Ahead' /\ Ascending'
<1> DEFINE r == runs[i]
<1>1. r \in RunType /\ r.page \in Nat
  BY Numbers
<1>2. loadingMore' = (loadingMore /\ ~ r.more) \/ loadingMore' = loadingMore
  BY DEF Succeed, StopSpinner
<1>3. CASE data' = <<>> /\ next' = 0 /\ Leave(i)
  BY <1>2, <1>3, LeavePages DEF Ahead, Ascending
<1>4. CASE r.more /\ data' = Append(data, Piece(r)) /\ next' \in {0, r.page + 1}
  <2>1. panel.pages > 1 /\ panel.parts = 1 /\ r.part = 1
    <3>1. panel.pages > 1
      BY <1>1, <1>4, PanelFacts DEF OneMore, RunType
    <3>2. panel.parts = 1
      BY <3>1, PanelFacts, KindsAssumption DEF KindsAssumption
    <3> QED BY <1>1, <3>1, <3>2 DEF RunType
  <2>2. Leave(i)
    BY <1>4, <2>1 DEF Succeed
  <2>3. \A j \in DOMAIN runs' : ~ runs'[j].more
    BY <1>2, <1>4, <2>2, LeavePages DEF OneMore
  <2>4. /\ Piece(r).page = r.page
        /\ \A d \in DOMAIN data : data[d].page < r.page
    BY <1>4 DEF Piece, Ahead
  <2> DEFINE q == Piece(r)
  <2>5. data' = Append(data, q) /\ q.page = r.page
    BY <1>4, <2>4
  <2> HIDE DEF q
  <2>6. /\ Len(data') = Len(data) + 1 /\ DOMAIN data' = 1..Len(data')
        /\ data'[Len(data) + 1] = q
        /\ \A d \in DOMAIN data : data'[d] = data[d] /\ d \in 1..Len(data)
    BY <2>5 DEF TypeOK
  <2>7. \A d \in DOMAIN data' : d \in DOMAIN data \/ (d = Len(data) + 1 /\ data'[d] = q)
    BY <2>6, Numbers
  <2>8. Ascending'
    BY <2>4, <2>5, <2>6, <2>7, Numbers DEF Ascending
  <2>9. Ahead'
    BY <1>1, <1>4, <2>3, <2>4, <2>5, <2>6, <2>7, Numbers DEF Ahead, OneMore
  <2> QED BY <1>2, <2>2, <2>8, <2>9, LeavePages
<1>5. CASE ~ r.more /\ data' = <<Piece(r)>> /\ next' \in {0, r.page + 1}
  <2>1. r.page = 1
    BY <1>5 DEF OneMore
  <2>2. \A d \in DOMAIN data' : d = 1 /\ data'[d].page = 1
    BY <1>5, <2>1 DEF Piece
  <2>3. Ascending'
    BY <2>2 DEF Ascending
  <2>4. OneMore'
    <3>1. CASE runs' = [runs EXCEPT ![i].part = @ + 1]
      <4>1. /\ DOMAIN runs' = DOMAIN runs
            /\ \A j \in DOMAIN runs : runs'[j].more = runs[j].more /\ runs'[j].page = runs[j].page
        BY <1>1, <3>1, Numbers DEF RunType
      <4>2. loadingMore' = loadingMore
        BY <1>5 DEF Succeed, StopSpinner, TypeOK
      <4> QED BY <4>1, <4>2 DEF OneMore
    <3>2. CASE Leave(i)
      BY <1>2, <3>2, LeavePages
    <3> QED BY <3>1, <3>2 DEF Succeed
  <2>5. Ahead'
    <3>1. runs' \in Seq(RunType)
      BY SucceedType DEF TypeOK, RunType, Succeed
    <3>2. \A j \in DOMAIN runs' : runs'[j].page \in Nat
      <4>1. \A j \in DOMAIN runs' : runs'[j] \in RunType
        BY <3>1
      <4> QED BY <4>1, PanelFacts DEF RunType
    <3>3. next' = 0 \/ next' = 2
      BY <1>5, <2>1
    <3> QED BY <2>2, <2>4, <3>2, <3>3 DEF Ahead, OneMore
  <2> QED BY <2>3, <2>4, <2>5
<1>6. r.more \in BOOLEAN
  BY <1>1 DEF RunType
<1> QED BY <1>3, <1>4, <1>5, <1>6 DEF Succeed

\* A page that fails leaves those shown.
LEMMA FailPages ==
  ASSUME TypeOK, panel.guarded, OneMore, Ahead, Ascending, NEW i \in DOMAIN runs, Fail(i)
  PROVE  OneMore' /\ Ahead' /\ Ascending'
<1>1. Leave(i) /\ loadingMore' = (loadingMore /\ ~ runs[i].more)
  BY DEF Fail, StopSpinner
<1>2. UNCHANGED <<data, next>> \/ (data' = <<>> /\ next' = 0)
  BY DEF Fail
<1> QED BY <1>1, <1>2, LeavePages DEF Ahead, Ascending

\* The cleanup does not change which pages are on their way.
LEMMA CancelPages ==
  ASSUME TypeOK
  PROVE  \A j \in DOMAIN runs : /\ Cancelled(runs)[j].more = runs[j].more
                                /\ Cancelled(runs)[j].page = runs[j].page
<1>1. \A j \in DOMAIN runs : /\ [runs[j] EXCEPT !.over = TRUE].more = runs[j].more
                             /\ [runs[j] EXCEPT !.over = TRUE].page = runs[j].page
  BY Numbers DEF RunType
<1> QED BY <1>1, Cancels

\* Every step keeps the pages of a guarded list in order.
LEMMA PagesKeep == ASSUME TypeOK, PagesInv, [Next]_vars PROVE PagesInv'
<1>1. CASE Change \/ Resolve \/ UNCHANGED vars
  BY <1>1 DEF Change, Resolve, vars, PagesInv, OneMore, Ahead, Ascending
<1>2. CASE Commit
  <2>1. CASE Load(Cancelled(runs), panel.spins)
    BY <1>2, <2>1, LoadPages, Cancels, CancelPages DEF Commit, PagesInv
  <2>2. CASE runs' = Cancelled(runs) /\ UNCHANGED <<data, next, loadingMore>>
    BY <1>2, <2>2, Cancels, CancelPages DEF Commit, PagesInv, OneMore, Ahead, Ascending
  <2> QED BY <1>2, <2>1, <2>2 DEF Commit
<1>3. CASE Submit \/ Again
  <2>1. \E spin : Load(runs, spin)
    BY <1>3 DEF Submit, Again
  <2>2. runs \in Seq(RunType)
    BY DEF TypeOK, RunType
  <2> QED BY <1>3, <2>1, <2>2, LoadPages DEF Submit, Again, PagesInv
<1>4. CASE LoadMore
  BY <1>4, MorePages DEF LoadMore, LoadMoreAnyTime, PagesInv
<1>5. CASE Remount
  BY <1>5 DEF Remount, Fresh, PagesInv, OneMore, Ahead, Ascending
<1>6. ASSUME NEW i \in DOMAIN runs, Drop(i) PROVE PagesInv'
  <2>1. Leave(i) /\ UNCHANGED <<panel, data, next, loadingMore>>
    BY <1>6 DEF Drop
  <2> QED BY <2>1, LeavePages DEF PagesInv, Ahead, Ascending
<1>7. ASSUME NEW i \in DOMAIN runs, Succeed(i) \/ Fail(i) PROVE PagesInv'
  BY <1>7, SucceedPages, FailPages DEF Succeed, Fail, PagesInv
<1> QED BY <1>1, <1>2, <1>3, <1>4, <1>5, <1>6, <1>7 DEF Next

-----------------------------------------------------------------------------
\* What is on display, and what has been asked.

DataOf(q) == \A d \in DOMAIN data : data[d].of = q

\* The effect has asked for something since the mount.
Begun == seen # NotYet /\ (panel.waits => seen.ready)

\* Before that there is nothing; after it the last thing asked is what the effect ran for.
EffectInv ==
  /\ seen.ready => ready
  /\ panel.byItself /\ ~ Begun => data = <<>> /\ runs = <<>>
  /\ panel.byItself /\ Begun => asked = seen.query
  /\ panel.pages = 1 => next = 0 /\ \A i \in DOMAIN runs : ~ runs[i].more

\* At first the effect has not begun, and nothing was asked or shown.
LEMMA EffectInit == Init => EffectInv
BY DEF Init, EffectInv, NotYet, Begun

\* A run that leaves: the others are the old ones.
LEMMA LeaveFrom ==
  ASSUME TypeOK, NEW i \in DOMAIN runs, Leave(i)
  PROVE  /\ i \in Nat
         /\ \A j \in DOMAIN runs' : /\ j \in Nat /\ Old(i, j) \in DOMAIN runs /\ Old(i, j) # i
                                    /\ runs'[j] = runs[Old(i, j)]
<1>1. runs \in Seq(RunType) /\ i \in Nat
  BY Numbers DEF TypeOK, RunType
<1> QED BY <1>1, Removing DEF Leave

\* Once the query has been seen a run was begun.
LEMMA NowIsBegun ==
  ASSUME TypeOK, seen.query = query
  PROVE  seen # NotYet
BY PanelAssumption DEF PanelAssumption, TypeOK, NotYet

\* A load of the whole adds one run to those there are.
LEMMA LoadRuns ==
  ASSUME TypeOK, NEW rs \in Seq(RunType), NEW spin, Load(rs, spin)
  PROVE  /\ \A j \in DOMAIN runs' :
              \/ j \in DOMAIN rs /\ runs'[j] = rs[j]
              \/ /\ j = Len(rs) + 1 /\ runs'[j].query = query /\ ~ runs'[j].more
                 /\ ~ runs'[j].over /\ runs'[j].part = 1
         /\ Len(rs) + 1 \in DOMAIN runs' /\ ~ runs'[Len(rs) + 1].more
<1> DEFINE r == [query |-> query, page |-> 1, part |-> 1, more |-> FALSE, over |-> FALSE]
<1>1. /\ runs' = Append(rs, r) /\ ~ r.more
      /\ r.query = query /\ ~ r.over /\ r.part = 1
  BY DEF Load
<1> HIDE DEF r
<1>2. /\ Len(runs') = Len(rs) + 1 /\ DOMAIN runs' = 1..Len(runs')
      /\ runs'[Len(rs) + 1] = r
      /\ \A j \in DOMAIN rs : runs'[j] = rs[j]
      /\ Len(rs) \in Nat /\ DOMAIN rs = 1..Len(rs)
  BY <1>1
<1> QED BY <1>1, <1>2

\* A cleanup marks every run of the effect as over.
LEMMA CancelOver ==
  ASSUME TypeOK
  PROVE  \A j \in DOMAIN Cancelled(runs) :
           /\ j \in DOMAIN runs /\ Cancelled(runs)[j].over
           /\ Cancelled(runs)[j].more = runs[j].more
<1>1. \A j \in DOMAIN runs : [runs[j] EXCEPT !.over = TRUE].over
  BY Numbers DEF RunType
<1> QED BY <1>1, Cancels, CancelPages

\* "Load more" is for a list that has something, of the query that the effect ran for.
LEMMA MoreIsBegun ==
  ASSUME TypeOK, EffectInv, LoadMore
  PROVE  /\ panel.pages > 1 /\ panel.byItself /\ panel.parts = 1
         /\ asked = query /\ Visible # <<>> /\ data # <<>> /\ Begun
<1>1. ~ Due /\ Visible # <<>> /\ next # 0
  BY DEF LoadMore, LoadMoreAnyTime
<1>2. panel.pages > 1
  BY <1>1, PanelFacts DEF EffectInv
<1>3. panel.byItself /\ panel.parts = 1
  BY <1>2, PanelFacts, KindsAssumption DEF KindsAssumption
<1>4. data # <<>>
  BY <1>1 DEF Visible
<1>5. Begun /\ asked = seen.query
  BY <1>3, <1>4 DEF EffectInv
<1>6. seen.query = query
  BY <1>1, <1>3 DEF Due, Now
<1> QED BY <1>1, <1>2, <1>3, <1>4, <1>5, <1>6

\* The button and the timer repeat what the effect did.
LEMMA AgainIsBegun ==
  ASSUME TypeOK, Again
  PROVE  /\ panel.byItself /\ ~ panel.waits /\ panel.pages = 1 /\ panel.cancels = "no"
         /\ seen.query = query /\ Begun
<1>1. panel.byItself /\ ~ Due /\ panel.again # "no"
  BY DEF Again
<1>2. ~ panel.waits /\ ~ (panel.pages > 1) /\ panel.cancels = "no"
  BY <1>1, PanelFacts, KindsAssumption DEF KindsAssumption, PanelType
<1>3. seen.query = query
  BY <1>1, <1>2 DEF Due
<1> QED BY <1>1, <1>2, <1>3, NowIsBegun, PanelFacts DEF Begun

\* An effect that runs, and for something else than what it ran for.
LEMMA CommitIsNew ==
  ASSUME TypeOK, EffectInv, Commit, Begun
  PROVE  seen.query # query
<1>1. CASE panel.waits
  <2>1. seen.ready /\ ready
    BY <1>1 DEF Begun, EffectInv
  <2>2. seen \in [query: Queries, ready: BOOLEAN] /\ ready \in BOOLEAN
    BY DEF Begun, TypeOK
  <2>3. seen # Now
    BY <1>1 DEF Commit, Due
  <2> QED BY <2>1, <2>2, <2>3 DEF Now
<1>2. CASE ~ panel.waits
  BY <1>2 DEF Commit, Due
<1> QED BY <1>1, <1>2

\* Every step keeps what is asked for what the effect last ran for, and nothing before it began.
LEMMA EffectKeeps == ASSUME TypeOK, EffectInv, [Next]_vars PROVE EffectInv'
<1>1. CASE Change \/ Resolve \/ UNCHANGED vars
  BY <1>1 DEF Change, Resolve, vars, EffectInv, Begun
<1>2. CASE Commit
  <2>1. seen' = Now /\ UNCHANGED <<panel, query, ready>> /\ Now # NotYet
    BY <1>2, PanelAssumption DEF Commit, Now, NotYet, PanelAssumption, TypeOK
  <2>2. CASE (~ panel.waits \/ ready) /\ Load(Cancelled(runs), panel.spins)
    <3>1. asked' = query /\ (next' = next \/ next' = 0)
      BY <2>2 DEF Load
    <3>2. panel.pages = 1 => \A j \in DOMAIN runs' : ~ runs'[j].more
      BY <2>2, LoadRuns, Cancels, CancelOver DEF EffectInv
    <3>3. Begun' /\ seen'.query = query /\ (seen'.ready => ready')
      BY <2>1, <2>2 DEF Begun, Now
    <3> QED BY <2>1, <3>1, <3>2, <3>3 DEF EffectInv
  <2>3. CASE /\ panel.waits /\ ~ ready /\ runs' = Cancelled(runs)
             /\ UNCHANGED <<data, next, asked>>
    <3>1. ~ Begun /\ ~ Begun' /\ (seen'.ready => ready')
      BY <2>1, <2>3 DEF Begun, EffectInv, Now
    <3>2. panel.byItself
      BY <1>2 DEF Commit, Due
    <3>3. runs = <<>> /\ data = <<>>
      BY <3>1, <3>2 DEF EffectInv
    <3>4. runs' = <<>>
      BY <2>3, <3>3 DEF Cancelled
    <3> QED BY <2>1, <2>3, <3>1, <3>3, <3>4 DEF EffectInv
  <2> QED BY <1>2, <2>2, <2>3 DEF Commit
<1>3. CASE Submit
  <2>1. ~ panel.byItself /\ Load(runs, TRUE) /\ UNCHANGED <<panel, ready, seen>>
    BY <1>3 DEF Submit
  <2>2. runs \in Seq(RunType) /\ (next' = next \/ next' = 0)
    BY <2>1 DEF TypeOK, RunType, Load
  <2> QED BY <2>1, <2>2, LoadRuns DEF EffectInv
<1>4. CASE Again
  <2>1. (\E spin : Load(runs, spin)) /\ UNCHANGED <<panel, query, ready, seen>>
    BY <1>4 DEF Again
  <2>2. runs \in Seq(RunType) /\ (next' = next \/ next' = 0) /\ asked' = query
    BY <2>1 DEF TypeOK, RunType, Load
  <2>3. panel.pages = 1 => \A j \in DOMAIN runs' : ~ runs'[j].more
    BY <2>1, <2>2, LoadRuns DEF EffectInv
  <2> QED BY <1>4, <2>1, <2>2, <2>3, AgainIsBegun DEF EffectInv, Begun
<1>5. CASE LoadMore
  <2>1. UNCHANGED <<panel, query, ready, seen, data>> /\ asked' = query
    BY <1>5 DEF LoadMore, LoadMoreAnyTime
  <2>2. panel.pages # 1
    BY <1>5, MoreIsBegun, PanelFacts
  <2> QED BY <1>5, <2>1, <2>2, MoreIsBegun DEF EffectInv, Begun
<1>6. CASE Remount
  BY <1>6 DEF Remount, Fresh, EffectInv, Begun, NotYet
<1>7. ASSUME NEW i \in DOMAIN runs, Drop(i) \/ Succeed(i) \/ Fail(i) PROVE EffectInv'
  <2>1. UNCHANGED <<panel, query, ready, seen, asked>>
    BY <1>7 DEF Drop, Succeed, Fail
  <2>2. runs # <<>>
    BY <1>7
  <2>3. runs[i] \in RunType
    BY Numbers
  <2>4. panel.pages = 1 => next' \in {next, 0}
    <3>1. panel.pages = 1 => ~ (runs[i].page < panel.pages)
      BY <2>3 DEF RunType
    <3>2. Drop(i) \/ Fail(i) => next' \in {next, 0}
      BY DEF Drop, Fail
    <3> QED BY <1>7, <3>1, <3>2 DEF Succeed
  <2>5. panel.pages = 1 => \A j \in DOMAIN runs' : ~ runs'[j].more
    <3>1. CASE Leave(i)
      BY <3>1, LeaveFrom DEF EffectInv
    <3>2. CASE runs' = [runs EXCEPT ![i].part = @ + 1]
      BY <3>2, Numbers DEF EffectInv, RunType
    <3> QED BY <1>7, <3>1, <3>2 DEF Drop, Succeed, Fail
  <2> QED BY <2>1, <2>2, <2>4, <2>5 DEF EffectInv, Begun
<1> QED BY <1>1, <1>2, <1>3, <1>4, <1>5, <1>6, <1>7 DEF Next

-----------------------------------------------------------------------------
\* A view that drops what it cancelled.

\* A load in force is for what the effect ran for, and so is what its first part brought.
InForce ==
  \A i \in DOMAIN runs :
    ~ runs[i].over => /\ Begun /\ runs[i].query = seen.query
                      /\ runs[i].part > 1 => DataOf(seen.query)

\* Once it rests, what is left of another query is hidden behind the error.
Rested ==
  Begun /\ ~ loading /\ ~ unsaid /\ ~ (error /\ "error" \in panel.hides) => DataOf(seen.query)

SettledInv == panel.cancels = "all" => InForce /\ Rested

\* Nothing was settled at first.
LEMMA SettledInit == Init => SettledInv
BY DEF Init, SettledInv, InForce, Rested, Begun

\* A panel at rest shows what its query asks for.
LEMMA SettledFollows ==
  ASSUME TypeOK, EffectInv, SettledInv
  PROVE  SettledShowsQuery
<1> SUFFICES ASSUME panel.cancels = "all", seen = Now, ~ loading, ~ unsaid,
                    NEW d \in DOMAIN Visible
             PROVE  Visible[d].of = query
  BY DEF SettledShowsQuery
<1>1. panel.byItself /\ seen.query = query
  BY PanelFacts, KindsAssumption DEF KindsAssumption, Now
<1>2. CASE Visible = <<>>
  BY <1>2
<1>3. CASE Visible = data /\ ~ (error /\ "error" \in panel.hides)
  BY <1>1, <1>3 DEF SettledInv, Rested, EffectInv, DataOf
<1> QED BY <1>2, <1>3 DEF Visible

\* An answer or a failure of the run in force settles the panel for its query.
LEMMA FinishSettled ==
  ASSUME TypeOK, EffectInv, InForce, Rested, panel.cancels = "all",
         NEW i \in DOMAIN runs, Succeed(i) \/ Fail(i)
  PROVE  InForce' /\ Rested'
<1> DEFINE r == runs[i]
<1>1. /\ UNCHANGED <<panel, seen>> /\ (Begun' <=> Begun)
      /\ panel.byItself /\ panel.pages = 1
  BY PanelFacts, KindsAssumption DEF Succeed, Fail, Begun, KindsAssumption
<1>2. r.query = seen.query /\ (r.part > 1 => DataOf(seen.query)) /\ ~ r.more
  BY <1>1 DEF Succeed, Fail, Dropped, InForce, EffectInv
<1>3. CASE Succeed(i)
  <2>1. data' = <<Piece(r)>> \/ data' = <<>>
    BY <1>2, <1>3 DEF Succeed
  <2>2. DataOf(seen.query)'
    BY <1>1, <1>2, <2>1 DEF DataOf, Piece
  <2>3. \A j \in DOMAIN runs' : \E k \in DOMAIN runs :
          runs'[j].over = runs[k].over /\ runs'[j].query = runs[k].query
    <3>1. CASE Leave(i)
      BY <3>1, LeaveFrom
    <3>2. CASE runs' = [runs EXCEPT ![i].part = @ + 1]
      BY <3>2, Numbers DEF RunType
    <3> QED BY <1>3, <3>1, <3>2 DEF Succeed
  <2> QED BY <1>1, <2>2, <2>3 DEF InForce, Rested
<1>4. CASE Fail(i)
  <2>1. data' = data \/ data' = <<>>
    BY <1>4 DEF Fail
  <2>2. DataOf(seen.query) => DataOf(seen.query)'
    BY <1>1, <2>1 DEF DataOf
  <2>3. InForce'
    BY <1>1, <1>4, <2>2, LeaveFrom DEF InForce, Fail
  <2>4. PICK told \in IF r.part > panel.rests THEN {FALSE} ELSE panel.tells :
          error' = (error \/ told) /\ unsaid' = (unsaid \/ ~ told)
    BY <1>4 DEF Fail
  <2>5. CASE ~ told
    <3>1. unsaid'
      BY <2>4, <2>5
    <3> QED BY <2>3, <3>1 DEF Rested
  <2>6. CASE told
    <3>1. error' /\ told \in panel.tells
      BY <2>4, <2>6
    <3>2. CASE "error" \in panel.hides
      <4>1. "error" \in panel'.hides
        BY <1>1, <3>2
      <4> QED BY <2>3, <3>1, <4>1 DEF Rested
    <3>3. CASE "error" \notin panel.hides
      <4>1. ~ panel.keeps
        BY <2>6, <3>1, <3>3, PanelFacts, KindsAssumption DEF KindsAssumption
      <4>2. DataOf(seen.query)'
        <5>1. CASE Leaves(r)
          BY <1>2, <2>2, <4>1, <5>1 DEF Leaves
        <5>2. CASE ~ Leaves(r)
          BY <1>4, <5>2 DEF Fail, DataOf
        <5> QED BY <5>1, <5>2
      <4>3. DataOf(seen.query)' => Rested'
        BY DEF Rested
      <4> QED BY <2>3, <4>2, <4>3
    <3> QED BY <3>2, <3>3
  <2>7. told \in BOOLEAN
    BY <2>4, PanelFacts DEF PanelType
  <2> QED BY <2>3, <2>5, <2>6, <2>7
<1> QED BY <1>3, <1>4

\* Every step keeps what a panel at rest shows.
LEMMA SettledKeeps == ASSUME TypeOK, EffectInv, SettledInv, [Next]_vars PROVE SettledInv'
<1> SUFFICES ASSUME panel.cancels = "all", panel' = panel PROVE InForce' /\ Rested'
  BY DEF SettledInv, Next, Change, Resolve, Commit, Submit, Again, LoadMore, LoadMoreAnyTime,
         Remount, Drop, Succeed, Fail, vars
<1> USE DEF SettledInv
<1>1. panel.byItself /\ panel.spins /\ panel.again = "no" /\ panel.pages = 1
  BY PanelFacts, KindsAssumption DEF KindsAssumption
<1>2. CASE Change \/ Resolve \/ UNCHANGED vars
  BY <1>2 DEF Change, Resolve, vars, InForce, Rested, Begun, DataOf
<1>3. CASE Commit
  <2>1. seen' = Now
    BY <1>3 DEF Commit
  <2>2. CASE (~ panel.waits \/ ready) /\ Load(Cancelled(runs), panel.spins)
    <3>1. loading'
      BY <1>1, <2>2 DEF Load
    <3>2. \A j \in DOMAIN runs' : ~ runs'[j].over => runs'[j].query = query /\ runs'[j].part = 1
      BY <2>2, LoadRuns, Cancels, CancelOver
    <3>3. Begun' /\ seen'.query = query
      BY <2>1, <2>2, PanelAssumption DEF Begun, Now, NotYet, PanelAssumption, TypeOK
    <3> QED BY <3>1, <3>2, <3>3 DEF InForce, Rested
  <2>3. CASE panel.waits /\ ~ ready /\ runs' = Cancelled(runs)
    <3>1. ~ Begun'
      BY <2>1, <2>3 DEF Begun, Now
    <3>2. \A j \in DOMAIN runs' : runs'[j].over
      BY <2>3, CancelOver
    <3> QED BY <3>1, <3>2 DEF InForce, Rested
  <2> QED BY <1>3, <2>2, <2>3 DEF Commit
<1>4. CASE Remount
  BY <1>4 DEF Remount, Fresh, InForce, Rested, Begun
<1>5. ASSUME NEW i \in DOMAIN runs, Drop(i) PROVE InForce' /\ Rested'
  <2>1. Leave(i) /\ UNCHANGED <<seen, data, loading, error, unsaid>>
    BY <1>5 DEF Drop
  <2> QED BY <2>1, LeaveFrom DEF InForce, Rested, Begun, DataOf
<1>6. ASSUME NEW i \in DOMAIN runs, Succeed(i) \/ Fail(i) PROVE InForce' /\ Rested'
  BY <1>6, FinishSettled
<1>7. ~ Submit /\ ~ Again
  BY <1>1 DEF Submit, Again
<1>8. ~ LoadMore
  BY <1>1, MoreIsBegun, PanelFacts
<1> QED BY <1>2, <1>3, <1>4, <1>5, <1>6, <1>7, <1>8 DEF Next

-----------------------------------------------------------------------------
\* The spinner of a list that keeps what it had while it loads anew.

InForceWhole(i) == ~ runs[i].more /\ ~ runs[i].over

SpinnerInv ==
  panel.pages > 1 /\ ~ panel.empties =>
    /\ \A i \in DOMAIN runs : InForceWhole(i) => loading
    /\ \A i, j \in DOMAIN runs : InForceWhole(i) /\ InForceWhole(j) => i = j

\* At first nothing is loaded and nothing spins.
LEMMA SpinnerInit == Init => SpinnerInv
BY DEF Init, SpinnerInv

\* What the panels with several pages have in common.
LEMMA ListFacts ==
  ASSUME TypeOK, panel.pages > 1
  PROVE  /\ panel.byItself /\ panel.again = "no" /\ panel.parts = 1 /\ panel.cancels # "all"
         /\ ~ panel.empties => panel.cancels = "spinner" /\ panel.spins /\ "loading" \in panel.hides
<1>1. panel.byItself /\ panel.again = "no" /\ panel.parts = 1
  BY PanelFacts, KindsAssumption DEF KindsAssumption
<1>2. panel.cancels # "all"
  <2>1. panel.pages # 1
    BY PanelFacts
  <2> QED BY <2>1, PanelFacts, KindsAssumption DEF KindsAssumption
<1>3. ~ panel.empties => panel.cancels = "spinner" /\ "loading" \in panel.hides
  BY PanelFacts, KindsAssumption DEF KindsAssumption
<1>4. panel.cancels = "spinner" => panel.spins
  BY PanelFacts, KindsAssumption DEF KindsAssumption
<1> QED BY <1>1, <1>2, <1>3, <1>4

\* Every step keeps at most one load of the whole list in force, with the spinner on.
LEMMA SpinnerKeeps == ASSUME TypeOK, SpinnerInv, [Next]_vars PROVE SpinnerInv'
<1> SUFFICES ASSUME panel.pages > 1, ~ panel.empties, panel' = panel
             PROVE  /\ \A i \in DOMAIN runs' : InForceWhole(i)' => loading'
                    /\ \A i, j \in DOMAIN runs' : InForceWhole(i)' /\ InForceWhole(j)' => i = j
  BY DEF SpinnerInv, Next, Change, Resolve, Commit, Submit, Again, LoadMore, LoadMoreAnyTime,
         Remount, Drop, Succeed, Fail, vars
<1> USE DEF SpinnerInv
<1>1. /\ panel.byItself /\ panel.again = "no" /\ panel.parts = 1 /\ panel.cancels # "all"
      /\ panel.cancels = "spinner" /\ panel.spins
  BY ListFacts
<1>2. CASE Change \/ Resolve \/ UNCHANGED vars
  BY <1>2 DEF Change, Resolve, vars, InForceWhole
<1>3. CASE Commit
  <2>1. CASE Load(Cancelled(runs), panel.spins)
    <3>1. loading'
      BY <1>1, <2>1 DEF Load
    <3>2. \A j \in DOMAIN runs' : InForceWhole(j)' => j = Len(Cancelled(runs)) + 1
      BY <2>1, LoadRuns, Cancels, CancelOver DEF InForceWhole
    <3> QED BY <3>1, <3>2
  <2>2. CASE runs' = Cancelled(runs)
    BY <2>2, CancelOver DEF InForceWhole
  <2> QED BY <1>3, <2>1, <2>2 DEF Commit
<1>4. CASE Remount
  BY <1>4 DEF Remount, Fresh
<1>5. CASE LoadMore
  <2> DEFINE r == [query |-> query, page |-> next, part |-> 1, more |-> TRUE, over |-> FALSE]
  <2>1. runs' = Append(runs, r) /\ r.more /\ loading' = loading
    BY <1>5 DEF LoadMore, LoadMoreAnyTime
  <2> HIDE DEF r
  <2>2. \A j \in DOMAIN runs' : \/ j \in DOMAIN runs /\ runs'[j] = runs[j]
                                \/ runs'[j] = r
    BY <2>1, Appending DEF TypeOK
  <2> QED BY <2>1, <2>2 DEF InForceWhole
<1>6. ASSUME NEW i \in DOMAIN runs, Succeed(i) \/ Fail(i)
      PROVE  /\ \A j \in DOMAIN runs' : InForceWhole(j)' => loading'
             /\ \A j, k \in DOMAIN runs' : InForceWhole(j)' /\ InForceWhole(k)' => j = k
  <2>1. Leave(i)
    <3>1. ~ (runs[i].part < panel.parts)
      BY <1>1, Numbers DEF RunType
    <3> QED BY <1>6, <3>1 DEF Succeed, Fail
  <2>2. \A j \in DOMAIN runs' : /\ j \in Nat /\ Old(i, j) \in DOMAIN runs /\ Old(i, j) # i
                                /\ InForceWhole(j)' <=> InForceWhole(Old(i, j))
    BY <2>1, LeaveFrom DEF InForceWhole
  <2>3. ASSUME NEW j \in DOMAIN runs', InForceWhole(j)' PROVE loading'
    <3>1. loading /\ ~ InForceWhole(i)
      BY <2>2, <2>3
    <3>2. loading' = loading \/ loading' = (loading /\ (runs[i].more \/ runs[i].over))
      BY <1>1, <1>6 DEF Succeed, Fail, StopSpinner
    <3> QED BY <3>1, <3>2 DEF InForceWhole
  <2>4. ASSUME NEW j \in DOMAIN runs', NEW k \in DOMAIN runs', InForceWhole(j)', InForceWhole(k)'
        PROVE  j = k
    <3>1. Old(i, j) = Old(i, k)
      BY <2>2, <2>4
    <3> QED BY <2>1, <2>2, <3>1, LeaveFrom, OldIsOneToOne
  <2> QED BY <2>3, <2>4
<1>7. ~ Submit /\ ~ Again
  BY <1>1 DEF Submit, Again
<1>8. \A i \in DOMAIN runs : ~ Drop(i)
  BY <1>1 DEF Drop, Dropped
<1> QED BY <1>2, <1>3, <1>4, <1>5, <1>6, <1>7, <1>8 DEF Next

-----------------------------------------------------------------------------
\* A panel in which no loads of two queries have overlapped.

Single ==
  ~ overlapped =>
    \A i \in DOMAIN runs : /\ runs[i].query = asked /\ ~ runs[i].over
                           /\ runs[i].part > 1 => DataOf(asked)

\* Without a load of the whole under way what is left of another query is behind the error.
WholeDone ==
  /\ ~ overlapped /\ ~ unsaid /\ ~ (error /\ "error" \in panel.hides)
  /\ \A i \in DOMAIN runs : runs[i].more
  => DataOf(asked)

\* A further page belongs to what is there.
MoreFits ==
  ~ overlapped /\ ~ unsaid /\ (\E i \in DOMAIN runs : runs[i].more) => DataOf(asked)

EmptiedFirst == ~ overlapped /\ panel.pages > 1 /\ panel.empties => DataOf(asked)

StaleInv == Single /\ WholeDone /\ MoreFits /\ EmptiedFirst

\* Nothing stale was shown at first.
LEMMA StaleInit == Init => StaleInv
BY DEF Init, StaleInv, Single, WholeDone, MoreFits, EmptiedFirst, DataOf

\* Something stale is shown only where two runs overlapped.
LEMMA StaleFollows == ASSUME TypeOK, StaleInv PROVE StaleOnlyAfterOverlap
<1> SUFFICES ASSUME runs = <<>>, ~ overlapped, ~ unsaid, NEW d \in DOMAIN Visible
             PROVE  Visible[d].of = asked
  BY DEF StaleOnlyAfterOverlap
<1>1. CASE Visible = <<>>
  BY <1>1
<1>2. CASE Visible = data /\ ~ (error /\ "error" \in panel.hides)
  BY <1>2 DEF StaleInv, WholeDone, DataOf
<1> QED BY <1>1, <1>2 DEF Visible

\* Loads of two queries do not overlap when one of the whole begins: those under way are of
\* the same query, or there are none.
LEMMA LoadStale ==
  ASSUME TypeOK, StaleInv, UNCHANGED panel, NEW rs \in Seq(RunType), NEW spin, Load(rs, spin),
         rs = runs \/ (~ overlapped' => rs = <<>>),
         panel.pages > 1 /\ ~ overlapped' => rs = <<>>,
         panel.pages = 1 => \A i \in DOMAIN runs : ~ runs[i].more
  PROVE  StaleInv'
<1>1. /\ asked' = query /\ (data' = data \/ data' = <<>>)
      /\ panel.empties => data' = <<>>
      /\ ~ overlapped' => /\ ~ overlapped \/ runs = <<>>
                          /\ \A i \in DOMAIN runs : runs[i].query = query
  BY DEF Load, Overlap
<1>2. /\ \A j \in DOMAIN runs' :
           \/ j \in DOMAIN rs /\ runs'[j] = rs[j]
           \/ /\ runs'[j].query = query /\ ~ runs'[j].more
              /\ ~ runs'[j].over /\ runs'[j].part = 1
      /\ \E j \in DOMAIN runs' : ~ runs'[j].more
  BY LoadRuns
<1>3. ~ overlapped' => \A j \in DOMAIN runs' :
        \/ j \in DOMAIN runs /\ runs'[j] = runs[j] /\ runs # <<>>
        \/ /\ runs'[j].query = query /\ ~ runs'[j].more
           /\ ~ runs'[j].over /\ runs'[j].part = 1
  BY <1>2
<1>4. Single'
  <2> SUFFICES ASSUME ~ overlapped', NEW j \in DOMAIN runs'
               PROVE  /\ runs'[j].query = query /\ ~ runs'[j].over
                      /\ runs'[j].part > 1 => \A d \in DOMAIN data' : data'[d].of = query
    BY <1>1 DEF Single, DataOf
  <2>1. CASE j \in DOMAIN runs /\ runs'[j] = runs[j] /\ runs # <<>>
    <3>1. ~ overlapped /\ runs[j].query = query /\ asked = query
      BY <1>1, <2>1 DEF StaleInv, Single
    <3> QED BY <1>1, <2>1, <3>1 DEF StaleInv, Single, DataOf
  <2>2. CASE /\ runs'[j].query = query /\ ~ runs'[j].more
             /\ ~ runs'[j].over /\ runs'[j].part = 1
    BY <2>2
  <2> QED BY <1>3, <2>1, <2>2
<1>5. WholeDone'
  BY <1>2 DEF WholeDone
<1>6. MoreFits'
  <2>1. ~ overlapped' => \A j \in DOMAIN runs' : ~ runs'[j].more
    <3>1. CASE panel.pages = 1
      BY <1>3, <3>1
    <3>2. CASE panel.pages > 1
      BY <1>2, <3>2
    <3> QED BY <3>1, <3>2, PanelFacts
  <2> QED BY <2>1 DEF MoreFits
<1>7. EmptiedFirst'
  BY <1>1 DEF EmptiedFirst, DataOf
<1> QED BY <1>4, <1>5, <1>6, <1>7 DEF StaleInv

\* Asking for more keeps that what is shown is what was asked, unless loads overlapped.
LEMMA MoreStale ==
  ASSUME TypeOK, EffectInv, SpinnerInv, StaleInv, LoadMore
  PROVE  StaleInv'
<1> DEFINE r == [query |-> query, page |-> next, part |-> 1, more |-> TRUE, over |-> FALSE]
<1>1. /\ runs' = Append(runs, r) /\ r.more /\ r.query = query /\ ~ r.over /\ r.part = 1
      /\ UNCHANGED <<panel, data, error, unsaid>> /\ asked' = query
      /\ ~ overlapped' => ~ overlapped
  BY DEF LoadMore, LoadMoreAnyTime, Overlap
<1> HIDE DEF r
<1>2. /\ \A j \in DOMAIN runs' : \/ j \in DOMAIN runs /\ runs'[j] = runs[j]
                                 \/ runs'[j] = r
      /\ \A j \in DOMAIN runs : j \in DOMAIN runs' /\ runs'[j] = runs[j]
  BY <1>1 DEF TypeOK
<1>3. panel.pages > 1 /\ asked = query /\ Visible # <<>>
  BY MoreIsBegun
<1>4. DataOf(asked)' <=> DataOf(asked)
  BY <1>1, <1>3 DEF DataOf
<1>5. ~ overlapped /\ ~ unsaid => DataOf(asked)
  <2> SUFFICES ASSUME ~ overlapped, ~ unsaid, ~ panel.empties PROVE DataOf(asked)
    BY <1>3 DEF StaleInv, EmptiedFirst
  <2>1. "loading" \in panel.hides
    BY <1>3, ListFacts
  <2>2. ~ loading /\ ~ (error /\ "error" \in panel.hides)
    BY <1>3, <2>1 DEF Visible
  <2>3. \A i \in DOMAIN runs : runs[i].more
    BY <1>3, <2>2 DEF SpinnerInv, InForceWhole, StaleInv, Single
  <2> QED BY <2>2, <2>3 DEF StaleInv, WholeDone
<1>6. Single'
  BY <1>1, <1>2, <1>3, <1>4 DEF StaleInv, Single
<1>7. WholeDone' /\ MoreFits'
  BY <1>1, <1>4, <1>5 DEF WholeDone, MoreFits
<1>8. EmptiedFirst'
  BY <1>1, <1>4 DEF StaleInv, EmptiedFirst
<1> QED BY <1>6, <1>7, <1>8 DEF StaleInv

\* What is left of the runs of one query when one ends or goes on.
LEMMA RunsGoOn ==
  ASSUME TypeOK, NEW i \in DOMAIN runs, Leave(i) \/ runs' = [runs EXCEPT ![i].part = @ + 1]
  PROVE  \A j \in DOMAIN runs' : \E k \in DOMAIN runs :
           /\ runs'[j].query = runs[k].query /\ runs'[j].over = runs[k].over
           /\ runs'[j].more = runs[k].more
<1>1. CASE Leave(i)
  BY <1>1, LeaveFrom
<1>2. CASE runs' = [runs EXCEPT ![i].part = @ + 1]
  BY <1>2, Numbers DEF RunType
<1> QED BY <1>1, <1>2

\* So does an answer.
LEMMA SucceedStale ==
  ASSUME TypeOK, EffectInv, StaleInv, NEW i \in DOMAIN runs, Succeed(i)
  PROVE  StaleInv'
<1> DEFINE r == runs[i]
<1>1. UNCHANGED <<panel, asked, overlapped, unsaid>>
  BY DEF Succeed
<1>2. Leave(i) \/ runs' = [runs EXCEPT ![i].part = @ + 1]
  BY DEF Succeed
<1>3. CASE ~ overlapped => DataOf(asked)'
  <2>1. Single'
    BY <1>1, <1>2, <1>3, RunsGoOn DEF StaleInv, Single
  <2> QED BY <1>1, <1>3, <2>1 DEF StaleInv, WholeDone, MoreFits, EmptiedFirst
<1>4. CASE ~ r.more \/ data' = <<>>
  <2>1. data' = <<>> \/ (data' = <<Piece(r)>>)
    BY <1>4 DEF Succeed
  <2>2. ~ overlapped => DataOf(asked)'
    BY <1>1, <2>1 DEF StaleInv, Single, DataOf, Piece
  <2> QED BY <1>3, <2>2
<1>5. CASE r.more /\ data' = Append(data, Piece(r))
  <2>1. panel.pages > 1 /\ panel.parts = 1
    BY <1>5, ListFacts, PanelFacts DEF EffectInv
  <2>2. ~ overlapped => r.query = asked
    BY DEF StaleInv, Single
  <2>3. ~ overlapped /\ DataOf(asked) => DataOf(asked)'
    <3> DEFINE q == Piece(r)
    <3>1. data' = Append(data, q) /\ (~ overlapped => q.of = asked)
      BY <1>5, <2>2 DEF Piece
    <3> HIDE DEF q
    <3>2. \A d \in DOMAIN data' : (d \in DOMAIN data /\ data'[d] = data[d]) \/ data'[d] = q
      BY <3>1, Appending DEF TypeOK
    <3> QED BY <1>1, <3>1, <3>2 DEF DataOf
  <2>4. Leave(i)
    <3>1. ~ (r.part < panel.parts)
      BY <2>1, Numbers DEF RunType
    <3> QED BY <1>5, <3>1 DEF Succeed
  <2>5. \A j \in DOMAIN runs' : ~ (runs'[j].part > 1)
    <3>1. \A k \in DOMAIN runs : ~ (runs[k].part > 1)
      BY <2>1, Numbers DEF RunType
    <3> QED BY <2>4, <3>1, LeaveFrom
  <2>6. Single'
    BY <1>1, <1>2, <2>5, RunsGoOn DEF StaleInv, Single
  <2>7. ~ overlapped /\ ~ unsaid => DataOf(asked)
    BY <1>5 DEF StaleInv, MoreFits
  <2> QED BY <1>1, <2>3, <2>6, <2>7 DEF StaleInv, WholeDone, MoreFits, EmptiedFirst
<1> QED BY <1>4, <1>5 DEF Succeed

\* So does a failure.
LEMMA FailStale ==
  ASSUME TypeOK, StaleInv, NEW i \in DOMAIN runs, Fail(i)
  PROVE  StaleInv'
<1> DEFINE r == runs[i]
<1>1. UNCHANGED <<panel, asked, overlapped>> /\ Leave(i)
  BY DEF Fail
<1>2. data' = data \/ data' = <<>>
  BY DEF Fail
<1>3. DataOf(asked) => DataOf(asked)'
  BY <1>1, <1>2 DEF DataOf
<1>4. PICK told \in IF r.part > panel.rests THEN {FALSE} ELSE panel.tells :
        error' = (error \/ told) /\ unsaid' = (unsaid \/ ~ told)
  BY DEF Fail
<1>5. told \in BOOLEAN
  BY <1>4, PanelFacts DEF PanelType
<1>6. ~ unsaid' => told /\ error' /\ ~ unsaid /\ told \in panel.tells
  BY <1>4, <1>5
<1>7. Single'
  BY <1>1, <1>3, LeaveFrom DEF StaleInv, Single
<1>8. WholeDone'
  <2> SUFFICES ASSUME ~ overlapped, ~ unsaid', "error" \notin panel.hides PROVE DataOf(asked)'
    BY <1>1, <1>6 DEF WholeDone
  <2>1. ~ panel.keeps
    BY <1>6, PanelFacts, KindsAssumption DEF KindsAssumption
  <2>2. CASE Leaves(r)
    BY <1>3, <2>1, <2>2 DEF Leaves, StaleInv, Single
  <2>3. CASE ~ Leaves(r)
    BY <2>3 DEF Fail, DataOf
  <2> QED BY <2>2, <2>3
<1>9. MoreFits'
  BY <1>1, <1>3, <1>6, LeaveFrom DEF StaleInv, MoreFits
<1>10. EmptiedFirst'
  BY <1>1, <1>3 DEF StaleInv, EmptiedFirst
<1> QED BY <1>7, <1>8, <1>9, <1>10 DEF StaleInv

\* So does every step.
LEMMA StaleKeeps ==
  ASSUME TypeOK, EffectInv, SpinnerInv, StaleInv, [Next]_vars
  PROVE  StaleInv'
<1>1. CASE Change \/ Resolve \/ UNCHANGED vars
  BY <1>1 DEF Change, Resolve, vars, StaleInv, Single, WholeDone, MoreFits, EmptiedFirst, DataOf
<1>2. CASE Commit
  <2>1. panel.byItself /\ UNCHANGED panel
    BY <1>2 DEF Commit, Due
  <2>2. CASE Load(Cancelled(runs), panel.spins)
    <3>1. ~ overlapped' => runs = <<>>
      <4> SUFFICES ASSUME ~ overlapped', runs # <<>> PROVE FALSE
        OBVIOUS
      <4>1. ~ overlapped /\ \A j \in DOMAIN runs : runs[j].query = query
        BY <2>2 DEF Load, Overlap
      <4>2. 1 \in DOMAIN runs
        BY DEF TypeOK
      <4>3. Begun /\ asked = seen.query
        BY <2>1 DEF EffectInv
      <4> QED BY <1>2, <4>1, <4>2, <4>3, CommitIsNew DEF StaleInv, Single
    <3>2. runs = <<>> => Cancelled(runs) = <<>>
      BY DEF Cancelled
    <3> QED BY <2>1, <2>2, <3>1, <3>2, LoadStale, Cancels DEF EffectInv
  <2>3. CASE /\ panel.waits /\ ~ ready /\ runs' = Cancelled(runs)
             /\ UNCHANGED <<data, error, asked, overlapped, unsaid>>
    <3>1. runs = <<>>
      BY <2>1, <2>3 DEF EffectInv, Begun
    <3>2. runs' = runs
      BY <2>3, <3>1 DEF Cancelled
    <3> QED BY <2>1, <2>3, <3>2 DEF StaleInv, Single, WholeDone, MoreFits, EmptiedFirst, DataOf
  <2> QED BY <1>2, <2>2, <2>3 DEF Commit
<1>3. CASE Submit \/ Again
  <2>1. (\E spin : Load(runs, spin)) /\ UNCHANGED panel
    BY <1>3 DEF Submit, Again
  <2>2. panel.pages = 1
    <3>1. Submit => ~ (panel.pages > 1)
      BY ListFacts DEF Submit
    <3>2. Again => panel.pages = 1
      BY AgainIsBegun
    <3> QED BY <1>3, <3>1, <3>2, PanelFacts
  <2>3. runs \in Seq(RunType)
    BY DEF TypeOK, RunType
  <2> QED BY <2>1, <2>2, <2>3, LoadStale DEF EffectInv
<1>4. CASE LoadMore
  BY <1>4, MoreStale
<1>5. CASE Remount
  BY <1>5 DEF Remount, Fresh, StaleInv, Single, WholeDone, MoreFits, EmptiedFirst, DataOf
<1>6. ASSUME NEW i \in DOMAIN runs, Drop(i) PROVE StaleInv'
  <2>1. overlapped
    BY <1>6 DEF Drop, Dropped, StaleInv, Single
  <2>2. overlapped'
    BY <1>6, <2>1 DEF Drop
  <2> QED BY <2>2 DEF StaleInv, Single, WholeDone, MoreFits, EmptiedFirst
<1>7. ASSUME NEW i \in DOMAIN runs, Succeed(i) \/ Fail(i) PROVE StaleInv'
  BY <1>7, SucceedStale, FailStale
<1> QED BY <1>1, <1>2, <1>3, <1>4, <1>5, <1>6, <1>7 DEF Next

-----------------------------------------------------------------------------
IInv == TypeOK /\ PagesInv /\ EffectInv /\ SettledInv /\ SpinnerInv /\ StaleInv

\* All of it together holds in every state.
LEMMA Invariant == Spec => []IInv
<1>1. Init => IInv
  BY TypesInit, PagesInit, EffectInit, SettledInit, SpinnerInit, StaleInit DEF IInv
<1>2. IInv /\ [Next]_vars => IInv'
  BY TypesKeep, PagesKeep, EffectKeeps, SettledKeeps, SpinnerKeeps, StaleKeeps DEF IInv
<1> QED BY <1>1, <1>2, PTL DEF Spec

\* The variables of a panel keep their types, whatever the panels and their queries.
THEOREM TypeCorrect == Spec => []TypeOK
<1>1. IInv => TypeOK
  BY DEF IInv
<1> QED BY <1>1, Invariant, PTL

\* A list with one "load more" at a time never holds a page twice, however many pages there
\* are and however its loads overlap (app/dex/tokens, app/dex/pools).
THEOREM PagesOnce == Spec => []NoPageTwice
<1>1. IInv => NoPageTwice
  BY PagesFollow DEF IInv
<1> QED BY <1>1, Invariant, PTL

\* A view that drops what its effect cancelled shows, at rest, the query on the screen, however
\* many loads of other queries are still under way and whatever parts they come in (the pages of
\* a block, a transaction, an account, an asset, a name, and what they are made of).
THEOREM ShowsQuery == Spec => []SettledShowsQuery
<1>1. IInv => SettledShowsQuery
  BY SettledFollows DEF IInv
<1> QED BY <1>1, Invariant, PTL

\* The other panels show another query than the last one asked for only if loads of two queries
\* were under way at once, or a failure was not told (components/account-tx-history.tsx and the
\* others that cancel nothing).
THEOREM StaleNeedsOverlap == Spec => []StaleOnlyAfterOverlap
<1>1. IInv => StaleOnlyAfterOverlap
  BY StaleFollows DEF IInv
<1> QED BY <1>1, Invariant, PTL
=============================================================================
