--------------------------- MODULE TokenIndexCache ---------------------------
(***************************************************************************)
(* The disk cache of the token index: GET of                               *)
(* src/src/app/api/tokens/index/route.ts with                              *)
(* src/src/lib/token-index/file-cache-store.ts, for requests of one range  *)
(* of blocks.  Server processes share the directory; within a process the  *)
(* requests interleave at every await.  A temporary file is named after    *)
(* the process, not the request, so two requests of a process write, move  *)
(* and remove the same name; what a name holds and what an open file holds *)
(* are kept apart.                                                         *)
(***************************************************************************)
EXTENDS Naturals, FiniteSets

CONSTANTS
  Processes,    \* server processes
  Requests,     \* requests in flight
  Host,         \* Host[r]: the process that serves request r
  Ttl,          \* ttlSeconds
  MaxDuration,  \* maxDuration of the route: the platform ends what takes longer
  Files,        \* bound: files created in a behaviour
  MaxArrivals,  \* bound: requests of a behaviour
  MaxTime       \* bound: ticks of the clock

ASSUME TokenIndexAssumption ==
  /\ Host \in [Requests -> Processes]
  /\ Ttl \in Nat /\ MaxDuration \in Nat /\ Files \in Nat
  /\ MaxArrivals \in Nat /\ MaxTime \in Nat

VARIABLES
  now,        \* Date.now()
  arrivals,   \* requests so far (bound)
  created,    \* files created so far; files are 1..created
  content,    \* content[f]: what file f holds
  tmp,        \* tmp[p]: the file under the temporary name of process p, 0 if none
  final,      \* the file under the name of the snapshot, 0 if none
  req,        \* req[r]: where request r is
  overlapped  \* have two requests of one process ever written at once? (history)

vars == <<now, arrivals, created, content, tmp, final, req, overlapped>>

\* A snapshot as JSON: when its scan began, when it was saved, how long the text is.
Lengths == 1..2
Snapshots == [scannedAt: 0..MaxTime, savedAt: 0..MaxTime, length: Lengths]
Empty == [length |-> 0]
Torn(n) == [length |-> n, torn |-> TRUE]

Whole(c) == c \in Snapshots

NoRequest == [state |-> "idle"]

Init ==
  /\ now = 0 /\ arrivals = 0
  /\ created = 0
  /\ content = [f \in 1..Files |-> Empty]
  /\ tmp = [p \in Processes |-> 0]
  /\ final = 0
  /\ req = [r \in Requests |-> NoRequest]
  /\ overlapped = FALSE

-----------------------------------------------------------------------------
\* `.${base}.${process.pid}.tmp`
TmpNameShared(r) == CHOOSE p \in Processes : TRUE

TmpName(r) == Host[r]

\* isCacheFresh, of a snapshot that parses
IsCacheFresh(c) == now - c.savedAt < Ttl

Goto(r, state) == req' = [req EXCEPT ![r].state = state]

Scanning(since) == [state |-> "scanning", since |-> since, scannedAt |-> now]

\* A request arrives; ?refresh=1 goes straight to the scan.
Arrive(r, refresh) ==
  /\ req[r] = NoRequest
  /\ arrivals < MaxArrivals /\ arrivals' = arrivals + 1
  /\ req' = [req EXCEPT ![r] = IF refresh THEN Scanning(now)
                               ELSE [state |-> "looking", since |-> now]]
  /\ UNCHANGED <<now, created, content, tmp, final, overlapped>>

\* readTokenIndexDiskCache: a fresh snapshot that parses is the answer; a missing, torn
\* or expired one leads to a scan.
LookTrusting(r) ==
  /\ req[r].state = "looking"
  /\ final # 0 /\ Whole(content[final])
  /\ req' = [req EXCEPT ![r] = [state |-> "answered", since |-> @.since,
                                hit |-> content[final], readAt |-> now]]
  /\ UNCHANGED <<now, arrivals, created, content, tmp, final, overlapped>>

Look(r) ==
  /\ req[r].state = "looking"
  /\ req' = [req EXCEPT ![r] =
       IF final # 0 /\ Whole(content[final]) /\ IsCacheFresh(content[final])
       THEN [state |-> "answered", since |-> @.since, hit |-> content[final], readAt |-> now]
       ELSE Scanning(@.since)]
  /\ UNCHANGED <<now, arrivals, created, content, tmp, final, overlapped>>

\* buildTokenIndexForHeightRange returns and savedAt is taken, or it throws (502).
Scanned(r, n) ==
  /\ req[r].state = "scanning"
  /\ req' = [req EXCEPT ![r] =
       [state |-> "opening", since |-> @.since,
        snap |-> [scannedAt |-> @.scannedAt, savedAt |-> now, length |-> n]]]
  /\ UNCHANGED <<now, arrivals, created, content, tmp, final, overlapped>>

ScanFails(r) ==
  /\ req[r].state = "scanning"
  /\ req' = [req EXCEPT ![r] = [state |-> "answered", since |-> @.since]]
  /\ UNCHANGED <<now, arrivals, created, content, tmp, final, overlapped>>

\* writeFile opens the temporary name: a new file, or the one there, cut to nothing.
Open(r) ==
  LET p == TmpName(r)
      f == IF tmp[p] = 0 THEN created + 1 ELSE tmp[p]
  IN  /\ req[r].state = "opening"
      /\ f <= Files
      /\ created' = IF tmp[p] = 0 THEN f ELSE created
      /\ content' = [content EXCEPT ![f] = Empty]
      /\ tmp' = [tmp EXCEPT ![p] = f]
      /\ req' = [req EXCEPT ![r] = [state |-> "writing", since |-> @.since,
                                    snap |-> @.snap, file |-> f]]
      /\ overlapped' = (overlapped \/ \E q \in Requests \ {r} :
           Host[q] = Host[r] /\ req[q].state \in {"writing", "renaming", "unlinking"})
      /\ UNCHANGED <<now, arrivals, final>>

\* It writes from the start of the file it opened, wherever that file has moved: a text
\* shorter than what is there leaves a torn file.
Write(r) ==
  LET s == req[r].snap
      f == req[r].file
  IN  /\ req[r].state = "writing"
      /\ content' = [content EXCEPT ![f] =
           IF s.length >= @.length THEN s ELSE Torn(@.length)]
      /\ Goto(r, "renaming")
      /\ UNCHANGED <<now, arrivals, created, tmp, final, overlapped>>

\* The disk fails one of the steps: the catch block removes the temporary name.
DiskFails(r) ==
  /\ req[r].state \in {"opening", "writing", "renaming"}
  /\ Goto(r, "unlinking")
  /\ UNCHANGED <<now, arrivals, created, content, tmp, final, overlapped>>

RenameKeepingName(r) ==
  /\ req[r].state = "renaming"
  /\ tmp[TmpName(r)] # 0
  /\ final' = tmp[TmpName(r)]
  /\ Goto(r, "answered")
  /\ UNCHANGED <<now, arrivals, created, content, tmp, overlapped>>

\* rename moves whatever the temporary name holds by then; nothing there is an error.
Rename(r) ==
  LET f == tmp[TmpName(r)]
  IN  /\ req[r].state = "renaming"
      /\ final' = IF f = 0 THEN final ELSE f
      /\ tmp' = [tmp EXCEPT ![TmpName(r)] = 0]
      /\ Goto(r, IF f = 0 THEN "unlinking" ELSE "answered")
      /\ UNCHANGED <<now, arrivals, created, content, overlapped>>

Unlink(r) ==
  /\ req[r].state = "unlinking"
  /\ tmp' = [tmp EXCEPT ![TmpName(r)] = 0]
  /\ Goto(r, "answered")
  /\ UNCHANGED <<now, arrivals, created, content, final, overlapped>>

Respond(r) ==
  /\ req[r].state = "answered"
  /\ req' = [req EXCEPT ![r] = NoRequest]
  /\ UNCHANGED <<now, arrivals, created, content, tmp, final, overlapped>>

\* A process dies and is started again under the same id; its files stay.
Crash(p) ==
  /\ \E r \in Requests : Host[r] = p /\ req[r] # NoRequest
  /\ req' = [r \in Requests |-> IF Host[r] = p THEN NoRequest ELSE req[r]]
  /\ UNCHANGED <<now, arrivals, created, content, tmp, final, overlapped>>

\* No request is left to run longer than maxDuration.
Tick ==
  /\ now < MaxTime
  /\ \A r \in Requests : req[r] # NoRequest => now - req[r].since < MaxDuration
  /\ now' = now + 1
  /\ UNCHANGED <<arrivals, created, content, tmp, final, req, overlapped>>

Next ==
  \/ \E r \in Requests, refresh \in BOOLEAN : Arrive(r, refresh)
  \/ \E r \in Requests : Look(r)
  \/ \E r \in Requests, n \in Lengths : Scanned(r, n)
  \/ \E r \in Requests : ScanFails(r)
  \/ \E r \in Requests : Open(r)
  \/ \E r \in Requests : Write(r)
  \/ \E r \in Requests : DiskFails(r)
  \/ \E r \in Requests : Rename(r)
  \/ \E r \in Requests : Unlink(r)
  \/ \E r \in Requests : Respond(r)
  \/ \E p \in Processes : Crash(p)
  \/ Tick

Spec == Init /\ [][Next]_vars

-----------------------------------------------------------------------------
States == {"idle", "looking", "scanning", "opening", "writing", "renaming", "unlinking",
           "answered"}

\* Types of the variables; no two names hold the same file.
TypeOK ==
  /\ now \in 0..MaxTime /\ created \in 0..Files /\ arrivals \in 0..MaxArrivals
  /\ content \in [1..Files -> Snapshots \cup {Empty} \cup {Torn(n) : n \in Lengths}]
  /\ tmp \in [Processes -> 0..created] /\ final \in 0..created
  /\ \A r \in Requests : req[r].state \in States
  /\ overlapped \in BOOLEAN
  /\ \A p \in Processes, q \in Processes :
       tmp[p] # 0 => tmp[p] # final /\ (tmp[p] = tmp[q] => p = q)

\* However writers race, a request answered from the disk gets one whole snapshot of one
\* scan, no older than the lifetime and the time a request may take (route.ts:89-110).
HitsAreSound ==
  \A r \in Requests :
    (req[r].state = "answered" /\ "hit" \in DOMAIN req[r]) =>
      /\ Whole(req[r].hit)
      /\ req[r].readAt - req[r].hit.scannedAt < Ttl + MaxDuration

\* What the temporary file and the rename are for: neither a crash nor a failing disk nor
\* another process damages the snapshot.  Only two requests of the same process that
\* write at the same time do, as they share the temporary name.
DamageNeedsOverlap ==
  (final # 0 /\ ~ overlapped) => Whole(content[final])

=============================================================================
