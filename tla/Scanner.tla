------------------------------- MODULE Scanner -------------------------------
(***************************************************************************)
(* The scan loop of a worker (internal/scanner and scanLoop), the requests *)
(* that start it, and the file system and the jobs table that change while *)
(* it runs.                                                                *)
(*                                                                         *)
(* A scan takes a snapshot of the known paths, then walks one library      *)
(* after the other.  For each file it reads the directory entry, asks the  *)
(* probe cache or ffprobe for the codec, and inserts a row: three moments, *)
(* between which the file can be replaced and the row come and go.         *)
(*                                                                         *)
(* A request is a time stamp that a web process leaves in system_state;    *)
(* the control loop copies it into a channel of capacity one.              *)
(*                                                                         *)
(* Size and modification time of a file together are its stamp: every      *)
(* write gives it a new one.  Which codecs a library wants is a constant   *)
(* here; NeedsWork itself is in Profiles, what becomes of rows in JobQueue.*)
(***************************************************************************)
EXTENDS Integers, Sequences, FiniteSets

CONSTANTS
    Path,         \* paths of files with a video extension and a proper name
    Codec,        \* what ffprobe may name
    NoCodec,      \* the codec of no file, and of one not yet probed
    NoEntry,      \* the scan is not looking at a file
    Libraries,    \* in the order of the configuration: which paths each one
                  \* holds, is it enabled, and the codecs it wants replaced
    CacheLimit,   \* entries above which the probe cache is emptied
    MaxWrites,    \* bound on the writes of the world to files
    MaxRequests,  \* bound on scan requests
    MaxFaults     \* bound on failed queries, probes and processes

ASSUME ScannerAssumption ==
    /\ Libraries \in Seq([holds : SUBSET Path, enabled : BOOLEAN, wants : SUBSET Codec])
    /\ NoCodec \notin Codec
    /\ NoEntry \notin [path : Path, stamp : Nat, codec : Codec \cup {NoCodec}]
    /\ CacheLimit \in Nat
    /\ MaxWrites \in Nat /\ MaxRequests \in Nat /\ MaxFaults \in Nat

VARIABLES
    file,      \* the stamp of the file at each path (0 if there is none), its codec
    ready,     \* paths whose file is old enough and has a single hard link
    writes,    \* stamps given out so far
    rows,      \* paths in the jobs table
    loop,      \* the scan loop: "down", "waiting", "starting", "libraries",
               \* "walking", "probing", "judging"
    known,     \* the scan's copy of `rows`
    library,   \* how many libraries it has begun to walk
    todo,      \* paths of the library that it will still come to
    entry,     \* the directory entry it has read, and the codec it found
    cache,     \* the probe cache
    asked,     \* system_state scan_requested; 0 if there was no request
    token,     \* tokens in the scanNow channel
    seen,      \* lastScanReq of the control loop
    begun,     \* history: `asked` when the last scan read its snapshot
    served,    \* history: the same for the last scan that came to its end
    dropped,   \* history: the same when a scan last failed to begin
    faults

world == <<file, ready, writes>>
scan == <<loop, known, library, todo, entry, cache, begun, served, dropped>>
requests == <<asked, token, seen>>
vars == <<world, rows, scan, requests, faults>>

Loop == {"down", "waiting", "starting", "libraries", "walking", "probing", "judging"}

TypeOK ==
    /\ file \in [Path -> [stamp : Nat, codec : Codec \cup {NoCodec}]]
    /\ ready \subseteq Path
    /\ writes \in Nat
    /\ rows \subseteq Path
    /\ loop \in Loop
    /\ known \subseteq Path
    /\ library \in 0..Len(Libraries)
    /\ todo \subseteq Path
    /\ entry \in [path : Path, stamp : Nat, codec : Codec \cup {NoCodec}] \cup {NoEntry}
    /\ cache \subseteq [path : Path, stamp : Nat, codec : Codec]
    /\ asked \in Nat /\ token \in 0..1 /\ seen \in Nat
    /\ begun \in Nat /\ served \in Nat
    /\ dropped \in Nat
    /\ faults \in 0..MaxFaults

Init ==
    /\ file = [p \in Path |-> [stamp |-> 0, codec |-> NoCodec]]
    /\ ready = {}
    /\ writes = 0
    /\ rows = {}
    /\ loop = "waiting"
    /\ known = {} /\ library = 0 /\ todo = {}
    /\ entry = NoEntry
    /\ cache = {}
    /\ asked = 0 /\ token = 0 /\ seen = 0
    /\ begun = 0 /\ served = 0 /\ dropped = 0
    /\ faults = 0

Up == loop # "down"
Present(p) == file[p].stamp # 0
Here == Libraries[library]

Fault ==
    /\ faults < MaxFaults
    /\ faults' = faults + 1

-----------------------------------------------------------------------------
(* The world: releases arrive, are replaced and removed, users and web hooks *)
(* add and delete rows, other workers and jobs do what they do.              *)

\* A file is written, or moved to the path; its modification time may be old.
Write(p, c) ==
    /\ writes < MaxWrites
    /\ writes' = writes + 1
    /\ file' = [file EXCEPT ![p] = [stamp |-> writes + 1, codec |-> c]]
    /\ ready' \in {ready \ {p}, ready \cup {p}}
    /\ UNCHANGED <<rows, scan, requests, faults>>

Remove(p) ==
    /\ Present(p)
    /\ file' = [file EXCEPT ![p] = [stamp |-> 0, codec |-> NoCodec]]
    /\ ready' = ready \ {p}
    /\ UNCHANGED <<writes, rows, scan, requests, faults>>

\* Time passes, and a torrent client drops its link.
Ripen(p) ==
    /\ Present(p)
    /\ p \notin ready
    /\ ready' = ready \cup {p}
    /\ UNCHANGED <<file, writes, rows, scan, requests, faults>>

\* A row for p is inserted by a user or a web hook, or deleted by a user.
ChangeRow(p) ==
    /\ rows' = IF p \in rows THEN rows \ {p} ELSE rows \cup {p}
    /\ UNCHANGED <<world, scan, requests, faults>>

-----------------------------------------------------------------------------
(* Requests.                                                                 *)

\* POST /api/control/scan: the state is written, and a web server in the
\* worker's own process (--mode=all) also calls RequestScan.
Request ==
    /\ asked < MaxRequests
    /\ asked' = asked + 1
    /\ token' \in {token} \cup (IF Up THEN {1} ELSE {})
    /\ UNCHANGED <<world, rows, scan, seen, faults>>

\* Slip: a request that comes during a scan is taken to be served by it.
ControlDuringScan ==
    /\ Up
    /\ asked # seen
    /\ seen' = asked
    /\ token' = IF loop = "waiting" THEN 1 ELSE token
    /\ UNCHANGED <<world, rows, scan, asked, faults>>

\* The control loop finds a request it has not seen.
Control ==
    /\ Up
    /\ asked # seen
    /\ seen' = asked
    /\ token' = 1
    /\ UNCHANGED <<world, rows, scan, asked, faults>>

-----------------------------------------------------------------------------
(* The scan loop.                                                            *)

\* Its timer fires.
Tick ==
    /\ loop = "waiting"
    /\ loop' = "starting"
    /\ UNCHANGED <<world, rows, known, library, todo, entry, cache, begun, served,
                   dropped, requests, faults>>

\* It takes the token.
TakeToken ==
    /\ loop = "waiting"
    /\ token = 1
    /\ token' = 0
    /\ loop' = "starting"
    /\ UNCHANGED <<world, rows, known, library, todo, entry, cache, begun, served,
                   dropped, asked, seen, faults>>

\* KnownPaths.
Begin ==
    /\ loop = "starting"
    /\ loop' = "libraries"
    /\ known' = rows
    /\ begun' = asked
    /\ UNCHANGED <<world, rows, library, todo, entry, cache, served, dropped, requests, faults>>

\* Slip: the loop returns when a scan fails.
BeginFailsForGood ==
    /\ loop = "starting"
    /\ loop' = "ended"
    /\ dropped' = asked
    /\ Fault
    /\ UNCHANGED <<world, rows, known, library, todo, entry, cache, begun, served, requests>>

\* KnownPaths fails: the scan is given up, and the loop waits for its timer.
BeginFails ==
    /\ loop = "starting"
    /\ loop' = "waiting"
    /\ dropped' = asked
    /\ Fault
    /\ UNCHANGED <<world, rows, known, library, todo, entry, cache, begun, served, requests>>

\* The next library: walked if it is enabled.
EnterLibrary ==
    /\ loop = "libraries"
    /\ library < Len(Libraries)
    /\ library' = library + 1
    /\ IF Libraries[library + 1].enabled
       THEN /\ loop' = "walking"
            /\ todo' = Libraries[library + 1].holds
       ELSE UNCHANGED <<loop, todo>>
    /\ UNCHANGED <<world, rows, known, entry, cache, begun, served, dropped, requests, faults>>

\* Its directory is not available: it is left out.
LibraryUnavailable ==
    /\ loop = "libraries"
    /\ library < Len(Libraries)
    /\ library' = library + 1
    /\ Fault
    /\ UNCHANGED <<world, rows, loop, known, todo, entry, cache, begun, served, dropped, requests>>

LeaveLibrary ==
    /\ loop = "walking"
    /\ todo = {}
    /\ loop' = "libraries"
    /\ UNCHANGED <<world, rows, known, library, todo, entry, cache, begun, served,
                   dropped, requests, faults>>

End ==
    /\ loop = "libraries"
    /\ library = Len(Libraries)
    /\ loop' = "waiting"
    /\ served' = begun
    /\ known' = {} /\ library' = 0
    /\ UNCHANGED <<world, rows, todo, entry, cache, begun, dropped, requests, faults>>

\* Slip: the cache is asked by path alone.
CachedByPath(p) == {e \in cache : e.path = p}

\* cachedCodec.
Cached(p) == {e \in cache : e.path = p /\ e.stamp = file[p].stamp}

\* The directory entry of p is read, or p is missed because its directory was
\* listed while no file was there: the paths are come to in any order.  A file
\* that is not ready or known is passed over; the codec of one that was
\* examined before is remembered.
Examine(p) ==
    /\ loop = "walking"
    /\ p \in todo
    /\ todo' = todo \ {p}
    /\ IF ~ Present(p) \/ p \notin ready \/ p \in known
       THEN UNCHANGED <<loop, entry>>
       ELSE IF Cached(p) # {}
       THEN /\ loop' = "judging"
            /\ \E e \in Cached(p) :
                  entry' = [path |-> p, stamp |-> file[p].stamp, codec |-> e.codec]
       ELSE /\ loop' = "probing"
            /\ entry' = [path |-> p, stamp |-> file[p].stamp, codec |-> NoCodec]
    /\ UNCHANGED <<world, rows, known, library, cache, begun, served, dropped, requests, faults>>

\* rememberCodec, which empties a cache that has become too large.
Remember(e) ==
    LET kept == IF Cardinality(cache) > CacheLimit THEN {} ELSE cache
    IN  cache' = {k \in kept : <<k.path, k.stamp>> # <<e.path, e.stamp>>} \cup {e}

\* ProbeCodec: ffprobe reads the file that is at the path by now.
Probe ==
    /\ loop = "probing"
    /\ Present(entry.path)
    /\ entry' = [entry EXCEPT !.codec = file[entry.path].codec]
    /\ Remember(entry')
    /\ loop' = "judging"
    /\ UNCHANGED <<world, rows, known, library, todo, begun, served, dropped, requests, faults>>

\* Slip: that a file could not be probed is remembered, too.
ProbeFailsAndIsCached ==
    /\ loop = "probing"
    /\ loop' = "walking"
    /\ entry' = NoEntry
    /\ Remember(entry)
    /\ IF Present(entry.path) THEN Fault ELSE UNCHANGED faults
    /\ UNCHANGED <<world, rows, known, library, todo, begun, served, dropped, requests>>

\* The file is gone, or ffprobe fails or takes too long: nothing is remembered.
ProbeFails ==
    /\ loop = "probing"
    /\ loop' = "walking"
    /\ entry' = NoEntry
    /\ IF Present(entry.path) THEN Fault ELSE UNCHANGED faults
    /\ UNCHANGED <<world, rows, known, library, todo, cache, begun, served, dropped, requests>>

\* AddJob, for a codec the library wants replaced; a path that has got a row
\* in the meantime keeps it.
Judge ==
    /\ loop = "judging"
    /\ loop' = "walking"
    /\ entry' = NoEntry
    /\ IF entry.codec \in Here.wants
       THEN /\ rows' = rows \cup {entry.path}
            /\ known' = IF entry.path \in rows THEN known ELSE known \cup {entry.path}
       ELSE UNCHANGED <<rows, known>>
    /\ UNCHANGED <<world, library, todo, cache, begun, served, dropped, requests, faults>>

\* AddJob fails.
JudgeFails ==
    /\ loop = "judging"
    /\ entry.codec \in Here.wants
    /\ loop' = "walking"
    /\ entry' = NoEntry
    /\ Fault
    /\ UNCHANGED <<world, rows, known, library, todo, cache, begun, served, dropped, requests>>

-----------------------------------------------------------------------------
(* The process.                                                              *)

\* It ends, in whatever way; all but the table is lost.
Crash ==
    /\ Up
    /\ loop' = "down"
    /\ known' = {} /\ library' = 0 /\ todo' = {} /\ entry' = NoEntry /\ cache' = {}
    /\ token' = 0 /\ seen' = 0
    /\ Fault
    /\ UNCHANGED <<world, rows, begun, served, dropped, asked>>

\* A process starts; lastScanReq is empty and the first scan is due soon.
Restart ==
    /\ loop = "down"
    /\ loop' = "waiting"
    /\ UNCHANGED <<world, rows, known, library, todo, entry, cache, begun, served,
                   dropped, requests, faults>>

-----------------------------------------------------------------------------

WorldStep ==
    \/ \E p \in Path, c \in Codec : Write(p, c)
    \/ \E p \in Path : Remove(p) \/ Ripen(p) \/ ChangeRow(p)

ScanStep ==
    \/ Tick \/ TakeToken \/ Begin \/ EnterLibrary \/ LeaveLibrary \/ End
    \/ (\E p \in Path : Examine(p)) \/ Probe \/ ProbeFails \/ Judge

FaultStep == BeginFails \/ LibraryUnavailable \/ JudgeFails \/ Crash

Next ==
    \/ WorldStep
    \/ Request \/ Control
    \/ ScanStep \/ FaultStep \/ Restart

Spec == Init /\ [][Next]_vars

(***************************************************************************)
(* The scan loop goes on (its timer fires again and again), the control    *)
(* loop ticks, a supervisor restarts the process.  ProbeFails is in        *)
(* ScanStep for a file that is gone; with a file it needs a fault, and     *)
(* faults are bounded.                                                     *)
(***************************************************************************)
FairSpec == Spec /\ WF_vars(ScanStep) /\ WF_vars(Control) /\ WF_vars(Restart)

-----------------------------------------------------------------------------
(* Properties.                                                               *)

\* The probe cache never lies about a file that is on disk, nor does the codec
\* found for the entry under examination, though the entry is read before
\* ffprobe opens the path: if the file was replaced in between, its key is one
\* that no file has any more.
CacheIsTrue ==
    /\ \A e \in cache : e.stamp = file[e.path].stamp => e.codec = file[e.path].codec
    /\ loop = "judging" /\ entry.stamp = file[entry.path].stamp =>
          entry.codec = file[entry.path].codec

\* A request that no scan has begun for is on its way to the scan loop: to be
\* copied by the control loop, in the channel, or taken by a loop that has yet
\* to take its snapshot.  Only a scan that failed to begin may have lost it.
NoScanRequestLost ==
    asked > begun /\ asked > dropped /\ Up =>
        \/ asked # seen
        \/ token = 1
        \/ loop = "starting"

\* A row that the scan adds is for a path of the enabled library it walks, one
\* whose row no user has deleted since the snapshot was taken; and unless the
\* file was replaced after its entry was read, it still has a codec that this
\* library, not one walked before or the file before it, wants replaced.
ScanAddsOnlyWanted ==
    [][loop = "judging" /\ loop' = "walking" =>
          \A p \in rows' \ rows :
              /\ library > 0 /\ Here.enabled /\ p \in Here.holds
              /\ p \notin known
              /\ file[p].stamp = entry.stamp => file[p].codec \in Here.wants]_vars

\* A requested scan takes place: one that begins after the request comes to
\* its end, though scans fail, the channel is full and the process dies.
RequestedScanRuns ==
    \A n \in 1..MaxRequests : (asked = n) ~> (served >= n)

\* A file that is ready and that some enabled library wants to convert.
Waits(p) ==
    /\ Present(p) /\ p \in ready /\ p \notin rows
    /\ \E l \in DOMAIN Libraries :
          Libraries[l].enabled /\ p \in Libraries[l].holds /\ file[p].codec \in Libraries[l].wants

\* A file that ought to be converted is queued sooner or later, unless the
\* world changes its mind: no cached codec, no stale snapshot and no failure
\* hides it for ever.
WantedFilesAreQueued == \A p \in Path : Waits(p) ~> ~ Waits(p)
=============================================================================
