---------------------------- MODULE ScannerProofs ----------------------------
(***************************************************************************)
(* What holds of the scan loop for every set of paths, codecs and          *)
(* libraries, every cache limit and every number of writes, requests and   *)
(* faults.                                                                 *)
(***************************************************************************)
EXTENDS Scanner, SequenceTheorems, TLAPS

Entry == [path : Path, stamp : Nat, codec : Codec \cup {NoCodec}]

\* The loop has an entry while it looks at one, and a file has a codec.
EntryOK == loop = "probing" \/ loop = "judging" => entry \in Entry
FilesHaveCodecs == \A p \in Path : Present(p) => file[p].codec \in Codec

TypeInv == TypeOK /\ EntryOK /\ FilesHaveCodecs

USE DEF Loop

-----------------------------------------------------------------------------
(* Type correctness.                                                         *)

LEMMA LibraryHolds ==
    ASSUME NEW n \in 0..Len(Libraries), n < Len(Libraries)
    PROVE  Libraries[n + 1].holds \subseteq Path
<1> DEFINE Lib == [holds : SUBSET Path, enabled : BOOLEAN, wants : SUBSET Codec]
<1>1. Libraries \in Seq(Lib)
    BY ScannerAssumption
<1>2. n + 1 \in 1..Len(Libraries)
    BY Len(Libraries) \in Nat
<1>3. Libraries[n + 1] \in Lib
    <2> HIDE DEF Lib
    <2> QED
        BY <1>1, <1>2, ElementOfSeq
<1> QED
    BY <1>3

LEMMA TypeInit == Init => TypeInv
BY ScannerAssumption DEF Init, TypeInv, TypeOK, EntryOK, FilesHaveCodecs, Present

LEMMA TypeWorld == TypeInv /\ WorldStep => TypeInv'
<1> SUFFICES ASSUME TypeInv, WorldStep PROVE TypeInv'
    OBVIOUS
<1> USE DEF TypeInv, TypeOK, EntryOK, FilesHaveCodecs, Present, Entry, world, scan, requests
<1>1. ASSUME NEW p \in Path, NEW c \in Codec, Write(p, c) PROVE TypeInv'
    BY <1>1 DEF Write
<1>2. ASSUME NEW p \in Path, Remove(p) PROVE TypeInv'
    BY <1>2 DEF Remove
<1>3. ASSUME NEW p \in Path, Ripen(p) PROVE TypeInv'
    BY <1>3 DEF Ripen
<1>4. ASSUME NEW p \in Path, ChangeRow(p) PROVE TypeInv'
    BY <1>4 DEF ChangeRow
<1> QED
    BY <1>1, <1>2, <1>3, <1>4 DEF WorldStep

LEMMA TypeScan == TypeInv /\ (ScanStep \/ FaultStep) => TypeInv'
<1> SUFFICES ASSUME TypeInv, ScanStep \/ FaultStep PROVE TypeInv'
    OBVIOUS
<1> USE ScannerAssumption DEF TypeInv, TypeOK, EntryOK, FilesHaveCodecs, Present, Entry, world, requests, Fault
<1>1. CASE Tick BY <1>1 DEF Tick
<1>2. CASE TakeToken BY <1>2 DEF TakeToken
<1>3. CASE Begin BY <1>3 DEF Begin
<1>4. CASE EnterLibrary
    <2>1. library' \in 0..Len(Libraries)
        BY <1>4 DEF EnterLibrary
    <2>2. loop' \in Loop /\ loop' # "probing" /\ loop' # "judging"
        BY <1>4 DEF EnterLibrary
    <2>3. Libraries[library + 1].holds \subseteq Path
        BY <1>4, LibraryHolds DEF EnterLibrary
    <2>4. todo' \subseteq Path
        BY <1>4, <2>3 DEF EnterLibrary
    <2> QED
        BY <1>4, <2>1, <2>2, <2>4 DEF EnterLibrary
<1>5. CASE LeaveLibrary BY <1>5 DEF LeaveLibrary
<1>6. CASE End BY <1>6 DEF End
<1>7. ASSUME NEW p \in Path, Examine(p) PROVE TypeInv'
    <2>1. file[p].stamp \in Nat
        OBVIOUS
    <2>2. \A e \in Cached(p) : e.codec \in Codec
        BY DEF Cached
    <2>3. loop' \in Loop /\ entry' \in Entry \cup {NoEntry}
        BY <1>7, <2>1, <2>2 DEF Examine
    <2>4. loop' # loop => entry' \in Entry
        BY <1>7, <2>1, <2>2 DEF Examine
    <2> QED
        BY <1>7, <2>3, <2>4 DEF Examine
<1>8. CASE Probe
    <2>1. entry \in Entry /\ Present(entry.path)
        BY <1>8 DEF Probe
    <2>2. file[entry.path].codec \in Codec \cup {NoCodec}
        BY <2>1
    <2>3. entry' \in Entry
        BY <1>8, <2>1, <2>2 DEF Probe
    <2> QED
        BY <1>8, <2>1, <2>2, <2>3 DEF Probe, Remember
<1>9. CASE ProbeFails BY <1>9 DEF ProbeFails
<1>10. CASE Judge
    <2>1. entry \in Entry
        BY <1>10 DEF Judge
    <2> QED
        BY <1>10, <2>1 DEF Judge
<1>11. CASE BeginFails BY <1>11 DEF BeginFails
<1>12. CASE LibraryUnavailable BY <1>12 DEF LibraryUnavailable
<1>13. CASE JudgeFails BY <1>13 DEF JudgeFails
<1>14. CASE Crash BY <1>14 DEF Crash
<1> QED
    BY <1>1, <1>2, <1>3, <1>4, <1>5, <1>6, <1>7, <1>8, <1>9, <1>10, <1>11, <1>12,
       <1>13, <1>14 DEF ScanStep, FaultStep

LEMMA TypeOther == TypeInv /\ (Request \/ Control \/ Restart) => TypeInv'
<1> SUFFICES ASSUME TypeInv, Request \/ Control \/ Restart PROVE TypeInv'
    OBVIOUS
<1> USE DEF TypeInv, TypeOK, EntryOK, FilesHaveCodecs, Present, Entry, world, scan
<1>1. CASE Request BY <1>1 DEF Request
<1>2. CASE Control BY <1>2 DEF Control
<1>3. CASE Restart BY <1>3 DEF Restart, requests
<1> QED
    BY <1>1, <1>2, <1>3

LEMMA TypeStutter == TypeInv /\ UNCHANGED vars => TypeInv'
BY DEF TypeInv, TypeOK, EntryOK, FilesHaveCodecs, Present, Entry, vars, world, scan, requests

LEMMA TypeStep == TypeInv /\ [Next]_vars => TypeInv'
BY TypeWorld, TypeScan, TypeOther, TypeStutter DEF Next

LEMMA TypeAlways == Spec => []TypeInv
BY TypeInit, TypeStep, PTL DEF Spec

\* Every variable of the scanner keeps its type: the cache holds entries of
\* real files with real codecs, and the walk stays within the configuration.
THEOREM TypeCorrect == Spec => []TypeOK
<1>1. TypeInv => TypeOK
    BY DEF TypeInv
<1> QED
    BY TypeAlways, <1>1, PTL

-----------------------------------------------------------------------------
(* The probe cache.                                                          *)

\* Every stamp that was ever read is one that has been given out.
StampsArePast ==
    /\ \A p \in Path : file[p].stamp <= writes
    /\ \A e \in cache : e.stamp > 0 /\ e.stamp <= writes
    /\ loop = "probing" \/ loop = "judging" => entry.stamp > 0 /\ entry.stamp <= writes

CacheInv == StampsArePast /\ CacheIsTrue

LEMMA CacheInit == Init => CacheInv
BY DEF Init, CacheInv, StampsArePast, CacheIsTrue

\* The world moves: a new stamp is one that no entry has.
LEMMA CacheWorld == TypeInv /\ CacheInv /\ WorldStep => CacheInv'
<1> SUFFICES ASSUME TypeInv, CacheInv, WorldStep PROVE CacheInv'
    OBVIOUS
<1> USE DEF TypeInv, TypeOK, EntryOK, Entry, CacheInv, StampsArePast, CacheIsTrue, scan, world
<1>1. ASSUME NEW p \in Path, NEW c \in Codec, Write(p, c) PROVE CacheInv'
    <2>1. \A q \in Path : file'[q] = IF q = p THEN [stamp |-> writes + 1, codec |-> c] ELSE file[q]
        BY <1>1 DEF Write
    <2>2. StampsArePast'
        BY <1>1, <2>1 DEF Write
    <2>3. CacheIsTrue'
        BY <1>1, <2>1 DEF Write
    <2> QED
        BY <2>2, <2>3
<1>2. ASSUME NEW p \in Path, Remove(p) PROVE CacheInv'
    <2>1. \A q \in Path : file'[q] = IF q = p THEN [stamp |-> 0, codec |-> NoCodec] ELSE file[q]
        BY <1>2 DEF Remove
    <2>2. StampsArePast'
        BY <1>2, <2>1 DEF Remove
    <2>3. CacheIsTrue'
        BY <1>2, <2>1 DEF Remove
    <2> QED
        BY <2>2, <2>3
<1>3. ASSUME NEW p \in Path, Ripen(p) PROVE CacheInv'
    BY <1>3 DEF Ripen
<1>4. ASSUME NEW p \in Path, ChangeRow(p) PROVE CacheInv'
    BY <1>4 DEF ChangeRow
<1> QED
    BY <1>1, <1>2, <1>3, <1>4 DEF WorldStep

\* The scan moves: what it remembers under a stamp was read from the file
\* that has this stamp, or from a later one.
LEMMA CacheScan == TypeInv /\ CacheInv /\ (ScanStep \/ FaultStep) => CacheInv'
<1> SUFFICES ASSUME TypeInv, CacheInv, ScanStep \/ FaultStep PROVE CacheInv'
    OBVIOUS
<1> USE DEF TypeInv, TypeOK, EntryOK, Entry, CacheInv, StampsArePast, CacheIsTrue, world
<1>1. CASE Tick BY <1>1 DEF Tick
<1>2. CASE TakeToken BY <1>2 DEF TakeToken
<1>3. CASE Begin BY <1>3 DEF Begin
<1>4. CASE EnterLibrary BY <1>4 DEF EnterLibrary
<1>5. CASE LeaveLibrary BY <1>5 DEF LeaveLibrary
<1>6. CASE End BY <1>6 DEF End
<1>7. ASSUME NEW p \in Path, Examine(p) PROVE CacheInv'
    <2>1. cache' = cache /\ file' = file /\ writes' = writes
        BY <1>7 DEF Examine
    <2>2. CASE ~ Present(p) \/ p \notin ready \/ p \in known
        BY <1>7, <2>1, <2>2 DEF Examine
    <2>3. CASE Present(p) /\ p \in ready /\ p \notin known /\ Cached(p) # {}
        <3>1. loop' = "judging"
            BY <1>7, <2>3 DEF Examine
        <3>2. PICK e \in Cached(p) :
                  entry' = [path |-> p, stamp |-> file[p].stamp, codec |-> e.codec]
            BY <1>7, <2>3 DEF Examine
        <3>3. e.codec = file[p].codec
            BY <3>2 DEF Cached
        <3>4. file[p].stamp > 0
            BY <2>3 DEF Present
        <3> QED
            BY <2>1, <3>1, <3>2, <3>3, <3>4
    <2>4. CASE Present(p) /\ p \in ready /\ p \notin known /\ Cached(p) = {}
        <3>1. loop' = "probing"
            BY <1>7, <2>4 DEF Examine
        <3>2. entry' = [path |-> p, stamp |-> file[p].stamp, codec |-> NoCodec]
            BY <1>7, <2>4 DEF Examine
        <3>3. file[p].stamp > 0
            BY <2>4 DEF Present
        <3> QED
            BY <2>1, <3>1, <3>2, <3>3
    <2> QED
        BY <2>2, <2>3, <2>4
<1>8. CASE Probe
    <2>1. entry \in Entry /\ entry.stamp > 0 /\ entry.stamp <= writes
        BY <1>8 DEF Probe
    <2>2. /\ entry'.path = entry.path /\ entry'.stamp = entry.stamp
          /\ entry'.codec = file[entry.path].codec
        BY <1>8, <2>1 DEF Probe
    <2>3. loop' = "judging" /\ file' = file /\ writes' = writes
        BY <1>8 DEF Probe
    <2>4. cache' \subseteq cache \cup {entry'}
        BY <1>8 DEF Probe, Remember
    <2>5. StampsArePast'
        BY <2>1, <2>2, <2>3, <2>4
    <2>6. CacheIsTrue'
        BY <2>1, <2>2, <2>3, <2>4
    <2> QED
        BY <2>5, <2>6
<1>9. CASE ProbeFails BY <1>9 DEF ProbeFails
<1>10. CASE Judge BY <1>10 DEF Judge
<1>11. CASE BeginFails BY <1>11 DEF BeginFails
<1>12. CASE LibraryUnavailable BY <1>12 DEF LibraryUnavailable
<1>13. CASE JudgeFails BY <1>13 DEF JudgeFails
<1>14. CASE Crash BY <1>14 DEF Crash
<1> QED
    BY <1>1, <1>2, <1>3, <1>4, <1>5, <1>6, <1>7, <1>8, <1>9, <1>10, <1>11, <1>12,
       <1>13, <1>14 DEF ScanStep, FaultStep

LEMMA CacheOther ==
    CacheInv /\ (Request \/ Control \/ Restart \/ UNCHANGED vars) => CacheInv'
<1> SUFFICES ASSUME CacheInv, Request \/ Control \/ Restart \/ UNCHANGED vars PROVE CacheInv'
    OBVIOUS
<1>1. file' = file /\ writes' = writes /\ cache' = cache /\ entry' = entry
    BY DEF Request, Control, Restart, vars, world, scan
<1>2. loop' = loop \/ loop' = "waiting"
    BY DEF Request, Control, Restart, vars, world, scan
<1> QED
    BY <1>1, <1>2 DEF CacheInv, StampsArePast, CacheIsTrue

LEMMA CacheAlways == Spec => []CacheInv
<1>1. TypeInv /\ CacheInv /\ [Next]_vars => CacheInv'
    BY CacheWorld, CacheScan, CacheOther DEF Next
<1> QED
    BY TypeAlways, CacheInit, <1>1, PTL DEF Spec

\* No codec in the probe cache, nor the one found for the entry at hand,
\* contradicts the file that has the same size and time: the order in which
\* scanLibrary reads the directory entry, opens the file and stores the result
\* (scanner.go:117-161) is a safe one, whatever replaces the file in between.
THEOREM CacheIsAlwaysTrue == Spec => []CacheIsTrue
<1>1. CacheInv => CacheIsTrue
    BY DEF CacheInv
<1> QED
    BY CacheAlways, <1>1, PTL

-----------------------------------------------------------------------------
(* Scan requests.                                                            *)

\* What the control loop has seen and the scans have begun for is in the past,
\* and a new process has seen nothing.
RequestInv ==
    /\ seen <= asked
    /\ begun <= asked
    /\ dropped <= asked
    /\ ~ Up => seen = 0
    /\ NoScanRequestLost

LEMMA RequestInit == Init => RequestInv
BY DEF Init, RequestInv, NoScanRequestLost, Up

LEMMA RequestStep == TypeInv /\ RequestInv /\ [Next]_vars => RequestInv'
<1> SUFFICES ASSUME TypeInv, RequestInv, [Next]_vars PROVE RequestInv'
    OBVIOUS
<1> USE DEF TypeInv, TypeOK, RequestInv, NoScanRequestLost, Up
<1>1. CASE WorldStep
    <2>1. UNCHANGED <<loop, asked, token, seen, begun, dropped>>
        BY <1>1 DEF WorldStep, Write, Remove, Ripen, ChangeRow, scan, requests
    <2> QED
        BY <2>1
<1>2. CASE Request BY <1>2 DEF Request, scan
<1>3. CASE Control BY <1>3 DEF Control, scan
<1>4. CASE Tick BY <1>4 DEF Tick, requests
<1>5. CASE TakeToken BY <1>5 DEF TakeToken
<1>6. CASE Begin BY <1>6 DEF Begin, requests
<1>7. CASE BeginFails BY <1>7 DEF BeginFails, requests
<1>8. CASE \/ EnterLibrary \/ LibraryUnavailable \/ LeaveLibrary \/ End
           \/ (\E p \in Path : Examine(p)) \/ Probe \/ ProbeFails \/ Judge \/ JudgeFails
    <2>1. loop # "starting" /\ loop # "down" /\ loop' # "down"
        BY <1>8 DEF EnterLibrary, LibraryUnavailable, LeaveLibrary, End, Examine, Probe,
                    ProbeFails, Judge, JudgeFails
    <2>2. UNCHANGED <<asked, token, seen, begun, dropped>>
        BY <1>8 DEF EnterLibrary, LibraryUnavailable, LeaveLibrary, End, Examine, Probe,
                    ProbeFails, Judge, JudgeFails, requests
    <2> QED
        BY <2>1, <2>2
<1>9. CASE Crash BY <1>9 DEF Crash
<1>10. CASE Restart BY <1>10 DEF Restart, requests
<1>11. CASE UNCHANGED vars BY <1>11 DEF vars, scan, requests
<1> QED
    BY <1>1, <1>2, <1>3, <1>4, <1>5, <1>6, <1>7, <1>8, <1>9, <1>10, <1>11
    DEF Next, ScanStep, FaultStep

\* A scan request is never lost between system_state, the control loop's last
\* value and the channel of one, whenever the process dies and however often
\* it is asked; only a scan that cannot read the table gives one up
\* (worker.go:91-97, 314-342, 366-369).
THEOREM RequestsAreNeverLost == Spec => []NoScanRequestLost
<1>1. RequestInv => NoScanRequestLost
    BY DEF RequestInv
<1> QED
    BY TypeAlways, RequestInit, RequestStep, <1>1, PTL DEF Spec

-----------------------------------------------------------------------------
(* The rows that a scan adds.                                                *)

Walking == loop = "walking" \/ loop = "probing" \/ loop = "judging"
Examining == loop = "probing" \/ loop = "judging"

\* The walk is in an enabled library, stays in it, and looks at no known path.
WalkInv ==
    /\ Walking => library > 0 /\ Here.enabled /\ todo \subseteq Here.holds
    /\ Examining => entry.path \in Here.holds /\ entry.path \notin known

LEMMA WalkInit == Init => WalkInv
BY DEF Init, WalkInv, Walking, Examining

LEMMA WalkStep == TypeInv /\ WalkInv /\ [Next]_vars => WalkInv'
<1> SUFFICES ASSUME TypeInv, WalkInv, [Next]_vars PROVE WalkInv'
    OBVIOUS
<1> USE DEF WalkInv, Walking, Examining, Here
<1>1. CASE WorldStep \/ Request \/ Control \/ UNCHANGED vars
    <2>1. UNCHANGED <<loop, library, todo, entry, known>>
        BY <1>1 DEF WorldStep, Write, Remove, Ripen, ChangeRow, Request, Control, vars, scan
    <2> QED
        BY <2>1
<1>2. CASE Tick \/ TakeToken \/ Begin \/ BeginFails \/ LeaveLibrary \/ LibraryUnavailable
           \/ End \/ Crash \/ Restart
    <2>1. ~ Walking'
        BY <1>2 DEF Tick, TakeToken, Begin, BeginFails, LeaveLibrary, LibraryUnavailable,
                    End, Crash, Restart
    <2> QED
        BY <2>1
<1>3. CASE EnterLibrary
    <2>1. library' = library + 1 /\ library \in Nat
        BY <1>3 DEF EnterLibrary, TypeInv, TypeOK
    <2>2. CASE Libraries[library + 1].enabled
        BY <1>3, <2>1, <2>2 DEF EnterLibrary
    <2>3. CASE ~ Libraries[library + 1].enabled
        BY <1>3, <2>3 DEF EnterLibrary
    <2> QED
        BY <2>2, <2>3
<1>4. ASSUME NEW p \in Path, Examine(p) PROVE WalkInv'
    <2>1. UNCHANGED <<library, known>> /\ todo' = todo \ {p} /\ p \in todo /\ Walking
        BY <1>4 DEF Examine
    <2>2. \/ UNCHANGED <<loop, entry>>
          \/ entry'.path = p /\ p \notin known
        BY <1>4 DEF Examine
    <2> QED
        BY <2>1, <2>2, <1>4 DEF Examine
<1>5. CASE Probe
    <2>1. entry'.path = entry.path
        BY <1>5 DEF Probe, TypeInv, EntryOK, Entry
    <2> QED
        BY <1>5, <2>1 DEF Probe
<1>6. CASE ProbeFails \/ Judge \/ JudgeFails
    <2>1. UNCHANGED <<library, todo>> /\ loop' = "walking" /\ Walking
        BY <1>6 DEF ProbeFails, Judge, JudgeFails
    <2> QED
        BY <2>1
<1> QED
    BY <1>1, <1>2, <1>3, <1>4, <1>5, <1>6 DEF Next, ScanStep, FaultStep

\* A scan adds rows only for what the enabled library it walks wants, though it
\* reads the entry, the codec and the table at different moments, from a cache
\* and a snapshot that are older (scanner.go:85-187): a file it judges by an
\* old codec is one that was replaced under it.
THEOREM ScansAddOnlyWanted == Spec => ScanAddsOnlyWanted
<1> DEFINE Wanted ==
       loop = "judging" /\ loop' = "walking" =>
          \A p \in rows' \ rows :
              /\ library > 0 /\ Here.enabled /\ p \in Here.holds
              /\ p \notin known
              /\ file[p].stamp = entry.stamp => file[p].codec \in Here.wants
<1>1. ASSUME TypeInv, CacheInv, WalkInv, [Next]_vars PROVE [Wanted]_vars
    <2>1. SUFFICES ASSUME Next, loop = "judging", loop' = "walking", NEW p \in rows' \ rows
                   PROVE  /\ library > 0 /\ Here.enabled /\ p \in Here.holds
                          /\ p \notin known
                          /\ file[p].stamp = entry.stamp => file[p].codec \in Here.wants
        BY <1>1
    <2>2. Judge \/ JudgeFails
        BY <2>1 DEF Next, WorldStep, Write, Remove, Ripen, ChangeRow, Request, Control,
                    ScanStep, FaultStep, Restart, Tick, TakeToken, Begin, EnterLibrary,
                    LeaveLibrary, End, Examine, Probe, ProbeFails, BeginFails,
                    LibraryUnavailable, Crash, scan
    <2>3. p = entry.path /\ entry.codec \in Here.wants
        BY <2>1, <2>2 DEF Judge, JudgeFails
    <2> QED
        BY <1>1, <2>1, <2>3 DEF WalkInv, Walking, Examining, CacheInv, CacheIsTrue
<1>2. Spec => []WalkInv
    BY TypeAlways, WalkInit, WalkStep, PTL DEF Spec
<1> QED
    BY <1>1, <1>2, TypeAlways, CacheAlways, PTL DEF Spec, ScanAddsOnlyWanted
=============================================================================
