------------------------- MODULE EncoderHealthProofs -------------------------
(***************************************************************************)
(* For any jobs, limits, sessions and configurations: EncoderHealth keeps  *)
(* its types, and no round of probes begins while an encode reports.       *)
(***************************************************************************)
EXTENDS EncoderHealth, FiniteSetTheorems, TLAPS

LEMMA SessionsAreNatural == Sessions \in Nat
BY HealthAssumption

\* The encodes are finitely many, so that sessions can be counted.
LEMMA SessionsAreCounted ==
    ASSUME TypeOK, NEW b
    PROVE  InUse(b) \in Nat /\ InUse(b) >= others
<1>1. IsFiniteSet(Encodes)
    BY HealthAssumption, FS_Subset DEF Encodes
<1>2. Cardinality(Encodes) \in Nat
    BY <1>1, FS_CardinalityType
<1>3. others \in Nat
    BY SessionsAreNatural DEF TypeOK
<1>. QED
    BY <1>2, <1>3 DEF InUse

\* No ffmpeg outlives the process.
DownIsIdle == ~ Up => \A j \in Job : job[j] \notin Encoding

\* While an encode reports, its last report is recent.
ReportsAreRecent == \A j \in Job : job[j] = "reporting" => recent

\* A probe is made after fewer than three failures.
TestsAreCounted == loop = "testing" => failures < 3

Inv == TypeOK /\ DownIsIdle /\ ReportsAreRecent /\ TestsAreCounted

LEMMA InitInv == Init => Inv
<1>1. SUFFICES ASSUME Init PROVE Inv
    OBVIOUS
<1>2. others \in 0..Sessions
    BY <1>1, SessionsAreNatural DEF Init
<1>3. \A j \in Job : job[j] = "away"
    BY <1>1 DEF Init
<1>4. job \in [Job -> JobState]
    BY <1>1 DEF Init, JobState
<1>5. recent \in BOOLEAN
    BY <1>1 DEF Init
<1>6. failures \in 0..3
    BY <1>1 DEF Init
<1>7. TypeOK
    BY <1>1, <1>2, <1>4, <1>5, <1>6, Zenon DEF Init, TypeOK
<1>. QED
    BY <1>1, <1>3, <1>7 DEF Init, Inv, DownIsIdle, ReportsAreRecent, TestsAreCounted, Encoding

\* The process starts while nothing is encoded.
LEMMA StartInv == ASSUME Inv, NEW b \in Backends, Start(b) PROVE Inv'
<1>1. driver' \in {"fine", "stale", "gone"} /\ loop' \in {"off", "waiting", "probing", "testing"}
    BY DEF Inv, Start, TypeOK, Reloaded
<1>2. recent' \in BOOLEAN
    BY DEF Start
<1>3. failures' \in 0..3
    BY DEF Start
<1>4. TypeOK'
    BY <1>1, <1>2, <1>3, Zenon DEF Inv, Start, TypeOK
<1>5. \A j \in Job : job'[j] \notin Encoding
    BY DEF Inv, DownIsIdle, Start
<1>6. TestsAreCounted'
    BY DEF TestsAreCounted, Start
<1>. QED
    BY <1>4, <1>5, <1>6 DEF Inv, DownIsIdle, ReportsAreRecent, Encoding

\* Jobs come, start, report and go.
LEMMA JobInv ==
    ASSUME Inv, NEW j \in Job, Arrive(j) \/ JobStep(j) \/ Stalls(j) \/ EncodeEnds(j)
    PROVE  Inv'
<1>1. TypeOK'
    BY DEF Inv, TypeOK, JobState, Arrive, JobStep, EncodeStarts, EncodeFails, Reports,
           Stalls, EncodeEnds
<1>2. backend' = backend
    BY DEF Arrive, JobStep, EncodeStarts, EncodeFails, Reports, Stalls, EncodeEnds
<1>3. DownIsIdle'
    BY <1>2 DEF Inv, TypeOK, DownIsIdle, Up, Encoding, Dispatched, Arrive, JobStep,
                EncodeStarts, EncodeFails, Reports, Stalls, EncodeEnds
<1>4. ReportsAreRecent'
    BY DEF Inv, TypeOK, ReportsAreRecent, Arrive, JobStep, EncodeStarts, EncodeFails,
           Reports, Stalls, EncodeEnds
<1>5. TestsAreCounted'
    BY DEF Inv, TestsAreCounted, Arrive, JobStep, EncodeStarts, EncodeFails, Reports,
           Stalls, EncodeEnds
<1>. QED
    BY <1>1, <1>3, <1>4, <1>5 DEF Inv

\* The world changes the driver and the sessions of others, and time passes.
LEMMA WorldInv == ASSUME Inv, WorldStep \/ Silence PROVE Inv'
<1>1. OthersOpen => others' \in 0..Sessions
    BY SessionsAreCounted, SessionsAreNatural DEF Inv, TypeOK, OthersOpen
<1>2. OthersClose => others' \in 0..Sessions
    BY SessionsAreNatural DEF Inv, TypeOK, OthersClose
<1>3. TypeOK'
    BY <1>1, <1>2 DEF Inv, TypeOK, WorldStep, Breaks, Repaired, OthersOpen, OthersClose,
                      Silence
<1>4. backend' = backend /\ job' = job
    BY DEF WorldStep, Breaks, Repaired, OthersOpen, OthersClose, Silence
<1>5. ReportsAreRecent'
    BY <1>4 DEF Inv, ReportsAreRecent, WorldStep, Breaks, Repaired, OthersOpen,
                OthersClose, Silence
<1>6. TestsAreCounted'
    BY DEF Inv, TestsAreCounted, WorldStep, Breaks, Repaired, OthersOpen, OthersClose, Silence
<1>. QED
    BY <1>3, <1>4, <1>5, <1>6 DEF Inv, DownIsIdle, Up

\* The health loop: only an exit touches the jobs, and takes them all down.
LEMMA HealthInv == ASSUME Inv, HealthStep PROVE Inv'
<1>1. CASE Exit
    <2>1. TypeOK'
        BY <1>1 DEF Inv, TypeOK, Exit, JobState
    <2>2. \A j \in Job : job'[j] \notin Encoding
        BY <1>1 DEF Inv, TypeOK, Exit, Encoding
    <2>3. TestsAreCounted'
        BY <1>1 DEF TestsAreCounted, Exit
    <2>. QED
        BY <2>1, <2>2, <2>3 DEF Inv, DownIsIdle, ReportsAreRecent, Encoding
<1>2. CASE Look \/ ProbeStarts \/ ProbeSucceeds \/ ProbeFails \/ ProbeBreaks
    BY <1>2 DEF Inv, TypeOK, DownIsIdle, ReportsAreRecent, TestsAreCounted, Up, Look,
                ProbeStarts, ProbeSucceeds, ProbeFails, ProbeBreaks
<1>. QED
    BY <1>1, <1>2 DEF HealthStep

LEMMA StepInv == ASSUME Inv, [Next]_vars PROVE Inv'
<1>1. CASE UNCHANGED vars
    BY <1>1 DEF vars, Inv, TypeOK, DownIsIdle, ReportsAreRecent, TestsAreCounted, Up
<1>2. CASE Next
    BY <1>2, StartInv, JobInv, WorldInv, HealthInv DEF Next
<1>. QED
    BY <1>1, <1>2

LEMMA InvHolds == Spec => []Inv
BY InitInv, StepInv, PTL DEF Spec

\* Every variable of EncoderHealth keeps its type; so fewer than four probes
\* fail in a round, and other programs take no more sessions than there are.
THEOREM HealthTypeCorrect == Spec => []TypeOK
<1>1. Inv => TypeOK
    BY DEF Inv
<1>. QED
    BY <1>1, InvHolds, PTL

\* A round of probes, the only thing that ends the process, never begins while
\* some encode is making progress, for any number of jobs and sessions.
THEOREM RoundsWaitForSilence == Spec => NoRoundDuringProgress
<1>1. ASSUME Inv, [Next]_vars
      PROVE  [~ InRound /\ InRound' => \A j \in Job : job[j] # "reporting"]_vars
    <2>1. SUFFICES ASSUME Next, ~ InRound, InRound'
                   PROVE  \A j \in Job : job[j] # "reporting"
        BY <1>1
    <2>2. Look
        BY <2>1 DEF Next, Start, Arrive, JobStep, EncodeStarts, EncodeFails, Reports, Stalls,
                    EncodeEnds, WorldStep, Breaks, Repaired, OthersOpen, OthersClose,
                    Silence, HealthStep, ProbeStarts, ProbeSucceeds, ProbeFails,
                    ProbeBreaks, Exit, InRound
    <2>. QED
        BY <1>1, <2>2 DEF Inv, ReportsAreRecent, Look
<1>. QED
    BY <1>1, InvHolds, PTL DEF Spec, NoRoundDuringProgress
=============================================================================
