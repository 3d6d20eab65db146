---------------------------- MODULE EncoderHealth ----------------------------
(***************************************************************************)
(* A worker process on its encoder: the back end it picks when it starts   *)
(* (encoder.New), the jobs it encodes, and encoderHealthLoop, which probes *)
(* the back end from time to time and exits when the probes fail, for the  *)
(* supervisor to start the process again.                                  *)
(*                                                                         *)
(* A job is reduced to its encode; the rows are in JobQueue.  A device     *)
(* holds a limited number of encode sessions, which other programs use     *)
(* too, so that a probe can fail although every encode is fine.            *)
(***************************************************************************)
EXTENDS Encoders, FiniteSets

CONSTANTS
    Job,            \* jobs that come along, again and again
    MaxConcurrent,  \* worker.max_concurrent
    Sessions,       \* encode sessions that fit into the device
    Configs         \* configurations, see below

ASSUME HealthAssumption ==
    /\ IsFiniteSet(Job)
    /\ MaxConcurrent \in Nat
    /\ Sessions \in Nat
    /\ Configs \subseteq
          [backend : Backends \cup {"auto"},     \* encoder.backend
           codec : {"hevc", "av1"},              \* encoder.codec
           targets : SUBSET {"hevc", "av1"},     \* TargetCodec of the profiles
           check : BOOLEAN,                      \* worker.gpu_health_check
           compiled : SUBSET STRING,             \* encoders in this ffmpeg
           device : SUBSET STRING]               \* those that the machine can run
    /\ \A c \in Configs : c.targets # {}        \* there is always a profile

VARIABLES
    config,     \* one of Configs; never changes
    backend,    \* the back end of the process, or "down" if there is none
    driver,     \* the device's driver is "fine", "stale" (replaced under the
                \* running process) or "gone"
    others,     \* sessions that other programs use
    job,        \* each job is "away", "queued", "young" (ffmpeg has started),
                \* "reporting" or "stalled"
    recent,     \* lastProgress is less than two minutes old
    loop,       \* the health loop is "off", "waiting", in a round of probes
                \* ("probing") or has a probe's session open ("testing")
    failures    \* failed probes in this round

vars == <<config, backend, driver, others, job, recent, loop, failures>>

JobState == {"away", "queued", "young", "reporting", "stalled"}
Encoding == {"young", "reporting", "stalled"}

TypeOK ==
    /\ config \in Configs
    /\ backend \in Backends \cup {"down"}
    /\ driver \in {"fine", "stale", "gone"}
    /\ others \in 0..Sessions
    /\ job \in [Job -> JobState]
    /\ recent \in BOOLEAN
    /\ loop \in {"off", "waiting", "probing", "testing"}
    /\ failures \in 0..3

Init ==
    /\ config \in Configs
    /\ backend = "down"
    /\ driver = "fine"
    /\ others = 0
    /\ job = [j \in Job |-> "away"]
    /\ recent = FALSE
    /\ loop = "off"
    /\ failures = 0

Up == backend # "down"
Encodes == {j \in Job : job[j] \in Encoding}

\* Sessions in use when this process runs on back end b; a probe takes one too.
InUse(b) ==
    others + (IF b = Software THEN 0 ELSE Cardinality(Encodes))
           + (IF loop = "testing" THEN 1 ELSE 0)

\* One more ffmpeg can encode this codec on back end b.
Runs(b, codec, state) ==
    \/ b = Software
    \/ /\ state = "fine"
       /\ EncoderName(config.compiled, b, codec) \in config.device
       /\ InUse(b) < Sessions

ProbePasses(b, state) ==
    ProbeHasDevice(b) /\ Runs(b, ProbedCodec(config.compiled, b), state)

-----------------------------------------------------------------------------
(* encoder.New.                                                              *)

\* The libraries of a new process match the driver that is there.
Reloaded == IF driver = "stale" THEN "fine" ELSE driver

\* Slip: "auto" trusts what ffmpeg is compiled with.
Unprobed(b) == Supports(config.compiled, b, config.codec)

\* A back end that "auto" takes when its turn comes.
Passes(b) == Supports(config.compiled, b, config.codec) /\ ProbePasses(b, Reloaded)

Picks(b) ==
    IF config.backend = "auto"
    THEN \E n \in DOMAIN Order :
            /\ b = Order[n]
            /\ Passes(b)
            /\ \A m \in 1..(n - 1) : ~ Passes(Order[m])
    ELSE b = config.backend /\ Supports(config.compiled, b, config.codec)

\* The supervisor starts the process, which picks its back end, or exits again
\* when there is none.  Jobs that were being encoded are queued again.
Start(b) ==
    /\ ~ Up
    /\ Picks(b)
    /\ backend' = b
    /\ driver' = Reloaded
    /\ loop' = IF ~ config.check \/ b = Software THEN "off" ELSE "waiting"
    /\ failures' = 0
    /\ recent' = FALSE
    /\ UNCHANGED <<config, others, job>>

-----------------------------------------------------------------------------
(* Jobs.                                                                     *)

Arrive(j) ==
    /\ job[j] = "away"
    /\ job' = [job EXCEPT ![j] = "queued"]
    /\ UNCHANGED <<config, backend, driver, others, recent, loop, failures>>

Dispatched(j) == Up /\ job[j] = "queued" /\ Cardinality(Encodes) < MaxConcurrent

CanEncode(codec) ==
    Supports(config.compiled, backend, codec) /\ Runs(backend, codec, driver)

\* The profile of the job's library says which codec it is encoded in.
EncodeStarts(j) ==
    /\ Dispatched(j)
    /\ \E codec \in config.targets : CanEncode(codec)
    /\ job' = [job EXCEPT ![j] = "young"]
    /\ UNCHANGED <<config, backend, driver, others, recent, loop, failures>>

\* The back end has no encoder for that codec, or ffmpeg gives up at once, with
\* hardware and with software decode; it may still print a last block
\* "progress=end", which counts as progress.
EncodeFails(j) ==
    /\ Dispatched(j)
    /\ \E codec \in config.targets :
          /\ ~ CanEncode(codec)
          /\ recent' \in IF Supports(config.compiled, backend, codec)
                         THEN {recent, TRUE} ELSE {recent}
    /\ job' = [job EXCEPT ![j] = "away"]
    /\ UNCHANGED <<config, backend, driver, others, loop, failures>>

\* Slip: lastProgress is not stored.
ReportsUnseen(j) ==
    /\ job[j] \in {"young", "stalled"}
    /\ job' = [job EXCEPT ![j] = "reporting"]
    /\ UNCHANGED <<config, backend, driver, others, recent, loop, failures>>

\* The first report after a silence; more follow every few seconds.
Reports(j) ==
    /\ job[j] \in {"young", "stalled"}
    /\ job' = [job EXCEPT ![j] = "reporting"]
    /\ recent' = TRUE
    /\ UNCHANGED <<config, backend, driver, others, loop, failures>>

Stalls(j) ==
    /\ job[j] \in {"young", "reporting"}
    /\ job' = [job EXCEPT ![j] = "stalled"]
    /\ UNCHANGED <<config, backend, driver, others, recent, loop, failures>>

\* An encode ends well or badly; one that stalls is killed in the end.
EncodeEnds(j) ==
    /\ job[j] \in Encoding
    /\ job' = [job EXCEPT ![j] = "away"]
    /\ recent' \in {recent, TRUE}
    /\ UNCHANGED <<config, backend, driver, others, loop, failures>>

-----------------------------------------------------------------------------
(* The world.                                                                *)

\* The driver is updated under the running process, or the device fails.
Breaks ==
    /\ driver = "fine"
    /\ driver' \in {"stale", "gone"}
    /\ UNCHANGED <<config, backend, others, job, recent, loop, failures>>

Repaired ==
    /\ driver = "gone"
    /\ driver' = "fine"
    /\ UNCHANGED <<config, backend, others, job, recent, loop, failures>>

OthersOpen ==
    /\ InUse(backend) < Sessions
    /\ others' = others + 1
    /\ UNCHANGED <<config, backend, driver, job, recent, loop, failures>>

OthersClose ==
    /\ others > 0
    /\ others' = others - 1
    /\ UNCHANGED <<config, backend, driver, job, recent, loop, failures>>

\* Two minutes pass in which no encode reports.
Silence ==
    /\ recent
    /\ \A j \in Job : job[j] # "reporting"
    /\ recent' = FALSE
    /\ UNCHANGED <<config, backend, driver, others, job, loop, failures>>

-----------------------------------------------------------------------------
(* encoderHealthLoop.                                                        *)

\* Slip, the code of old: a round of probes whatever the encodes do.
LookBlindly ==
    /\ loop = "waiting"
    /\ loop' = "probing"
    /\ failures' = 0
    /\ UNCHANGED <<config, backend, driver, others, job, recent>>

\* Slip: the timer is not set again when the round is left out.
LookUnarmed ==
    /\ loop = "waiting"
    /\ loop' = IF recent THEN "off" ELSE "probing"
    /\ failures' = 0
    /\ UNCHANGED <<config, backend, driver, others, job, recent>>

\* The timer fires.  With recent progress it is only set again.
Look ==
    /\ loop = "waiting"
    /\ ~ recent
    /\ loop' = "probing"
    /\ failures' = 0
    /\ UNCHANGED <<config, backend, driver, others, job, recent>>

\* While a probe encodes its few frames, it has a session.
ProbeStarts ==
    /\ loop = "probing" /\ failures < 3
    /\ ProbePasses(backend, driver)
    /\ loop' = "testing"
    /\ UNCHANGED <<config, backend, driver, others, job, recent, failures>>

ProbeSucceeds ==
    /\ loop = "testing"
    /\ loop' = "waiting"
    /\ UNCHANGED <<config, backend, driver, others, job, recent, failures>>

ProbeFails ==
    /\ loop = "probing" /\ failures < 3
    /\ ~ ProbePasses(backend, driver)
    /\ failures' = failures + 1
    /\ UNCHANGED <<config, backend, driver, others, job, recent, loop>>

\* The driver goes while the probe encodes.
ProbeBreaks ==
    /\ loop = "testing"
    /\ driver # "fine"
    /\ loop' = "probing"
    /\ failures' = failures + 1
    /\ UNCHANGED <<config, backend, driver, others, job, recent>>

\* os.Exit ten seconds after the third failure: every ffmpeg dies with it.
Exit ==
    /\ loop = "probing" /\ failures = 3
    /\ backend' = "down"
    /\ loop' = "off"
    /\ failures' = 0
    /\ job' = [j \in Job |-> IF job[j] \in Encoding THEN "queued" ELSE job[j]]
    /\ UNCHANGED <<config, driver, others, recent>>

-----------------------------------------------------------------------------

JobStep(j) == EncodeStarts(j) \/ EncodeFails(j) \/ Reports(j)

WorldStep == Breaks \/ Repaired \/ OthersOpen \/ OthersClose

HealthStep == Look \/ ProbeStarts \/ ProbeSucceeds \/ ProbeFails \/ ProbeBreaks \/ Exit

Next ==
    \/ \E b \in Backends : Start(b)
    \/ \E j \in Job : Arrive(j) \/ JobStep(j) \/ Stalls(j) \/ EncodeEnds(j)
    \/ WorldStep
    \/ Silence
    \/ HealthStep

Spec == Init /\ [][Next]_vars

(***************************************************************************)
(* The supervisor restarts the process; the dispatcher takes jobs up;      *)
(* ffmpeg reports and comes to an end, a stalled one at the hands of the   *)
(* user or the stale check; time passes for the health loop's timer.       *)
(***************************************************************************)
FairSpec ==
    /\ Spec
    /\ WF_vars(\E b \in Backends : Start(b))
    /\ \A j \in Job : WF_vars(JobStep(j)) /\ WF_vars(EncodeEnds(j))
    /\ WF_vars(Silence)
    /\ WF_vars(HealthStep)

-----------------------------------------------------------------------------
(* Properties.                                                               *)

InRound == loop \in {"probing", "testing"}

\* "Jobs making progress prove the encoder works": a round of probes, which
\* may end the process, never begins while some encode is making progress,
\* however few sessions are left.
NoRoundDuringProgress ==
    [][~ InRound /\ InRound' => \A j \in Job : job[j] # "reporting"]_vars

NoMoreJobs == <>[][\A j \in Job : ~ Arrive(j)]_vars

\* "This catches a driver update under a running container": a process on a
\* device is not left with a stale driver once jobs stop coming in, whatever
\* its last encodes do.
StaleDriverIsNoticed ==
    NoMoreJobs =>
        []((driver = "stale" /\ backend # Software /\ config.check) ~> (driver # "stale"))

\* Automatic selection does not stay with a device that is gone for good.
DeadDeviceIsLeft ==
    NoMoreJobs /\ <>[](driver = "gone") =>
        [](config.backend = "auto" /\ config.check /\ Supports(config.compiled, Software, config.codec)
           => <>(backend = Software))

\* The health loop's timer takes longer than the dispatcher to hand out its
\* jobs and ffmpeg to report for the first time.
TimerIsSlow ==
    <>[][Look => /\ \A j \in Job : job[j] # "young"
                 /\ \A j \in Job : job[j] = "queued" => Cardinality(Encodes) = MaxConcurrent]_vars

\* The worker does not restart for ever on a device that works but is full:
\* the jobs that are there leave the queue, converted or failed, when none is
\* added and none stalls, and are not killed and queued again and again.
JobsGetThrough ==
    /\ NoMoreJobs
    /\ TimerIsSlow
    /\ <>[][\A j \in Job : ~ Stalls(j)]_vars
    => <>[](\A j \in Job : job[j] = "away")
=============================================================================
