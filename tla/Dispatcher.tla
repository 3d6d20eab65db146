----------------------------- MODULE Dispatcher ------------------------------
(***************************************************************************)
(* How a worker's dispatch loop learns that there is something to do.      *)
(*                                                                         *)
(* The loop claims rows while it finds a free slot and a pending row; then *)
(* it sleeps on a channel of capacity one and a poll timer.  Everybody who *)
(* creates work changes the table first and rings afterwards: the HTTP     *)
(* handlers of the same process, or the listener of a Postgres NOTIFY; a   *)
(* finishing goroutine; the scan loop, after a scan that queued something; *)
(* the control loop, when it takes over a resume.  A pause is left in the  *)
(* system_state table, which the control loop reads every few seconds.     *)
(*                                                                         *)
(* Rows are counted, not named (JobQueue names them), for one worker; the  *)
(* other workers appear as rows that they claim and finish.                *)
(***************************************************************************)
EXTENDS Naturals

CONSTANTS
    Slots,      \* worker.max_concurrent
    MaxJobs,    \* bound on the rows that are pending or active
    MaxRings,   \* bound on the rings under way
    MaxFaults,  \* bound on the failures of the database and the process
    Wirings     \* who rings: "inprocess" (--mode=all), "listen" (Postgres)

ASSUME DispatcherAssumption ==
    /\ Slots \in Nat \ {0}
    /\ MaxJobs \in Nat
    /\ MaxRings \in Nat
    /\ MaxFaults \in Nat
    /\ Wirings \subseteq {"inprocess", "listen"}

VARIABLES
    wiring,     \* one of Wirings; never changes
    pending,    \* pending rows
    mine,       \* active rows of this worker
    others,     \* active rows of other workers, or that nobody works on any more
    loop,       \* the dispatch loop: "check", "count", "claim", "done", "asleep"
    wake,       \* tokens in the wake channel, which holds one
    telling,    \* rings under way: handlers past their write, notices sent
    ending,     \* goroutines past their final update, not yet past their ring
    scan,       \* has the scan under way "found" work, or is it "quiet"?
    stored,     \* system_state: "true" when the queue is paused
    paused,     \* the worker's own pause flag
    control,    \* the control loop, between reading the state and acting on it
    missed,     \* history: did anything happen untold since the loop last looked?
    faults      \* failures so far

rows == <<pending, mine, others>>
rings == <<telling, ending, scan>>
pausing == <<stored, paused, control>>
vars == <<wiring, rows, loop, wake, rings, pausing, missed, faults>>

TypeOK ==
    /\ wiring \in Wirings
    /\ pending \in Nat /\ mine \in Nat /\ others \in Nat
    /\ pending + mine + others <= MaxJobs
    /\ loop \in {"check", "count", "claim", "done", "asleep"}
    /\ wake \in 0..1
    /\ telling \in 0..MaxRings
    /\ ending \in 0..MaxRings
    /\ scan \in {"quiet", "found"}
    /\ stored \in {"true", "false"} /\ paused \in {"true", "false"}
    /\ control \in {"idle", "pausing", "resuming", "waking"}
    /\ missed \in {"no", "yes"}
    /\ faults \in 0..MaxFaults

Init ==
    /\ wiring \in Wirings
    /\ pending = 0 /\ mine = 0 /\ others = 0
    /\ loop = "check"
    /\ wake = 0
    /\ telling = 0
    /\ ending = 0
    /\ scan = "quiet"
    /\ stored = "false" /\ paused = "false"
    /\ control = "idle"
    /\ missed = "no"
    /\ faults = 0

Room == mine + others < Slots
Fits == pending + mine + others < MaxJobs

\* Slip: a channel without a buffer; a ring is lost while the loop is busy.
WakeUnbuffered == wake' = IF loop = "asleep" THEN 1 ELSE wake

\* The non-blocking send of Wake: a full channel already holds a token.
Wake == wake' = 1

\* A query fails.
Fault ==
    /\ faults < MaxFaults
    /\ faults' = faults + 1

-----------------------------------------------------------------------------
(* The dispatch loop.                                                        *)

Check ==
    /\ loop = "check"
    /\ loop' = IF paused = "true" THEN "done" ELSE "count"
    /\ UNCHANGED <<wiring, rows, wake, rings, pausing, missed, faults>>

\* RunningByLibrary.
CountRows ==
    /\ loop = "count"
    /\ loop' = IF Room THEN "claim" ELSE "done"
    /\ UNCHANGED <<wiring, rows, wake, rings, pausing, missed, faults>>

\* ClaimNextJob; after a claim the loop tries again at once.
ClaimRow ==
    /\ loop = "claim"
    /\ IF pending > 0
       THEN /\ pending' = pending - 1
            /\ mine' = mine + 1
            /\ loop' = "check"
       ELSE /\ loop' = "done"
            /\ UNCHANGED <<pending, mine>>
    /\ UNCHANGED <<wiring, others, wake, rings, pausing, missed, faults>>

\* Either query fails: the loop is done with work it has not looked at.
DispatchFails ==
    /\ loop \in {"count", "claim"}
    /\ loop' = "done"
    /\ missed' = "yes"
    /\ Fault
    /\ UNCHANGED <<wiring, rows, wake, rings, pausing>>

\* The select.
FallAsleep ==
    /\ loop = "done"
    /\ loop' = "asleep"
    /\ UNCHANGED <<wiring, rows, wake, rings, pausing, missed, faults>>

WakeUp ==
    /\ loop = "asleep"
    /\ wake = 1
    /\ wake' = 0
    /\ loop' = "check"
    /\ missed' = "no"
    /\ UNCHANGED <<wiring, rows, rings, pausing, faults>>

\* Slip: the loop has no poll timer.
PollNever ==
    /\ loop = "asleep"
    /\ wake = 1
    /\ loop' = "check"
    /\ missed' = "no"
    /\ UNCHANGED <<wiring, rows, wake, rings, pausing, faults>>

\* The poll timer: 30 s with a listener, 10 s without.
Poll ==
    /\ loop = "asleep"
    /\ loop' = "check"
    /\ missed' = "no"
    /\ UNCHANGED <<wiring, rows, wake, rings, pausing, faults>>

-----------------------------------------------------------------------------
(* Jobs and handlers: first the table, then the ring.                        *)

\* addJob, webhookArr, retryJob, retryFailed, requeueSkipped: a pending row.
\* The handler rings after its statement; the trigger's NOTIFY comes with it.
Enqueue ==
    /\ Fits
    /\ telling < MaxRings
    /\ pending' = pending + 1
    /\ telling' = telling + 1
    /\ UNCHANGED <<wiring, mine, others, loop, wake, ending, scan, pausing, missed, faults>>

Tell ==
    /\ telling > 0
    /\ telling' = telling - 1
    /\ Wake
    /\ UNCHANGED <<wiring, rows, loop, ending, scan, pausing, missed, faults>>

\* The listener's connection is down when the notice comes; nothing replays it.
LoseNotice ==
    /\ wiring = "listen"
    /\ telling > 0
    /\ telling' = telling - 1
    /\ missed' = "yes"
    /\ Fault
    /\ UNCHANGED <<wiring, rows, loop, wake, ending, scan, pausing>>

\* AddJob from the scanner: no ring before the scan ends, but a NOTIFY.
ScanAdds ==
    /\ Fits
    /\ pending' = pending + 1
    /\ scan' = "found"
    /\ IF wiring = "listen"
       THEN telling < MaxRings /\ telling' = telling + 1
       ELSE UNCHANGED telling
    /\ UNCHANGED <<wiring, mine, others, loop, wake, ending, pausing, missed, faults>>

ScanEnds ==
    /\ scan = "found"
    /\ scan' = "quiet"
    /\ Wake
    /\ UNCHANGED <<wiring, rows, loop, telling, ending, pausing, missed, faults>>

\* A pending row is cancelled or deleted, or maintenance fails it.
DropPending ==
    /\ pending > 0
    /\ pending' = pending - 1
    /\ UNCHANGED <<wiring, mine, others, loop, wake, rings, pausing, missed, faults>>

\* The final update of processJob frees a slot ...
Finish ==
    /\ mine > 0
    /\ ending < MaxRings
    /\ mine' = mine - 1
    /\ ending' = ending + 1
    /\ UNCHANGED <<wiring, pending, others, loop, wake, telling, scan, pausing, missed, faults>>

\* ... and the goroutine rings before it returns.
RingAfterJob ==
    /\ ending > 0
    /\ ending' = ending - 1
    /\ Wake
    /\ UNCHANGED <<wiring, rows, loop, telling, scan, pausing, missed, faults>>

OthersClaim ==
    /\ wiring = "listen"
    /\ pending > 0
    /\ pending' = pending - 1
    /\ others' = others + 1
    /\ UNCHANGED <<wiring, mine, loop, wake, rings, pausing, missed, faults>>

\* Another worker's row becomes terminal, or a row nobody works on is marked
\* stale: the slot is free for this worker too, but nothing rings here.
OthersFinish ==
    /\ others > 0
    /\ others' = others - 1
    /\ missed' = "yes"
    /\ UNCHANGED <<wiring, pending, mine, loop, wake, rings, pausing, faults>>

\* metricsLoop fails a stale row of this worker, and rings nobody.  The
\* goroutine that may still be at work on it is not followed any further.
MarkStale ==
    /\ mine > 0
    /\ mine' = mine - 1
    /\ missed' = "yes"
    /\ UNCHANGED <<wiring, pending, others, loop, wake, rings, pausing, faults>>

-----------------------------------------------------------------------------
(* Pause and resume.                                                         *)

Pause ==
    /\ stored = "false"
    /\ stored' = "true"
    /\ UNCHANGED <<wiring, rows, loop, wake, rings, paused, control, missed, faults>>

\* The handler of the same process also rings, most often too early.
Resume ==
    /\ stored = "true"
    /\ stored' = "false"
    /\ IF wiring = "inprocess"
       THEN telling < MaxRings /\ telling' = telling + 1
       ELSE UNCHANGED telling
    /\ UNCHANGED <<wiring, rows, loop, wake, ending, scan, paused, control, missed, faults>>

\* Slip: the control loop takes over a resume but not a pause.
ControlReadsResumeOnly ==
    /\ control = "idle"
    /\ paused = "true" /\ stored = "false"
    /\ control' = "resuming"
    /\ UNCHANGED <<wiring, rows, loop, wake, rings, stored, paused, missed, faults>>

\* The control loop compares the stored flag with its own ...
ControlReads ==
    /\ control = "idle"
    /\ stored # paused
    /\ control' = IF stored = "true" THEN "pausing" ELSE "resuming"
    /\ UNCHANGED <<wiring, rows, loop, wake, rings, stored, paused, missed, faults>>

\* ... reads a failed query as "not paused" ...
ControlMisreads ==
    /\ control = "idle"
    /\ paused = "true"
    /\ control' = "resuming"
    /\ Fault
    /\ UNCHANGED <<wiring, rows, loop, wake, rings, stored, paused, missed>>

\* ... takes the value over, whatever is stored by now ...
ControlApplies ==
    /\ control \in {"pausing", "resuming"}
    /\ IF control = "pausing"
       THEN paused' = "true" /\ control' = "idle"
       ELSE paused' = "false" /\ control' = "waking"
    /\ UNCHANGED <<wiring, rows, loop, wake, rings, stored, missed, faults>>

\* ... and rings after a resume.
ControlWakes ==
    /\ control = "waking"
    /\ control' = "idle"
    /\ Wake
    /\ UNCHANGED <<wiring, rows, loop, rings, stored, paused, missed, faults>>

-----------------------------------------------------------------------------

\* The process dies and is started again: Run reclaims its rows (if that fails
\* they stay active with nobody at work on them), restores the pause flag (a
\* failed query reads as "not paused"), and starts the loops with empty
\* channels.  Handlers of the same process die with it, notices to it are lost.
Restart ==
    /\ \/ pending' = pending + mine /\ UNCHANGED others
       \/ others' = others + mine /\ UNCHANGED pending
    /\ mine' = 0
    /\ loop' = "check"
    /\ wake' = 0
    /\ telling' = 0
    /\ ending' = 0
    /\ scan' = "quiet"
    /\ paused' \in {stored, "false"}
    /\ control' = "idle"
    /\ missed' = "no"
    /\ Fault
    /\ UNCHANGED <<wiring, stored>>

DispatchStep ==
    \/ Check \/ CountRows \/ ClaimRow \/ DispatchFails
    \/ FallAsleep \/ WakeUp \/ Poll

TableStep ==
    \/ Enqueue \/ Tell \/ LoseNotice \/ ScanAdds \/ ScanEnds
    \/ DropPending \/ Finish \/ RingAfterJob \/ OthersClaim \/ OthersFinish \/ MarkStale

PauseStep ==
    \/ Pause \/ Resume \/ ControlReads \/ ControlMisreads \/ ControlApplies \/ ControlWakes

Next == DispatchStep \/ TableStep \/ PauseStep \/ Restart

Spec == Init /\ [][Next]_vars

(***************************************************************************)
(* Fairness.  The dispatch and control loops keep running: their timers    *)
(* fire and their queries return, with an answer or an error, of which     *)
(* there are MaxFaults.  Rings need none, the poll stands in for them, and *)
(* nothing makes a job finish or a user act.                               *)
(***************************************************************************)
Fairness ==
    /\ WF_vars(Check) /\ WF_vars(CountRows) /\ WF_vars(ClaimRow)
    /\ WF_vars(FallAsleep) /\ WF_vars(Poll)
    /\ WF_vars(ControlReads) /\ WF_vars(ControlApplies) /\ WF_vars(ControlWakes)

FairSpec == Spec /\ Fairness

-----------------------------------------------------------------------------
(* Properties.                                                               *)

\* The loop never sleeps through work: when it sleeps, or is about to, without
\* a token although a row is pending, a slot is free and it is not paused, somebody
\* who is going to ring has not done so yet.  The exceptions, for which there
\* is the poll, are a failed query, a lost notice, and a slot freed by another
\* worker or by the stale-job check.
NoLostWakeup ==
    loop \in {"done", "asleep"} /\ wake = 0 /\ pending > 0 /\ Room /\ paused = "false" =>
        \/ telling > 0
        \/ ending > 0
        \/ scan = "found"
        \/ control = "waking"
        \/ missed = "yes"

\* Pending work is not left lying forever beside a free slot, whatever was
\* lost on the way, unless the queue is paused.
WorkIsTaken == []<>(stored = "true" \/ pending = 0 \/ ~ Room)

\* A pause that stays in the table stops the dispatch loop, on every worker
\* and across restarts.
PauseTakesEffect == <>[](stored = "true") => <>[](loop \notin {"count", "claim"})
=============================================================================
