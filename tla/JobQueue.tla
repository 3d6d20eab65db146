------------------------------ MODULE JobQueue ------------------------------
(***************************************************************************)
(* Workers (internal/worker) and web handlers (internal/web) around the    *)
(* jobs table.                                                             *)
(*                                                                         *)
(* A worker's dispatch loop counts the active rows, computes the libraries *)
(* with a free slot, and claims a row in a second database round trip; a   *)
(* goroutine per claimed row then runs processJob.  Meanwhile the control, *)
(* metrics and maintenance loops and the HTTP handlers write to the same   *)
(* rows, most of them without looking at who owns the row.                 *)
(*                                                                         *)
(* A Runner is one goroutine of processJob: the pool of runners of a       *)
(* worker bounds how many goroutines it has at once.  `lease` is a history *)
(* variable, read by no guard: the runners whose claim no later write to   *)
(* their row has taken away.                                               *)
(***************************************************************************)
EXTENDS JobTable

CONSTANTS
    Runner,          \* goroutines running processJob
    WorkerOf,        \* the worker each of them belongs to
    NoJob,           \* a runner without a job
    MaxConcurrent,   \* worker.max_concurrent
    LibraryCap,      \* max_concurrent of each library; 0 means unset
    Enabled,         \* the libraries that are enabled
    HardwareDecode,  \* does the encoder back end have decoder arguments?
    Maintainer,      \* the worker whose maintenance loop is modelled
    Env              \* which of EnvEvents the environment may produce

\* What the world around the queue may do.  A run names the events it allows.
EnvEvents == {
    "add",           \* a scan, a webhook or a user adds files
    "retry",         \* a user retries a job that is not active
    "retry_active",  \* the retry endpoint is called for an active job
    "late_requeue",  \* a bulk or an add request requeues rows it read earlier
    "cancel",        \* a user cancels
    "delete",        \* a user deletes a row
    "crash",         \* a worker process dies
    "stop",          \* a worker process is asked to shut down
    "reclaim_fails", \* the UPDATE by which a new process reclaims its rows fails
    "stall",         \* a live encode reports nothing for stale_after
    "maintenance",   \* the daily maintenance pass runs
    "vanish",        \* the library manager deletes a source file
    "container",     \* an encode may change the file's extension
    "copy" }         \* the output is copied from another file system

ASSUME QueueAssumption ==
    /\ IsFiniteSet(Worker)
    /\ WorkerOf \in [Runner -> Worker]
    /\ NoJob \notin Job /\ NoJob \notin Runner
    /\ MaxConcurrent \in Nat \ {0}
    /\ LibraryCap \in [Library -> Nat]
    /\ Enabled \subseteq Library
    /\ HardwareDecode \in BOOLEAN
    /\ Maintainer \in Worker
    /\ Env \subseteq EnvEvents

VARIABLES
    proc,        \* each worker process: "up", "stopping" or "down"
    eligible,    \* libraries each dispatch loop counted as having room
    runs,        \* the job of each runner
    phase,       \* where each runner is in processJob
    tracked,     \* runners whose ffmpeg is in the transcoder's `running` map
    gone,        \* files no longer at their path
    maint,       \* the maintenance pass: what it has read about each row
    requeueing,  \* rows an HTTP handler has read and is about to requeue
    cancelling,  \* rows between the two statements of RequestCancel
    lease        \* history: runners that still hold the claim they made

workerVars == <<proc, eligible, runs, phase, tracked>>
webVars == <<requeueing, cancelling>>
vars == <<tableVars, workerVars, webVars, gone, maint, lease>>

Encoding == {"encoding", "software"}
Swapping == {"swapping", "copying", "retiring"}
Outcome  == Terminal
Phase    == {"none", "claimed"} \cup Encoding \cup Swapping \cup Outcome

Working(r) == phase[r] # "none"

RunnersOf(j) == {r \in Runner : runs[r] = j}

\* Runners that share r's entry of the transcoder's map: same worker, same job.
SameKey(r) == {q \in Runner : WorkerOf[q] = WorkerOf[r] /\ runs[q] = runs[r]}

\* During the swap the source is at .backup and its own path is empty, until
\* a copy across file systems creates its destination there.
Missing(f) ==
    \/ f \in gone
    \/ \E r \in Runner : phase[r] = "swapping" /\ FileOf[runs[r]] = f

Cap(l) == IF LibraryCap[l] > 0 THEN LibraryCap[l] ELSE MaxConcurrent

TypeOK ==
    /\ TableTypeOK
    /\ proc \in [Worker -> {"up", "stopping", "down"}]
    /\ eligible \in [Worker -> SUBSET Library]
    /\ runs \in [Runner -> Job \cup {NoJob}]
    /\ phase \in [Runner -> Phase]
    /\ \A r \in Runner : phase[r] = "none" <=> runs[r] = NoJob
    /\ tracked \subseteq Runner
    /\ gone \subseteq File
    /\ maint \in [Job -> {"idle", "listed", "missing"}]
    /\ requeueing \subseteq Job
    /\ cancelling \subseteq Job
    /\ lease \subseteq Runner

Init ==
    /\ TableInit
    /\ proc = [w \in Worker |-> "up"]
    /\ eligible = [w \in Worker |-> {}]
    /\ runs = [r \in Runner |-> NoJob]
    /\ phase = [r \in Runner |-> "none"]
    /\ tracked = {}
    /\ gone = {}
    /\ maint = [j \in Job |-> "idle"]
    /\ requeueing = {}
    /\ cancelling = {}
    /\ lease = {}

-----------------------------------------------------------------------------
(* Dispatch loop: dispatchOnce is two round trips.                           *)

\* Slip: the libraries' own limits are not consulted.
CountWithoutLibraryCap(w) ==
    /\ proc[w] = "up"
    /\ eligible[w] = {}
    /\ Cardinality(ActiveJobs) < MaxConcurrent
    /\ Enabled # {}
    /\ eligible' = [eligible EXCEPT ![w] = Enabled]
    /\ UNCHANGED <<tableVars, proc, runs, phase, tracked, webVars, gone, maint, lease>>

\* RunningByLibrary, and the libraries that have room according to it.
Count(w) ==
    /\ proc[w] = "up"
    /\ eligible[w] = {}
    /\ Cardinality(ActiveJobs) < MaxConcurrent
    /\ LET room == {l \in Enabled : Cardinality(ActiveIn(l)) < Cap(l)}
       IN  /\ room # {}
           /\ eligible' = [eligible EXCEPT ![w] = room]
    /\ UNCHANGED <<tableVars, proc, runs, phase, tracked, webVars, gone, maint, lease>>

\* ClaimNextJob succeeds and the goroutine is started.
Claim(w, r, j) ==
    /\ proc[w] = "up"
    /\ eligible[w] # {}
    /\ WorkerOf[r] = w
    /\ phase[r] = "none"
    /\ ClaimRow(j, w, eligible[w])
    /\ eligible' = [eligible EXCEPT ![w] = {}]
    /\ runs' = [runs EXCEPT ![r] = j]
    /\ phase' = [phase EXCEPT ![r] = "claimed"]
    /\ lease' = lease \cup {r}
    /\ UNCHANGED <<proc, tracked, webVars, gone, maint>>

\* ClaimNextJob finds nothing to claim.
ClaimNothing(w) ==
    /\ eligible[w] # {}
    /\ Claimable(eligible[w]) = {}
    /\ eligible' = [eligible EXCEPT ![w] = {}]
    /\ UNCHANGED <<tableVars, proc, runs, phase, tracked, webVars, gone, maint, lease>>

-----------------------------------------------------------------------------
(* processJob and the parts of Transcode that interact with the queue.       *)

\* Moves runner r to phase p and keeps everything but the table and `tracked`.
Goto(r, p) ==
    /\ phase' = [phase EXCEPT ![r] = p]
    /\ UNCHANGED <<proc, eligible, runs, webVars, maint>>

\* The row is set to running and the source is looked up and probed: it is
\* missing or unreadable, or one of the skip rules applies, or ffmpeg starts.
Start(r) ==
    /\ phase[r] = "claimed"
    /\ proc[WorkerOf[r]] = "up"
    /\ SetStatus(runs[r], "running")
    /\ \/ /\ Goto(r, "failed")
          /\ UNCHANGED tracked
       \/ /\ ~ Missing(FileOf[runs[r]])
          /\ Goto(r, "skipped")
          /\ UNCHANGED tracked
       \/ /\ ~ Missing(FileOf[runs[r]])
          /\ Goto(r, "encoding")
          /\ tracked' = (tracked \ SameKey(r)) \cup {r}
    /\ UNCHANGED <<gone, lease>>

\* The progress callback writes the row and finds no cancel request.
Progress(r) ==
    /\ phase[r] \in Encoding
    /\ proc[WorkerOf[r]] = "up"
    /\ runs[r] \in old
    /\ TouchRow(runs[r])
    /\ UNCHANGED <<workerVars, webVars, gone, maint, lease>>

\* The progress callback finds cancel_requested, kills ffmpeg and stops.
CancelSeen(r) ==
    /\ phase[r] \in Encoding
    /\ proc[WorkerOf[r]] = "up"
    /\ runs[r] \in cancelReq
    /\ TouchRow(runs[r])
    /\ Goto(r, "cancelled")
    /\ tracked' = tracked \ SameKey(r)
    /\ UNCHANGED <<gone, lease>>

\* ffmpeg ends with an error: hardware decoding is retried in software once.
EncodeFails(r) ==
    IF phase[r] = "encoding" /\ HardwareDecode
    THEN /\ Goto(r, "software")
         /\ tracked' = (tracked \ SameKey(r)) \cup {r}
    ELSE /\ Goto(r, "failed")
         /\ tracked' = tracked \ SameKey(r)

FfmpegFails(r) ==
    /\ phase[r] \in Encoding
    /\ proc[WorkerOf[r]] = "up"
    /\ EncodeFails(r)
    /\ UNCHANGED <<tableVars, gone, lease>>

\* ffmpeg succeeds.  The output is kept out (not smaller, a dry run:
\* skipped; truncated: failed), or the source is renamed to .backup, which
\* fails when it is no longer there.
FfmpegSucceeds(r) ==
    /\ phase[r] \in Encoding
    /\ proc[WorkerOf[r]] = "up"
    /\ \/ Goto(r, "skipped")
       \/ Goto(r, "failed")
       \/ ~ Missing(FileOf[runs[r]]) /\ Goto(r, "swapping")
    /\ tracked' = tracked \ SameKey(r)
    /\ UNCHANGED <<tableVars, gone, lease>>

\* The rename crosses file systems: MoveFile creates the destination, which
\* has the source's path, and begins to copy.
SwapCopies(r) ==
    /\ "copy" \in Env
    /\ phase[r] = "swapping"
    /\ Goto(r, "copying")
    /\ UNCHANGED <<tableVars, tracked, gone, lease>>

\* The new file is in place, under another name if the container differs, or
\* the move failed.  The swap is not interrupted by a shutdown.
SwapInstalls(r) ==
    /\ phase[r] \in {"swapping", "copying"}
    /\ \/ Goto(r, "retiring") /\ UNCHANGED gone
       \/ /\ "container" \in Env
          /\ Goto(r, "retiring")
          /\ gone' = gone \cup {FileOf[runs[r]]}
       \/ Goto(r, "failed") /\ UNCHANGED gone
    /\ UNCHANGED <<tableVars, tracked, lease>>

\* .backup is deleted or moved to the trash, or stays; the job is completed.
RetireOriginal(r) ==
    /\ phase[r] = "retiring"
    /\ Goto(r, "completed")
    /\ UNCHANGED <<tableVars, tracked, gone, lease>>

\* Slip: the goroutine returns but keeps its job.
LeaveHalfway(r) ==
    /\ phase' = [phase EXCEPT ![r] = "none"]
    /\ UNCHANGED <<proc, eligible, runs, webVars, gone, maint>>

\* The goroutine of runner r returns.
Leave(r) ==
    /\ runs' = [runs EXCEPT ![r] = NoJob]
    /\ phase' = [phase EXCEPT ![r] = "none"]
    /\ UNCHANGED <<proc, eligible, webVars, gone, maint>>

\* The final UpdateJob.  It writes the row whatever happened to it since the
\* claim, so it also ends the claim of any other runner of that job.
Finish(r) ==
    /\ phase[r] \in Outcome
    /\ proc[WorkerOf[r]] = "up"
    /\ SetStatus(runs[r], phase[r])
    /\ Leave(r)
    /\ lease' = lease \ RunnersOf(runs[r])
    /\ UNCHANGED tracked

\* Shutdown: the context ends ffmpeg, and whatever Transcode returned the row
\* becomes interrupted, through a context of its own.
Interrupt(r) ==
    /\ phase[r] \in {"claimed"} \cup Encoding \cup Outcome
    /\ proc[WorkerOf[r]] = "stopping"
    /\ SetStatus(runs[r], "interrupted")
    /\ Leave(r)
    /\ tracked' = IF phase[r] \in Encoding THEN tracked \ SameKey(r) ELSE tracked
    /\ lease' = lease \ RunnersOf(runs[r])

-----------------------------------------------------------------------------
(* The other loops of a worker.                                              *)

\* Slip: only the first, hardware-decoding pass is ever killed.
KillDueOnce(r) ==
    /\ r \in tracked
    /\ phase[r] = "encoding"
    /\ proc[WorkerOf[r]] = "up"
    /\ status[runs[r]] \in Active
    /\ runs[r] \in cancelReq
    /\ owner[runs[r]] = WorkerOf[r]

\* controlLoop kills the ffmpeg of its own active, flagged rows.
KillDue(r) ==
    /\ r \in tracked
    /\ phase[r] \in Encoding
    /\ proc[WorkerOf[r]] = "up"
    /\ status[runs[r]] \in Active
    /\ runs[r] \in cancelReq
    /\ owner[runs[r]] = WorkerOf[r]

\* To run, a killed ffmpeg is an ffmpeg that failed.
Kill(r) ==
    /\ KillDue(r)
    /\ EncodeFails(r)
    /\ UNCHANGED <<tableVars, gone, lease>>

\* stale_after (hours) passes without a write to row j.  A runner writes the
\* row every few seconds unless its encode or its copy of the output stalls,
\* and the control loop comes round many times in that span.
Age(j) ==
    /\ status[j] \in Active
    /\ j \notin old
    /\ \A r \in RunnersOf(j) :
          /\ "stall" \in Env
          /\ phase[r] \in Encoding \cup Swapping
          /\ ~ KillDue(r)
    /\ old' = old \cup {j}
    /\ UNCHANGED <<status, owner, cancelReq, workerVars, webVars, gone, maint, lease>>

\* metricsLoop of any worker fails the stale rows of every worker.
MarkStale(w) ==
    /\ proc[w] = "up"
    /\ StaleRows # {}
    /\ MarkStaleRows
    /\ lease' = {r \in lease : runs[r] \notin StaleRows}
    /\ UNCHANGED <<workerVars, webVars, gone, maint>>

\* runMaintenance reads the pending and active paths ...
MaintList ==
    /\ "maintenance" \in Env
    /\ proc[Maintainer] = "up"
    /\ \A j \in Job : maint[j] = "idle"
    /\ maint' = [j \in Job |-> IF status[j] \in Pending \cup Active THEN "listed" ELSE "idle"]
    /\ UNCHANGED <<tableVars, workerVars, webVars, gone, lease>>

\* ... looks up one of them ...
MaintStat(j) ==
    /\ maint[j] = "listed"
    /\ maint' = [maint EXCEPT ![j] = IF Missing(FileOf[j]) THEN "missing" ELSE "idle"]
    /\ UNCHANGED <<tableVars, workerVars, webVars, gone, lease>>

\* ... and fails the row of a file it did not find.
MaintFail(j) ==
    /\ maint[j] = "missing"
    /\ SetStatus(j, "failed")
    /\ maint' = [maint EXCEPT ![j] = "idle"]
    /\ lease' = lease \ RunnersOf(j)
    /\ UNCHANGED <<workerVars, webVars, gone>>

-----------------------------------------------------------------------------
(* Worker processes.                                                         *)

RunnersIn(w) == {r \in Runner : WorkerOf[r] = w}

\* The process dies.  A file it was swapping may be left under .backup.
Crash(w) ==
    /\ "crash" \in Env
    /\ proc[w] # "down"
    /\ proc' = [proc EXCEPT ![w] = "down"]
    /\ eligible' = [eligible EXCEPT ![w] = {}]
    /\ runs' = [r \in Runner |-> IF WorkerOf[r] = w THEN NoJob ELSE runs[r]]
    /\ phase' = [r \in Runner |-> IF WorkerOf[r] = w THEN "none" ELSE phase[r]]
    /\ tracked' = tracked \ RunnersIn(w)
    /\ lease' = lease \ RunnersIn(w)
    /\ maint' = IF w = Maintainer THEN [j \in Job |-> "idle"] ELSE maint
    /\ LET halfway == {FileOf[runs[r]] : r \in {q \in RunnersIn(w) : phase[q] = "swapping"}}
       IN  \E lost \in SUBSET halfway : gone' = gone \cup lost
    /\ UNCHANGED <<tableVars, webVars>>

\* Slip: the rows are not reclaimed.
RestartWithoutReclaim(w) ==
    /\ proc[w] = "down"
    /\ proc' = [proc EXCEPT ![w] = "up"]
    /\ UNCHANGED <<tableVars, eligible, runs, phase, tracked, webVars, gone, maint, lease>>

\* Run: the rows this worker id left active are reclaimed before the loops
\* start, and the loops start even if that fails.
Restart(w) ==
    /\ proc[w] = "down"
    /\ proc' = [proc EXCEPT ![w] = "up"]
    /\ \/ ReclaimRows(w)
       \/ "reclaim_fails" \in Env /\ UNCHANGED tableVars
    /\ UNCHANGED <<eligible, runs, phase, tracked, webVars, gone, maint, lease>>

\* SIGTERM: the loops end, a claim in flight fails with the context.  So does
\* the final UpdateJob of a runner that has already passed its check of the
\* context; the error is dropped, and the row stays as it is.
Stop(w) ==
    /\ "stop" \in Env
    /\ proc[w] = "up"
    /\ proc' = [proc EXCEPT ![w] = "stopping"]
    /\ eligible' = [eligible EXCEPT ![w] = {}]
    /\ maint' = IF w = Maintainer THEN [j \in Job |-> "idle"] ELSE maint
    /\ \E unwritten \in SUBSET {r \in RunnersIn(w) : phase[r] \in Outcome} :
          /\ runs' = [r \in Runner |-> IF r \in unwritten THEN NoJob ELSE runs[r]]
          /\ phase' = [r \in Runner |-> IF r \in unwritten THEN "none" ELSE phase[r]]
          /\ lease' = lease \ unwritten
    /\ UNCHANGED <<tableVars, tracked, webVars, gone>>

\* running.Wait() returns and the process exits.
Exit(w) ==
    /\ proc[w] = "stopping"
    /\ \A r \in RunnersIn(w) : ~ Working(r)
    /\ proc' = [proc EXCEPT ![w] = "down"]
    /\ UNCHANGED <<tableVars, eligible, runs, phase, tracked, webVars, gone, maint, lease>>

-----------------------------------------------------------------------------
(* Web handlers, the scanner, and the file system.                           *)

\* A scan or enqueue inserts a new row for a file that is there.
AddJob(j) ==
    /\ "add" \in Env
    /\ ~ Missing(FileOf[j])
    /\ InsertRow(j)
    /\ UNCHANGED <<workerVars, webVars, gone, maint, lease>>

\* The effect of RequeueJob on the table and on the claims of j's runners.
Requeue(j) ==
    /\ RequeueRow(j)
    /\ lease' = lease \ RunnersOf(j)

\* POST /jobs/{id}/retry.
Retry(j) ==
    /\ \/ "retry" \in Env /\ status[j] \notin Active
       \/ "retry_active" \in Env
    /\ Requeue(j)
    /\ UNCHANGED <<workerVars, webVars, gone, maint>>

\* enqueue of a path whose row is pending or terminal, as listed.
EnqueueKnown(j) ==
    /\ "late_requeue" \in Env
    /\ status[j] \in Terminal \cup Pending
    /\ ~ Missing(FileOf[j])
    /\ requeueing' = requeueing \cup {j}
    /\ UNCHANGED <<tableVars, workerVars, cancelling, gone, maint, lease>>

\* RequeueByStatus reads the newest rows of one status; how many is up to the
\* limit of the request.
BulkSelect(st) ==
    /\ "late_requeue" \in Env
    /\ \E S \in SUBSET {j \in Job : status[j] = st} :
          /\ S # {}
          /\ requeueing' = requeueing \cup S
    /\ UNCHANGED <<tableVars, workerVars, cancelling, gone, maint, lease>>

\* RequeueJob on a row read earlier: it applies to any status but queued.
RequeueRead(j) ==
    /\ j \in requeueing
    /\ requeueing' = requeueing \ {j}
    /\ IF status[j] \in Requeueable THEN Requeue(j) ELSE UNCHANGED <<tableVars, lease>>
    /\ UNCHANGED <<workerVars, cancelling, gone, maint>>

\* RequestCancel, first statement: a pending row is cancelled on the spot.
CancelPending(j) ==
    /\ "cancel" \in Env
    /\ CancelPendingRow(j)
    /\ UNCHANGED <<workerVars, webVars, gone, maint, lease>>

\* The first statement changed nothing.
CancelMisses(j) ==
    /\ "cancel" \in Env
    /\ InTable(j)
    /\ status[j] \notin Pending
    /\ j \notin cancelling
    /\ cancelling' = cancelling \cup {j}
    /\ UNCHANGED <<tableVars, workerVars, requeueing, gone, maint, lease>>

\* Second statement: an active row is flagged.
CancelFlags(j) ==
    /\ j \in cancelling
    /\ FlagActiveRow(j)
    /\ cancelling' = cancelling \ {j}
    /\ UNCHANGED <<workerVars, requeueing, gone, maint, lease>>

\* Neither statement changed a row: the handler answers 409 Conflict.
CancelRefused(j) ==
    /\ j \in cancelling
    /\ status[j] \notin Active
    /\ cancelling' = cancelling \ {j}
    /\ UNCHANGED <<tableVars, workerVars, requeueing, gone, maint, lease>>

Delete(j) ==
    /\ "delete" \in Env
    /\ DeleteRow(j)
    /\ UNCHANGED <<workerVars, webVars, gone, maint, lease>>

\* The library manager removes or renames a file.
Vanish(f) ==
    /\ "vanish" \in Env
    /\ ~ Missing(f)
    /\ gone' = gone \cup {f}
    /\ UNCHANGED <<tableVars, workerVars, webVars, maint, lease>>

-----------------------------------------------------------------------------

RunnerStep(r) ==
    \/ Start(r) \/ Progress(r) \/ CancelSeen(r)
    \/ FfmpegFails(r) \/ FfmpegSucceeds(r) \/ SwapCopies(r)
    \/ SwapInstalls(r) \/ RetireOriginal(r)
    \/ Finish(r) \/ Interrupt(r) \/ Kill(r)

WorkerStep(w) ==
    \/ Count(w) \/ ClaimNothing(w) \/ MarkStale(w)
    \/ Crash(w) \/ Restart(w) \/ Stop(w) \/ Exit(w)
    \/ \E r \in Runner, j \in Job : Claim(w, r, j)

JobStep(j) ==
    \/ AddJob(j) \/ Retry(j) \/ EnqueueKnown(j) \/ RequeueRead(j)
    \/ CancelPending(j) \/ CancelMisses(j) \/ CancelFlags(j) \/ CancelRefused(j)
    \/ Delete(j) \/ Age(j) \/ MaintStat(j) \/ MaintFail(j)

Next ==
    \/ \E r \in Runner : RunnerStep(r)
    \/ \E w \in Worker : WorkerStep(w)
    \/ \E j \in Job : JobStep(j)
    \/ \E st \in {"failed", "skipped"} : BulkSelect(st)
    \/ \E f \in File : Vanish(f)
    \/ MaintList

Spec == Init /\ [][Next]_vars

(***************************************************************************)
(* Fairness.  The loops of a live worker keep running (tickers and polls), *)
(* time passes, a goroutine whose next step is local takes it.  Nothing    *)
(* makes ffmpeg finish or report, nothing restarts a dead process, and     *)
(* nothing makes users, crashes or the file system act.                    *)
(***************************************************************************)
Fairness ==
    /\ \A w \in Worker :
          /\ WF_vars(Count(w)) /\ WF_vars(ClaimNothing(w))
          /\ WF_vars(\E r \in Runner, j \in Job : Claim(w, r, j))
          /\ WF_vars(MarkStale(w)) /\ WF_vars(Exit(w))
    /\ \A r \in Runner :
          /\ WF_vars(Start(r)) /\ WF_vars(Finish(r))
          /\ WF_vars(SwapInstalls(r)) /\ WF_vars(RetireOriginal(r))
          /\ WF_vars(Interrupt(r)) /\ WF_vars(Kill(r))
    /\ \A j \in Job : WF_vars(Age(j))

FairSpec == Spec /\ Fairness

-----------------------------------------------------------------------------
(* Safety, whatever the environment does.                                    *)

\* ClaimNextJob hands a row to one goroutine only, and as long as nothing
\* revokes that claim the row stays active, names the goroutine's worker, and
\* no second goroutine on any worker holds a claim on it.
ClaimIntegrity ==
    /\ \A r \in lease :
          /\ runs[r] \in Job
          /\ status[runs[r]] \in Active
          /\ owner[runs[r]] = WorkerOf[r]
          /\ proc[WorkerOf[r]] # "down"
    /\ \A r, q \in lease : runs[r] = runs[q] => r = q

\* Two runs for one file overlap only when the claim of one has been revoked: by
\* a requeue of its row, stale marking, maintenance, or the final update of
\* another run of the row.  Deleting the row and adding the file again does not
\* suffice, nor do crashes and restarts: FileSwap's overlap, and with it the
\* loss of a .backup, needs one of those writers.
ClaimedFilesAreExclusive ==
    \A r, q \in Runner :
        /\ Working(r)
        /\ Working(q)
        /\ r # q
        /\ FileOf[runs[r]] = FileOf[runs[q]]
        => r \notin lease \/ q \notin lease

\* Every worker counts the active rows before it claims one more, so each may
\* be about to claim on a count that the others have outdated: the limits are
\* exact for one worker, and W workers exceed them by W - 1 at most.
Excess == Cardinality(Worker) - 1

\* Whatever revokes claims, those that stand keep the limits up to that excess,
\* in all and in each library.
ClaimCap ==
    /\ Cardinality(lease) <= MaxConcurrent + Excess
    /\ \A l \in Library :
          Cardinality({r \in lease : LibOf[runs[r]] = l}) <= Cap(l) + Excess

-----------------------------------------------------------------------------
(* Safety in a disciplined environment: nobody requeues an active job, live  *)
(* encodes keep reporting, and no maintenance pass overlaps a job.           *)

Disciplined == Env \cap {"retry_active", "late_requeue", "stall", "maintenance"} = {}

\* No zombies: a goroutine in processJob works on a row that is active and
\* its worker's, and no other goroutine of any worker is on that row.
RunnersOwnTheirRows ==
    /\ \A r \in Runner : Working(r) => r \in lease
    /\ ClaimIntegrity

\* No orphans: an active row has a goroutine working on it, unless the
\* process of the worker it names is on its way down or dead.  (For as long as
\* no reclaim fails: what that leaves is marked stale in time.)
ActiveRowsAreWorkedOn ==
    \A j \in Job :
        status[j] \in Active =>
            \/ RunnersOf(j) # {}
            \/ owner[j] \in Worker /\ proc[owner[j]] # "up"

\* A file is in the hands of one processJob at a time, from the claim to the
\* final UPDATE: whichever rows and workers they belong to, not even after a
\* row is deleted and the file added again do two runs for it overlap.  This
\* is what FileSwap takes for granted of runs that do not `overlap`.
OneRunPerFile ==
    \A r, q \in Runner :
        /\ Working(r)
        /\ Working(q)
        /\ FileOf[runs[r]] = FileOf[runs[q]]
        => r = q

\* job.go: "Terminal statuses will not change without user action": a
\* terminal row changes only to queued (retry) or deleted.
TerminalIsFinal ==
    [][\A j \in Job :
          status[j] \in Terminal => status'[j] \in {status[j], "queued", "deleted"}]_vars

\* config.go: max_concurrent "caps simultaneous ffmpeg processes across all
\* libraries".  In a disciplined environment this holds up to the claims that
\* other workers make between a worker's count and its own claim.  Elsewhere it
\* does not: a stalled encode whose row is failed no longer counts.
ConcurrencyCap ==
    Cardinality({r \in Runner : phase[r] \in Encoding}) <= MaxConcurrent + Excess

\* The same for the rows the dispatcher counts, globally and in each library.
ActiveCap ==
    /\ Cardinality(ActiveJobs) <= MaxConcurrent + Excess
    /\ \A l \in Library : Cardinality(ActiveIn(l)) <= Cap(l) + Excess

\* The excess is never one worker's own: nobody but the worker itself makes
\* the rows it owns active, so that its count is good for its own claim.
OwnCap ==
    \A w \in Worker :
        /\ Cardinality(OwnedActive(w)) <= MaxConcurrent
        /\ \A l \in Library : Cardinality(OwnedActive(w) \cap ActiveIn(l)) <= Cap(l)

-----------------------------------------------------------------------------
(* The abstract queue.                                                       *)

\* What the statuses of a row mean to the abstract queue.
Meaning(st) ==
    CASE st = "absent"    -> "out"
      [] st \in Pending   -> "waiting"
      [] st \in Active    -> "held"
      [] st \in Terminal  -> "settled"
      [] st = "deleted"   -> "gone"

\* The runner at work on row j, if there is one.
HolderOf(j) ==
    IF RunnersOf(j) # {} THEN CHOOSE r \in Runner : runs[r] = j ELSE NoJob

Queue == INSTANCE WorkQueue WITH
    Row <- Job, Movie <- FileOf, Agent <- Runner, Nobody <- NoJob,
    state <- [j \in Job |-> Meaning(status[j])],
    holder <- [j \in Job |-> HolderOf(j)]

\* In a disciplined environment workers, handlers and the table implement the
\* abstract queue: from its claim to its last UPDATE a row is one goroutine's,
\* which alone settles it or gives it back, unless its process ends; stale
\* marking and reclaiming touch only rows whose goroutine is lost.
ImplementsWorkQueue == Queue!Spec

-----------------------------------------------------------------------------
(* Liveness.                                                                 *)

\* From some moment on every worker stays up.
WorkersStayUp == \A w \in Worker : <>[](proc[w] = "up")

\* One worker does; the others may die for good.
SomeWorkerStaysUp == \E w \in Worker : <>[](proc[w] = "up")

\* Users do not press cancel for ever: each time, RequestCancel refreshes
\* updated_at, and the row of a dead worker looks alive again.
UsersRelent == \A j \in Job : <>[](j \notin cancelling)

\* README: "a stuck job (no progress for stale_after) is failed": an active
\* row that nobody works on does not stay active as long as one worker lives,
\* even if the worker that owned it never comes back.
StuckJobsAreResolved ==
    SomeWorkerStaysUp /\ UsersRelent =>
        \A j \in Job : (status[j] \in Active /\ RunnersOf(j) = {}) ~>
                          ~ (status[j] \in Active /\ RunnersOf(j) = {})

\* A flagged job of a live worker is stopped even if its encode has stalled
\* and reports nothing: the control loop kills ffmpeg, twice when the first
\* kill only makes Transcode fall back to software decoding.
CancelTakesEffect ==
    WorkersStayUp =>
        \A r \in Runner : (phase[r] \in Encoding /\ runs[r] \in cancelReq) ~>
                             phase[r] \notin Encoding

\* Every encode ends one way or the other.
EncodesEnd == \A r \in Runner : []<>(phase[r] \notin Encoding)

\* A job that waits or runs reaches a terminal status.  Where a reclaim failed
\* this takes stale marking, which is why users must relent here too.
JobsSettle ==
    WorkersStayUp /\ EncodesEnd /\ UsersRelent =>
        \A j \in Job : status[j] \in Pending \cup Active ~>
                          status[j] \in Terminal \cup {"deleted"}
=============================================================================
