# Codecsmith: a TLA+ model of the queue, the workers and the rules

Codecsmith watches video libraries, queues the files that a profile wants in
another codec, encodes them with ffmpeg on one or more workers, and replaces each
original by its smaller encode. This directory holds a model of the parts where
that can go wrong in ways a test hardly reaches: many loops and HTTP handlers that
write to one jobs table, workers that die, files that are renamed in several
steps, and rules that meet the program's own results again.

To repeat the checks, in this directory:

    tlc -workers 2 -config <run>.cfg <MC module>     # runs: see below
    tlapm <...Proofs>.tla                            # proofs

## The system

| part | source | state | operations | talks to |
|---|---|---|---|---|
| jobs table | `internal/db/db.go`, `internal/job/job.go` | rows: status, worker_id, cancel_requested, updated_at, priority; `system_state` keys | insert, claim, update, stale, reclaim, requeue, cancel, delete, fail | everybody, by SQL statements and NOTIFY |
| worker loops | `internal/worker/worker.go` | wake and scan channels, pause flag, running goroutines | dispatch, scan, control, listen, metrics, maintenance, encoder health | table, transcoder, scanner |
| processJob / Transcode | `worker.go`, `internal/transcoder/ffmpeg.go` | map of running ffmpeg processes, temp file | encode, fall back to software, cancel, guards, install, record | table, ffmpeg, file system |
| file replacement | `ffmpeg.go` | source, `.backup`, temp, trash | rename, copy, restore, retire, prune | file system |
| scanner | `internal/scanner/scanner.go` | probe cache, snapshot of known paths | walk, filter, probe, queue | table, ffprobe |
| configuration | `internal/config/config.go` | profiles and libraries, fixed after Load | layer, validate, look up | scanner, Transcode, web |
| stream selection | `internal/transcoder/streams.go`, `probe.go` | none | select audio and subtitles, convert | Transcode |
| web API | `internal/web/web.go` | none of its own | add, retry, bulk requeue, cancel, delete, pause, resume, scan, Arr webhook | table, the worker's nudge |
| encoder back ends, health check | `internal/encoder/encoder.go`, `worker.go` | the back end chosen at start, time of the last progress | choose, probe, exit | ffmpeg, supervisor |
| progress, integrations, migrations, shell | `progress.go`, `internal/integrations`, `internal/db/migrations`, `cmd` | external services | parse, call | worker |

What is hard about each, and what makes it correct:

- **Jobs table and jobs.** Most statements write a row by id, whoever owns it by
  now: the dispatcher counts and then claims; maintenance and bulk requests act on
  rows they read earlier; a job found stale is failed while its ffmpeg goes on; a cancel races
  a claim. A claim must be exclusive; a goroutine and its row must not come apart;
  a file must not be worked on twice at once; a finished row must stay
  finished; stuck, cancelled and interrupted jobs must come to an end.
- **Waking up.** One token in a channel, a poll, and notifications that can be
  lost: a worker must not sleep beside work, and must obey a pause that it learns
  of by polling.
- **Replacement.** The process can die between any two renames, a move can turn into a
  copy, a copy can fail halfway or in its last step: a complete movie must exist
  throughout, and only a whole, smaller one may replace it. What tells a whole output
  from a cut one is a comparison of two durations, and ffprobe may not know them.
- **Scanning.** A scan lasts long and works on copies: the known paths it read at
  its start, directory entries, a cache of probe results. Requests for a scan are
  a time stamp that is polled into a channel of one. The cache must not lie about a
  file that was replaced, no request may be lost, and what a library wants must be
  queued in the end.
- **Encoder.** The health check ends the process, with every encode in it, when its
  probes fail, and a probe needs an encode session like everybody else: it must
  notice a broken driver, but not kill healthy encodes on a full device.
- **Rules.** Scanner and transcoder each have their own version of the rules;
  an output that changes its extension is a new file to the scanner; libraries
  can be nested and disagree; tracks are chosen by tags that may be missing. The
  versions must agree, the program must leave its own work alone, and no wanted
  track may be lost.

The file `PROJECT.json` lists the hazards of the code line by line with the
properties that watch them.

## Modules

| module | models | abstracts |
|---|---|---|
| `JobTable` | the SQL statements on the jobs table, each one atomic operator | columns no behaviour depends on; `updated_at` is "older than stale_after or not" |
| `JobQueue` | worker processes, dispatch, `processJob`, Transcode's control flow, control/metrics/maintenance loops and HTTP handlers over `JobTable` | the encode is a few phases, its result nondeterministic |
| `WorkQueue` | what the queue promises: a row waits, is held by one agent that alone can settle it, or is settled; `JobQueue` is shown to implement it | workers, statuses, statements |
| `JobQueueProofs`, `JobOutcomeProofs`, `QueueCapProofs` | theorems about `JobQueue` | |
| `Replacement` | what a replacement promises: a complete movie, replaced by smaller complete ones | |
| `FileSwap` | Transcode's file operations, the trash, crashes, shown to implement `Replacement` | a file is its size, wholeness, shown duration and age |
| `FileSwapProofs` | theorems about `FileSwap` | |
| `Dispatcher` | wake channel, poll, everybody who rings, LISTEN/NOTIFY, pause and resume | rows are counted, not named |
| `DispatcherProofs` | theorems about `Dispatcher` | |
| `Profiles` | profiles as Load layers them, library lookup, `NeedsWork`, `skipReason` | settings that change only looks and sound |
| `Streams` | probes, `SelectAudio`, `SelectSubtitles`, the command line's output | stream indexes are positions, a title is the set of languages it names |
| `Scanner` | the scan loop with its walk and its cache, scan requests, failures and restarts, while files and rows change | a size and modification time are a stamp; the codecs a library wants are a constant |
| `ScannerProofs` | theorems about `Scanner` | |
| `Encoders` | the table of back ends: encoders, what is supported, what a probe tests | flags, presets, bit rates |
| `EncoderHealth` | the choice of a back end, encodes with their progress, the health loop, exit and restart, over `Encoders` | a job is its encode; a device is a number of sessions, a driver that breaks, and the encoders it can run |
| `EncoderHealthProofs` | theorems about `EncoderHealth` | |
| `Conversion` | one movie through scans, jobs, shutdowns, users and imports, over `Profiles` and `Streams` | a job is one at a time; the swap is one step |
| `ConversionProofs` | theorems about `Conversion` | |
| `MCQueue`, `MCSwap`, `MCDispatch`, `MCConversion`, `MCScanner`, `MCHealth` | instances for TLC | |

An action is one database statement, one file operation, or one local step of a goroutine.
Where the code reads and later writes, the two are separate
actions with what was read kept in a variable in between (`eligible` for the
dispatcher's count, `maint` for maintenance, `requeueing` and `cancelling` for the
handlers, `control` for the pause flag, `seen` and `input` for Transcode). `lease`,
`missed`, `kept` and `judged` are history variables that no guard reads, and so are `begun`, `served`
and `dropped` in `Scanner`. Definitions whose
comment begins with "Slip" are wrong versions of the definition that follows
them, used to see that the properties notice; no action uses them.

`JobQueue` takes the environment as a parameter: `Env` names the events it may
produce, so that one run can allow everything while another asks
what holds when nobody requeues an active job, encodes keep reporting and
maintenance does not run (`Disciplined`). A reclaim that fails at the start of a worker
(`Run` starts its loops all the same) is the event `reclaim_fails`. `SkipLocked` says
whether a claim may pass over rows that another transaction has locked, as PostgreSQL's
`FOR UPDATE SKIP LOCKED` does, or takes the first row, as SQLite's does.

A swap in `JobQueue` lasts until the `.backup` is deleted or moved to the trash
(`SwapInstalls`, then `RetireOriginal`), which is what two overlapping runs of one file disturb.
`JobQueue` has no files, and says when runs of a file can overlap
(`ClaimedFilesAreExclusive`); `FileSwap` has the files, and says what an overlap does to
them (`BackupLost`).

In `FileSwap` a file shows its full duration, a short one, or none: a header may
have none, a half-made copy may have lost it, and `ProbeDuration` answers 0 for any error, its timeout
and a cancelled context. The truncation guard is then left out (`Unjudged`). The history variable
`judged` remembers whether that ever happened. As long as it is true the movie
is proved safe; the step that makes it false is `Replacement`'s `TakeUnjudged`, from which
on nothing is promised but that no larger movie appears: the program can then install a
cut output and delete the original, which is a finding.

## Runs

| run | module | instance | shows |
|---|---|---|---|
| `QueueChaos` | `MCQueue` | 2 rows for one file, interchangeable (symmetry), 2 workers with a goroutine each, all events but "retry" (which "retry_active" includes), "cancel" and "vanish"; 719k states | types; a claim that nothing revoked is exclusive; two runs of one file need a revoked claim |
| `QueueDisciplined` | `MCQueue` | 2 rows for one file (delete and add again), 2 workers; 18k states | no zombie goroutines, no orphaned rows, one run per file, terminal rows stay, and all of it implements `WorkQueue` |
| `QueueCaps` | `MCQueue` | 4 rows, 2 libraries (one capped at 1), 2 workers with 2 goroutines each, 2 slots, adding and retrying; 1.1M states | two workers exceed a limit by one at most, in claims, rows and processes, and neither by its own rows |
| `QueueLive` | `MCQueue` | 1 row, 2 workers with a goroutine each, with fairness, reclaims may fail; 3.5k states | stuck rows, also those of a worker that died for good, are resolved, cancels take effect, jobs settle |
| `SwapSolo` | `MCSwap` | sizes up to 3, every set-up of file systems, trash, container, dry run, durations known and unknown | backup held, result sound, implements `Replacement`, copied originals stay in the trash |
| `Dispatch` | `MCDispatch` | 1 slot, 2 rows, 2 rings, 2 faults, both wirings; 140k states, with fairness | no lost wake-up, work is taken, a pause takes effect |
| `Convert` | `MCConversion` | 4 configurations, some 80 movies; 39k states, with fairness | the eight properties of the rules |
| `Scan` | `MCScanner` | 1 path, 3 libraries over it (two enabled, with different wants), 2 codecs, a cache of one entry, 2 writes, 2 requests, 1 fault; 207k states, with fairness | the cache is true, only wanted files get rows, no request is lost, requested scans run, wanted files are queued |
| `Health` | `MCHealth` | 4 configurations, 3 jobs, 2 slots, 2 sessions; 15k states, with fairness | probes stay away from reporting encodes; a stale driver is noticed; a dead device is left; jobs get through on a full one |
| `TerminalOverwritten` | `MCQueue` | expected violation | maintenance fails a completed row |
| `BackupLost` | `MCSwap` | expected violation | overlapping runs lose the backup |
| `TrashPruned` | `MCSwap` | expected violation | an old original is pruned as soon as it is in the trash |

The expected violations are disagreements of the code with its own
documentation; `PROJECT.json` quotes the lines under "findings", with a few more that
need no run.

Why the bounds are enough. Races here are between two parties over one row or one
file, and each party's bad step is possible with one goroutine per worker: two workers, one file
and (to have it deleted and added again) two rows reach them. The rows of `QueueChaos`
differ in nothing but their names, so that exchanging them is a symmetry; cancels, which touch
a claim only as `Kill` does, are left to `QueueDisciplined` and `QueueLive`, and the theorems about the
properties of `QueueChaos` include them. `QueueCaps` leaves out stalls and maintenance: with them the
limits on rows and processes do not hold, and the one on standing claims is proved with them.
Limits need one library over its cap beside one with room, and workers with more
goroutines together than slots. In `Scan` one path is enough, since a scan keeps nothing
about one path that another's depends on, except the size of the cache, which is one entry; two writes put a
new release in place of an old one during a probe, and two requests are one under
way and one during the scan it caused. In `Health` the two sessions are
what two encodes need, so that a probe of a busy worker must fail; the four configurations are a
device that works under `auto` beside a profile for a codec that it cannot encode, one whose probe tells nothing of the configured
codec, one whose probe cannot pass, and one without a health check. A file of size 3 can be replaced twice by something smaller. In
`Dispatch`, the channel holds one token, so that two rings at once show
everything a third would; `MaxFaults` makes failures finite, which liveness needs,
and two of them allow a fault during the recovery from another. In `Convert`, two
libraries that redo each other's work with different containers, and three extensions,
let an output come back at a known and at an unknown path. The bounds are
`MaxSize`, `MaxJobs`, `MaxRings`, `MaxFaults`, `MaxWrites`, `MaxRequests` and the sets of the MC modules; everything
else is finite by itself. Deadlock is
checked except in `SwapSolo`, `Convert` and the violations of their modules, where
a job that is done leaves nothing to do.

## Fairness

Stated with each specification. The loops of a live worker run on tickers and
polls, and goroutines take their local steps: weak fairness for dispatching, stale
checks, kills, updates, the poll and the control loop. *Nothing* makes ffmpeg
finish or report, a user act, a scan start, a crash stop or a dead worker come back:
where a property needs one of these it says so (`WorkersStayUp`, `SomeWorkerStaysUp`,
`UsersRelent`, `EncodesEnd`, the premise of `ScansSettle`). `UsersRelent` is needed by
`StuckJobsAreResolved` and `JobsSettle`
because every cancel request refreshes `updated_at`: pressed for ever, it
keeps the row of a dead worker from being called stuck.
Rings need no fairness: `WorkIsTaken` holds by the poll alone.

In `Scanner` the scan loop, the control loop and the supervisor that restarts the process
are fair, requests and the world are not. In `EncoderHealth` fairness is given to the
restart (`restart: unless-stopped` in `docker-compose.yml`), to jobs that are taken up, report and
end (a stalled one is ended by the stale check or a user), and to the health loop.
Its liveness properties hold once no more jobs arrive (`NoMoreJobs`): a job that
fails may still print a last progress block, and a stream of such jobs puts the probes off
for ever. `JobsGetThrough` also assumes `TimerIsSlow`: the 90 seconds of the timer
are longer than it takes a job to be dispatched and to report for the first time.

## Proofs

Proved with TLAPS for every value of the constants, under the named assumptions
beside them (which TLC evaluates on each run):

- **`TypeCorrect`, `ClaimsAreExclusive`** (`JobQueue`, any environment). The claim's
  invariant needs every statement that can take a row away from its owner; each
  removes the lease of the runners on that row, so what remains is exclusive.
- **`StandingClaimsExcludeRuns`** (`JobQueue`, any environment, with copies and any
  crash): two runs of one file overlap only after the claim of one was revoked.
  A file has one row (`FilesHaveOneRow`), and a row one standing claim.
- **`NoZombieRunners`, `NoOrphanRows`, `RunsExcludeEachOther`,
  `TerminalRowsStay`** (`JobQueue`, assuming `Disciplined`; `NoOrphanRows` also that no reclaim
  fails, since that leaves an orphan to the stale check). The strengthening
  says that a working goroutine always holds its lease, that an
  active row of a worker that is up has a runner, and that a file has one live row
  (`OneRowPerFile`, itself the theorem `FilesHaveOneRow`), so that two
  runs for a file would be two leases on a row. `RunsExcludeEachOther` covers a run from its
  claim to its last update, and so is the premise on which `FileSwap`'s theorems
  leave overlapping runs out: in a disciplined environment there are none.
- **`QueueIsAWorkQueue`** (`JobQueue`, assuming `Disciplined`). A refinement: the
  statuses map to what they mean, the holder of a row is the runner that works on it.
  Each statement is one step of `WorkQueue` or none; that a goroutine alone settles
  its row is the same strengthening as above.
- **`ClaimsObeyTheLimits`** (`JobQueue`, any environment). The
  invariant counts the claims that are still possible: the standing claims and the
  workers that have counted a free slot are together at most the limit plus W - 1,
  because each worker has one dispatcher and a standing claim is an active row, which every count sees.
- **`RowsObeyTheLimits`, `EncodesObeyTheLimit`, `OwnRowsObeyTheLimits`** (`JobQueue`, assuming
  `Disciplined`). The same for the active rows and for the ffmpeg processes. This needs the discipline:
  a goroutine whose row was requeued or failed may make it active again uncounted,
  and a stalled encode whose row was failed runs on beside its successor.
  `OwnRowsObeyTheLimits` adds that no worker
  exceeds a limit by its own rows: while it is about to claim, nobody else can
  make a row that it owns active, so that its own count is still an upper bound.
- **`BackupIsHeld`, `InstallsAreSound`, `SwapRefinesReplacement`** (`FileSwap`, assuming
  that runs do not overlap). `SwapInv` says for each stage of the running job which paths hold what: the
  source is what was measured until the rename, then at `.backup`, and the output is
  smaller from `Accept` on. That files are whole is part of it only while `judged`
  holds: a partial copy that a crash leaves shows its full duration or none, so that its
  encodes are either rejected or taken unjudged. The refinement maps each step to
  `Replace`, `TakeUnjudged` or a stutter.
- **`CopiedTrashStays`** (`FileSwap`, any overlap). The pruning of an original before its
  time, which `TrashPruned` shows, needs a rename into the trash: a copy is dated by
  its arrival.
- **`DispatchTypeCorrect`, `NeverSleepsThroughWork`** (`Dispatcher`). A pending row beside a
  free slot is always matched by a token, a ring on its way, a loop that will look
  again, or a recorded exception.
- **`CacheIsAlwaysTrue`, `RequestsAreNeverLost`, `ScansAddOnlyWanted`** (`Scanner`). The first needs that stamps are
  given out once: an entry whose stamp is not its file's will never match again.
  It rests on an assumption of the model, that each write gives a file a new pair of size and
  modification time. The second follows a request from the time stamp through the
  channel to the scan. The third needs the first, and that the walk stays in the
  enabled library it entered (`WalkInv`): what is judged by an old codec is a file
  that was replaced after its entry was read.
- **`HealthTypeCorrect`, `RoundsWaitForSilence`** (`EncoderHealth`). An encode that reports
  has made the last progress recent, and nothing encodes in a process that is down.
- **`ScannerAndTranscoderAgree`, `OutputsAreLeft`, `EncodesAreNotRepeated`, `DolbyVisionIsNotFaked`**
  (`Conversion`). The first is about both rules on any file; it needs that both probes name the
  same stream when the first one has a name. The others rest on `Produced` (what an
  output is) and `Judged` (an encode under way was accepted, for the file it
  replaces).
- **`SubtitlesAlwaysFit`, `WantedAudioAlwaysSurvives`** (`Conversion`). Both are about the tracks
  of an output, which `At` lists in the order of their positions. That such a list exists
  is shown without a rule of induction: of the finite sets that cannot be listed, if there were any,
  one would have the fewest elements (`LeastNatural`, from the well-founded order of the
  naturals), and a list of it without its least element can be extended
  (`ExtendEnumeration`). The rest is what `SelectAudio` keeps (`SelectionHears`): by tags, else by titles, else
  everything, and everything when it is applied to its own result (`Selected`, part of the
  invariant). The theorem does not say that every wanted track survives: of a
  file with some wanted tag, tracks that only a title identifies are dropped, and of one with
  wanted titles only, those that nothing identifies. The README and a comment of the code promise
  otherwise; both are findings. Finally, an output's text tracks are in the one codec of its container.
- **`WorkAlwaysRunsOut`** (`Conversion`). Three steps for each path without a row and those left of the job
  at hand bound what scans and jobs can still do, and each of their steps lowers the
  bound. This is the part of `ScansSettle` that does not need fairness: no two libraries hand a movie
  to and fro for ever. It holds because `knownPaths` keeps every row, of whatever status.
- **`LibraryIsDetermined`, `ProfilesAreComplete`** (`Profiles`, in `ConversionProofs`). The longest
  match of a path is one library, the first of those for one directory; and whatever profiles
  are given to Load, a layer changes settings but never takes one back to zero. The
  latter is why `size_limit_gb: 0` cannot mean "never", as the example configuration says.

Only model-checked: everything with fairness (`StuckJobsAreResolved`,
`CancelTakesEffect`, `JobsSettle`, `WorkIsTaken`, `PauseTakesEffect`, `RequestedScanRuns`,
`WantedFilesAreQueued`, `StaleDriverIsNoticed`, `DeadDeviceIsLeft`, `JobsGetThrough`, `ScansSettle`),
which needs `ENABLED` and is beyond the prover. Every invariant and every action property that
a passing run checks is also a theorem.

## What is not modelled

- The arguments of the back ends (presets, quality scales, bit rates) and how ffmpeg's lists and
  progress lines are parsed: data, on which no decision of the program depends.
- Plex, SABnzbd, GPU metrics, logging, privileges, the web page, read-only handlers: input and
  output without state that another part reads back.
- Migrations: each runs once, in a transaction that also inserts its version; of
  two processes that start at once, one fails on the primary key and is started again.
- Reading YAML and environment variables; settings that do not influence a decision.
- Failing database writes in `processJob`, other than at shutdown; loops that panic.
- In `Conversion`, a release that is imported while its predecessor is being encoded.
- A source that another program changes while it is encoded; a second movie at the
  path an output takes after a container change.

After a crash between the rename to `.backup` and the end of the move, nothing in the program
renames the backup back; `ReplacesAtomically` counts that copy as the movie.

In `EncoderHealth` ffmpeg dies with the worker, as it does in a container; a worker run
by hand may leave its encodes behind when the health check exits. That a probe of QSV
or VAAPI has no device (`ProbeHasDevice`) is taken from ffmpeg's `hwupload` filter,
which refuses to work without one.

## Plan

Done, in this order: `JobTable` and `JobQueue` with their proofs, `Replacement` and
`FileSwap`, `Dispatcher`, `Profiles`, `Streams` and `Conversion`, `Scanner`, `WorkQueue` with
the refinement, the limits for any number of workers, the shutdown during a swap
in `Conversion`, `Encoders` and `EncoderHealth`, a theorem for every safety property
that a run checks. What could follow:

1. A second movie in `FileSwap`, at the path that an output takes after a container change.
2. The dispatcher of `JobQueue` composed with the wake-ups of `Dispatcher`.
