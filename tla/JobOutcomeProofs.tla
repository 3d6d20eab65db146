--------------------------- MODULE JobOutcomeProofs --------------------------
(* What a job does to its file and to its row in the end: theorems about     *)
(* rows and runs for one file, about terminal rows, and about the abstract   *)
(* queue.                                                                    *)
EXTENDS JobQueueProofs

USE DEF vars, tableVars, workerVars, webVars,
        Active, Pending, Terminal, Requeueable, RowStatus,
        Encoding, Swapping, Outcome, Phase

-----------------------------------------------------------------------------
(* Rows.                                                                     *)

\* file_path is UNIQUE: a file has one row, in any environment.
OneRowPerFile ==
    \A j, k \in Job : InTable(j) /\ InTable(k) /\ FileOf[j] = FileOf[k] => j = k

\* A step that inserts no row.
LEMMA RowFrame ==
    ASSUME OneRowPerFile, \A j \in Job : InTable(j)' => InTable(j)
    PROVE  OneRowPerFile'
BY DEF OneRowPerFile, InTable

\* Only AddJob inserts, and it looks for a row of the same path first.
LEMMA RowStep ==
    ASSUME TypeOK, OneRowPerFile, [Next]_vars
    PROVE  OneRowPerFile'
<1> USE DEF TypeOK, TableTypeOK
<1>1. ASSUME NEW j \in Job, AddJob(j)
      PROVE  OneRowPerFile'
  BY <1>1 DEF AddJob, InsertRow, OneRowPerFile, InTable
<1>2. ASSUME NEW r \in Runner, RunnerStep(r)
      PROVE  OneRowPerFile'
  <2>1. \A j \in Job : InTable(j)' => InTable(j)
    BY <1>2 DEF RunnerStep, Start, Progress, CancelSeen, FfmpegFails, FfmpegSucceeds,
       SwapCopies, SwapInstalls, RetireOriginal, Finish, Interrupt, Kill, SetStatus, TouchRow, InTable
  <2> QED
    BY <2>1, RowFrame
<1>3. ASSUME NEW w \in Worker, WorkerStep(w)
      PROVE  OneRowPerFile'
  <2>1. \A j \in Job : InTable(j)' => InTable(j)
    BY <1>3 DEF WorkerStep, Count, ClaimNothing, Claim, ClaimRow, Claimable, MarkStale,
       MarkStaleRows, StaleRows, Crash, Restart, ReclaimRows, OwnedActive, Stop, Exit, InTable
  <2> QED
    BY <2>1, RowFrame
<1>4. ASSUME NEW j \in Job, JobStep(j), ~ AddJob(j)
      PROVE  OneRowPerFile'
  <2>1. \A k \in Job : InTable(k)' => InTable(k)
    BY <1>4 DEF JobStep, Retry, EnqueueKnown, RequeueRead, Requeue, RequeueRow,
       CancelPending, CancelPendingRow, CancelMisses, CancelFlags, FlagActiveRow,
       CancelRefused, Delete, DeleteRow, Age, MaintStat, MaintFail, SetStatus, InTable
  <2> QED
    BY <2>1, RowFrame
<1>5. CASE \/ \E st \in {"failed", "skipped"} : BulkSelect(st)
           \/ \E f \in File : Vanish(f)
           \/ MaintList
           \/ UNCHANGED vars
  <2>1. status' = status
    BY <1>5 DEF BulkSelect, Vanish, MaintList
  <2> QED
    BY <2>1, RowFrame DEF InTable
<1> QED
  BY <1>1, <1>2, <1>3, <1>4, <1>5 DEF Next

\* One row per file, whatever is added, deleted and added again.
THEOREM FilesHaveOneRow == Spec => []OneRowPerFile
<1>1. Init => OneRowPerFile
  BY DEF Init, TableInit, OneRowPerFile, InTable
<1>2. TypeOK /\ OneRowPerFile /\ [Next]_vars => OneRowPerFile'
  BY RowStep
<1> QED
  BY <1>1, <1>2, TypeCorrect, PTL DEF Spec

\* In any environment, two runs for one file overlap only if the claim of one
\* was revoked: one row per file, and one standing claim per row.
THEOREM StandingClaimsExcludeRuns == Spec => []ClaimedFilesAreExclusive
<1>1. ClaimIntegrity /\ OneRowPerFile => ClaimedFilesAreExclusive
  <2> SUFFICES ASSUME ClaimIntegrity, OneRowPerFile,
                      NEW r \in lease, NEW q \in lease,
                      FileOf[runs[r]] = FileOf[runs[q]]
               PROVE  r = q
    BY DEF ClaimedFilesAreExclusive
  <2>1. /\ runs[r] \in Job /\ InTable(runs[r])
        /\ runs[q] \in Job /\ InTable(runs[q])
    BY DEF ClaimIntegrity, InTable
  <2>2. runs[r] = runs[q]
    BY <2>1 DEF OneRowPerFile
  <2> QED
    BY <2>2 DEF ClaimIntegrity
<1> QED
  BY <1>1, ClaimsAreExclusive, FilesHaveOneRow, PTL

\* With no interference with active rows, a file is never worked on twice at
\* once: one row per file, and one goroutine per active row.
THEOREM RunsExcludeEachOther ==
    ASSUME Disciplined PROVE Spec => []OneRunPerFile
<1>1. DisciplinedInv /\ OneRowPerFile => OneRunPerFile
  <2> SUFFICES ASSUME DisciplinedInv, OneRowPerFile,
                      NEW r \in Runner, NEW q \in Runner,
                      Working(r), Working(q),
                      FileOf[runs[r]] = FileOf[runs[q]]
               PROVE  r = q
    BY DEF OneRunPerFile
  <2>1. /\ runs[r] \in Job /\ InTable(runs[r])
        /\ runs[q] \in Job /\ InTable(runs[q])
    BY OwnedRow DEF InTable, Working
  <2>2. runs[r] = runs[q]
    BY <2>1 DEF OneRowPerFile
  <2>3. RunnersOf(runs[r]) = {r} /\ RunnersOf(runs[q]) = {q}
    BY OwnedRow DEF Working
  <2> QED
    BY <2>2, <2>3
<1> QED
  BY <1>1, DisciplinedInvHolds, FilesHaveOneRow, PTL

-----------------------------------------------------------------------------
(* Terminal rows.                                                            *)

\* The action of TerminalIsFinal.
RespectsTerminal ==
    \A j \in Job : status[j] \in Terminal => status'[j] \in {status[j], "queued", "deleted"}

\* A goroutine writes its own row only, which is active until it has done so.
LEMMA RunnerStepRespectsTerminal ==
    ASSUME DisciplinedInv, NEW r \in Runner, RunnerStep(r)
    PROVE  RespectsTerminal
<1>1. phase[r] # "none"
  BY DEF RunnerStep, Start, Progress, CancelSeen, FfmpegFails, FfmpegSucceeds,
     SwapCopies, SwapInstalls, RetireOriginal, Finish, Interrupt, Kill, KillDue
<1>2. runs[r] \in Job /\ status[runs[r]] \in Active
  BY <1>1, OwnedRow
<1>3. status' = status \/ \E st \in Phase \cup RowStatus : SetStatus(runs[r], st)
  BY DEF RunnerStep, Start, Progress, CancelSeen, FfmpegFails, FfmpegSucceeds,
     SwapCopies, SwapInstalls, RetireOriginal, Finish, Interrupt, Kill, TouchRow
<1> QED
  BY <1>2, <1>3 DEF DisciplinedInv, TypeOK, TableTypeOK, SetStatus, RespectsTerminal

\* In a disciplined environment a terminal status changes by user action only:
\* no goroutine, reclaim or stale marking overwrites it.
THEOREM TerminalRowsStay ==
    ASSUME Disciplined PROVE Spec => TerminalIsFinal
<1>1. DisciplinedInv /\ [Next]_vars => [RespectsTerminal]_vars
  <2> SUFFICES ASSUME DisciplinedInv, Next
               PROVE  RespectsTerminal
    BY DEF RespectsTerminal
  <2> USE DEF DisciplinedInv, Discipline, TypeOK, TableTypeOK, RespectsTerminal
  <2>1. ASSUME NEW w \in Worker, WorkerStep(w)
        PROVE  RespectsTerminal
    BY <2>1 DEF WorkerStep, Count, ClaimNothing, Claim, ClaimRow, Claimable, MarkStale,
       MarkStaleRows, StaleRows, Crash, Restart, ReclaimRows, OwnedActive, Stop, Exit
  <2>2. ASSUME NEW j \in Job, JobStep(j)
        PROVE  RespectsTerminal
    BY <2>2 DEF JobStep, AddJob, InsertRow, Retry, EnqueueKnown, RequeueRead, Requeue,
       RequeueRow, CancelPending, CancelPendingRow, CancelMisses, CancelFlags,
       FlagActiveRow, CancelRefused, Delete, DeleteRow, Age, MaintStat, MaintFail
  <2>3. ASSUME NEW st \in {"failed", "skipped"}, BulkSelect(st)
        PROVE  RespectsTerminal
    BY <2>3 DEF BulkSelect
  <2>4. ASSUME NEW f \in File, Vanish(f)
        PROVE  RespectsTerminal
    BY <2>4 DEF Vanish
  <2>5. CASE MaintList
    BY <2>5 DEF MaintList
  <2> QED
    BY <2>1, <2>2, <2>3, <2>4, <2>5, RunnerStepRespectsTerminal DEF Next
<1> QED
  BY <1>1, DisciplinedInvHolds, PTL DEF Spec, TerminalIsFinal, RespectsTerminal

-----------------------------------------------------------------------------
(* The abstract queue.  Its holder of a row is the only runner of the row.   *)

\* HolderOf as a function of `runs`, so that facts about it hold of runs', too.
HolderIn(f, j) ==
    IF {r \in Runner : f[r] = j} # {} THEN CHOOSE r \in Runner : f[r] = j ELSE NoJob

LEMMA NoHolder ==
    ASSUME NEW f, NEW j, \A r \in Runner : f[r] # j
    PROVE  HolderIn(f, j) = NoJob
BY DEF HolderIn

LEMMA OnlyHolder ==
    ASSUME NEW f, NEW j, NEW r \in Runner, f[r] = j, \A q \in Runner : f[q] = j => q = r
    PROVE  HolderIn(f, j) = r
BY DEF HolderIn

\* Two functions that give j the same runners give it the same holder.
LEMMA SameHolder ==
    ASSUME NEW f, NEW g, NEW j, \A r \in Runner : f[r] = j <=> g[r] = j,
           \A q, r \in Runner : f[q] = j /\ f[r] = j => q = r
    PROVE  HolderIn(f, j) = HolderIn(g, j)
<1>1. CASE \A r \in Runner : f[r] # j
  BY <1>1, NoHolder
<1>2. CASE \E r \in Runner : f[r] = j
  <2>1. PICK r \in Runner : f[r] = j
    BY <1>2
  <2> QED
    BY <2>1, OnlyHolder
<1> QED
  BY <1>1, <1>2

\* Where a holder comes from.
LEMMA HolderRuns ==
    ASSUME NEW f, NEW j, NEW r \in Runner, HolderIn(f, j) = r
    PROVE  f[r] = j
<1>1. PICK q \in Runner : f[q] = j
  BY NoHolder, QueueAssumption
<1> QED
  BY <1>1 DEF HolderIn

\* No row has two runners.
OneToOne(f) == \A q, r \in Runner : \A j \in Job : f[q] = j /\ f[r] = j => q = r

\* A runner without a row gets one, or a runner leaves its row.
LEMMA TakenHolders ==
    ASSUME NEW f, OneToOne(f), NEW r \in Runner, NEW j \in Job,
           NEW g, \A q \in Runner : g[q] = IF q = r THEN j ELSE f[q], f[r] = NoJob, \A q \in Runner : f[q] # j
    PROVE  /\ HolderIn(g, j) = r
           /\ \A k \in Job : k # j => HolderIn(g, k) = HolderIn(f, k)
<1>1. g[r] = j /\ \A q \in Runner : g[q] = j => q = r
  OBVIOUS
<1>2. ASSUME NEW k \in Job, k # j
      PROVE  HolderIn(g, k) = HolderIn(f, k)
  <2>1. \A q \in Runner : f[q] = k <=> g[q] = k
    BY <1>2, QueueAssumption
  <2>2. \A q, p \in Runner : f[q] = k /\ f[p] = k => q = p
    BY DEF OneToOne
  <2>3. HolderIn(f, k) = HolderIn(g, k)
    BY <2>1, <2>2, SameHolder
  <2> QED
    BY <2>3
<1>3. HolderIn(g, j) = r
  BY <1>1, OnlyHolder
<1> QED
  BY <1>2, <1>3

LEMMA ReleasedHolders ==
    ASSUME NEW f, OneToOne(f), NEW r \in Runner, NEW j \in Job,
           NEW g, \A q \in Runner : g[q] = IF q = r THEN NoJob ELSE f[q], f[r] = j
    PROVE  /\ HolderIn(f, j) = r
           /\ HolderIn(g, j) = NoJob
           /\ \A k \in Job : k # j => HolderIn(g, k) = HolderIn(f, k)
<1>1. \A q \in Runner : g[q] # j
  BY QueueAssumption DEF OneToOne
<1>2. \A q \in Runner : f[q] = j => q = r
  BY DEF OneToOne
<1>3. ASSUME NEW k \in Job, k # j
      PROVE  HolderIn(g, k) = HolderIn(f, k)
  <2>1. \A q \in Runner : f[q] = k <=> g[q] = k
    BY <1>3, QueueAssumption
  <2>2. \A q, p \in Runner : f[q] = k /\ f[p] = k => q = p
    BY DEF OneToOne
  <2>3. HolderIn(f, k) = HolderIn(g, k)
    BY <2>1, <2>2, SameHolder
  <2> QED
    BY <2>3
<1>4. HolderIn(f, j) = r
  BY <1>2, OnlyHolder
<1>5. HolderIn(g, j) = NoJob
  BY <1>1, NoHolder
<1> QED
  BY <1>3, <1>4, <1>5

\* Some runners lose their rows.
LEMMA LostHolders ==
    ASSUME NEW f, OneToOne(f), NEW lost \in SUBSET Runner, NEW k \in Job,
           NEW g, \A r \in Runner : g[r] = IF r \in lost THEN NoJob ELSE f[r]
    PROVE  HolderIn(g, k) = IF HolderIn(f, k) \in lost THEN NoJob ELSE HolderIn(f, k)
<1>1. CASE \A r \in Runner : f[r] # k
  <2>1. \A r \in Runner : g[r] # k
    BY <1>1, QueueAssumption
  <2> QED
    BY <1>1, <2>1, NoHolder, QueueAssumption
<1>2. ASSUME NEW r \in Runner, f[r] = k
      PROVE  HolderIn(g, k) = IF HolderIn(f, k) \in lost THEN NoJob ELSE HolderIn(f, k)
  <2>1. \A q \in Runner : f[q] = k => q = r
    BY <1>2 DEF OneToOne
  <2>2. HolderIn(f, k) = r
    BY <1>2, <2>1, OnlyHolder
  <2>3. CASE r \in lost
    <3>1. \A q \in Runner : g[q] # k
      BY <2>1, <2>3, QueueAssumption
    <3> QED
      BY <2>2, <2>3, <3>1, NoHolder
  <2>4. CASE r \notin lost
    <3>1. g[r] = k /\ \A q \in Runner : g[q] = k => q = r
      BY <1>2, <2>1, <2>4, QueueAssumption
    <3>2. HolderIn(g, k) = r
      BY <3>1, OnlyHolder
    <3> QED
      BY <2>2, <2>4, <3>2
  <2> QED
    BY <2>3, <2>4
<1> QED
  BY <1>1, <1>2

\* The holder of a row before and after a step.
LEMMA HolderIs ==
    ASSUME NEW j \in Job
    PROVE  HolderOf(j) = HolderIn(runs, j) /\ HolderOf(j)' = HolderIn(runs', j)
BY DEF HolderIn, HolderOf, RunnersOf

\* A step of the abstract queue, or none.
AbsStep == [Queue!Next]_<<[j \in Job |-> Meaning(status[j])], [j \in Job |-> HolderOf(j)]>>

\* The five meanings, status by status.
LEMMA Meanings ==
    /\ Meaning("absent") = "out" /\ Meaning("deleted") = "gone"
    /\ \A st \in Pending : Meaning(st) = "waiting"
    /\ \A st \in Active : Meaning(st) = "held"
    /\ \A st \in Terminal : Meaning(st) = "settled"
BY DEF Meaning

\* A row has one runner at most, and only if it is active.
LEMMA Runners ==
    ASSUME DisciplinedInv
    PROVE  /\ runs \in [Runner -> Job \cup {NoJob}]
           /\ OneToOne(runs)
           /\ \A r \in Runner : runs[r] \in Job => status[runs[r]] \in Active
<1>1. ASSUME NEW r \in Runner, runs[r] \in Job
      PROVE  RunnersOf(runs[r]) = {r} /\ status[runs[r]] \in Active
  <2>1. phase[r] # "none"
    BY <1>1, QueueAssumption DEF DisciplinedInv, TypeOK
  <2> QED
    BY <2>1, OwnedRow
<1>2. OneToOne(runs)
  BY <1>1 DEF RunnersOf, OneToOne
<1> QED
  BY <1>1, <1>2 DEF DisciplinedInv, TypeOK

\* Steps that keep every meaning and every runner are invisible.
LEMMA AbsStutter ==
    ASSUME \A j \in Job : Meaning(status'[j]) = Meaning(status[j]), runs' = runs
    PROVE  AbsStep
<1>1. \A j \in Job : HolderOf(j)' = HolderOf(j)
  BY HolderIs
<1> QED
  BY <1>1 DEF AbsStep

\* A step about row j alone, which no runner has.
LEMMA AbsRowStep ==
    ASSUME NEW j \in Job, NEW st \in RowStatus, runs' = runs,
           \A k \in Job : Meaning(status'[k]) = IF k = j THEN Meaning(st) ELSE Meaning(status[k]),
           \/ /\ Meaning(status[j]) = "out" /\ Meaning(st) = "waiting"
              /\ \A k \in Job : FileOf[k] = FileOf[j] => Meaning(status[k]) \notin Queue!Present
           \/ Meaning(status[j]) = "waiting" /\ Meaning(st) = "settled"
           \/ Meaning(status[j]) = "settled" /\ Meaning(st) = "waiting"
           \/ (Meaning(status[j]) = "waiting" \/ Meaning(status[j]) = "settled") /\ Meaning(st) = "gone"
    PROVE  AbsStep
<1>1. \A k \in Job : HolderOf(k)' = HolderOf(k)
  BY HolderIs
<1>2. CASE /\ Meaning(status[j]) = "out" /\ Meaning(st) = "waiting"
           /\ \A k \in Job : FileOf[k] = FileOf[j] => Meaning(status[k]) \notin Queue!Present
  <2>1. Queue!Add(j)
    BY <1>1, <1>2 DEF Queue!Add
  <2> QED
    BY <2>1 DEF AbsStep, Queue!Next
<1>3. CASE Meaning(status[j]) = "waiting" /\ Meaning(st) = "settled"
  <2>1. Queue!Withdraw(j)
    BY <1>1, <1>3 DEF Queue!Withdraw
  <2> QED
    BY <2>1 DEF AbsStep, Queue!Next
<1>4. CASE Meaning(status[j]) = "settled" /\ Meaning(st) = "waiting"
  <2>1. Queue!Repeat(j)
    BY <1>1, <1>4 DEF Queue!Repeat
  <2> QED
    BY <2>1 DEF AbsStep, Queue!Next
<1>5. CASE (Meaning(status[j]) = "waiting" \/ Meaning(status[j]) = "settled") /\ Meaning(st) = "gone"
  <2>1. Queue!Drop(j)
    BY <1>1, <1>5 DEF Queue!Drop
  <2> QED
    BY <2>1 DEF AbsStep, Queue!Next
<1> QED
  BY <1>2, <1>3, <1>4, <1>5

\* A runner without a row gets one that waits.
LEMMA AbsTake ==
    ASSUME DisciplinedInv, NEW j \in Job, NEW r \in Runner, runs[r] = NoJob,
           Meaning(status[j]) = "waiting", \A q \in Runner : runs[q] # j,
           \A q \in Runner : runs'[q] = IF q = r THEN j ELSE runs[q],
           \A k \in Job : Meaning(status'[k]) = IF k = j THEN "held" ELSE Meaning(status[k])
    PROVE  AbsStep
<1>1. \A k \in Job : HolderOf(k) # r
  BY HolderIs, HolderRuns, QueueAssumption
<1>2. HolderIn(runs', j) = r /\ \A k \in Job : k # j => HolderIn(runs', k) = HolderIn(runs, k)
  BY Runners, TakenHolders
<1>3. \A k \in Job : HolderOf(k)' = IF k = j THEN r ELSE HolderOf(k)
  BY <1>2, HolderIs
<1>4. Queue!Take(j, r)
  BY <1>1, <1>3 DEF Queue!Take
<1> QED
  BY <1>4 DEF AbsStep, Queue!Next

\* A runner leaves its row, which waits again or is settled.
LEMMA AbsRelease ==
    ASSUME DisciplinedInv, NEW r \in Runner, NEW j \in Job, runs[r] = j,
           NEW st \in {"waiting", "settled"},
           \A q \in Runner : runs'[q] = IF q = r THEN NoJob ELSE runs[q],
           \A k \in Job : Meaning(status'[k]) = IF k = j THEN st ELSE Meaning(status[k])
    PROVE  AbsStep
<1>1. /\ HolderIn(runs, j) = r /\ HolderIn(runs', j) = NoJob
      /\ \A k \in Job : k # j => HolderIn(runs', k) = HolderIn(runs, k)
  BY Runners, ReleasedHolders
<1>2. HolderOf(j) = r /\ \A k \in Job : HolderOf(k)' = IF k = j THEN NoJob ELSE HolderOf(k)
  BY <1>1, HolderIs
<1>3. Queue!Release(j, r)
  BY <1>2 DEF Queue!Release
<1> QED
  BY <1>3 DEF AbsStep, Queue!Next

\* Some runners are gone, and no row knows it yet.
LEMMA AbsLose ==
    ASSUME DisciplinedInv, NEW lost \in SUBSET Runner, status' = status,
           \A r \in Runner : runs'[r] = IF r \in lost THEN NoJob ELSE runs[r]
    PROVE  AbsStep
<1>1. \A k \in Job : HolderIn(runs', k) =
                       IF HolderIn(runs, k) \in lost THEN NoJob ELSE HolderIn(runs, k)
  BY Runners, LostHolders
<1>2. \A k \in Job : HolderOf(k)' = IF HolderOf(k) \in lost THEN NoJob ELSE HolderOf(k)
  BY <1>1, HolderIs
<1>3. Queue!Lose(lost)
  BY <1>2 DEF Queue!Lose
<1> QED
  BY <1>3 DEF AbsStep, Queue!Next

\* Active rows without a runner are given back, or failed.
LEMMA AbsResolve ==
    ASSUME NEW S \in SUBSET Job, NEW st \in {"waiting", "settled"}, runs' = runs,
           \A j \in S : status[j] \in Active /\ \A r \in Runner : runs[r] # j,
           \A k \in Job : Meaning(status'[k]) = IF k \in S THEN st ELSE Meaning(status[k])
    PROVE  AbsStep
<1>1. \A k \in Job : HolderOf(k)' = HolderOf(k)
  BY HolderIs
<1>2. \A j \in S : Meaning(status[j]) = "held" /\ HolderOf(j) = NoJob
  BY Meanings, HolderIs, NoHolder
<1>3. Queue!Resolve(S, st)
  BY <1>1, <1>2 DEF Queue!Resolve
<1> QED
  BY <1>3 DEF AbsStep, Queue!Next

\* The row of a goroutine that has one; no row that is not active has one.
LEMMA HeldRow ==
    ASSUME DisciplinedInv, NEW r \in Runner, phase[r] # "none"
    PROVE  runs[r] \in Job /\ status[runs[r]] \in Active /\ Meaning(status[runs[r]]) = "held"
BY OwnedRow, Meanings

\* A goroutine's steps: its last UPDATE releases the row, all others are
\* invisible to the abstract queue.
LEMMA RunnerStepAbs ==
    ASSUME DisciplinedInv, NEW r \in Runner, RunnerStep(r)
    PROVE  AbsStep
<1>0. TypeOK
  BY DEF DisciplinedInv
<1> USE <1>0 DEF TypeOK, TableTypeOK
<1>1. CASE Start(r)
  <2>1. runs[r] \in Job /\ status[runs[r]] \in Active
    BY <1>1, HeldRow DEF Start
  <2>2. \A k \in Job : status'[k] = IF k = runs[r] THEN "running" ELSE status[k]
    BY <1>1, <2>1 DEF Start, SetStatus, InTable
  <2>3. \A k \in Job : Meaning(status'[k]) = Meaning(status[k])
    BY <2>1, <2>2, Meanings
  <2> QED
    BY <1>1, <2>3, AbsStutter DEF Start, Goto
<1>2. CASE Progress(r) \/ CancelSeen(r) \/ FfmpegFails(r) \/ FfmpegSucceeds(r)
           \/ SwapCopies(r) \/ SwapInstalls(r) \/ RetireOriginal(r) \/ Kill(r)
  <2>1. status' = status /\ runs' = runs
    BY <1>2 DEF Progress, CancelSeen, FfmpegFails, EncodeFails, FfmpegSucceeds,
       SwapCopies, SwapInstalls, RetireOriginal, Kill, TouchRow, Goto
  <2> QED
    BY <2>1, AbsStutter
<1>3. CASE Finish(r)
  <2>1. runs[r] \in Job /\ status[runs[r]] \in Active
    BY <1>3, HeldRow DEF Finish
  <2>2. /\ phase[r] \in Terminal
        /\ \A k \in Job : status'[k] = IF k = runs[r] THEN phase[r] ELSE status[k]
    BY <1>3, <2>1 DEF Finish, SetStatus, InTable
  <2>3. \A k \in Job : Meaning(status'[k]) = IF k = runs[r] THEN "settled" ELSE Meaning(status[k])
    BY <2>2, Meanings
  <2>4. \A q \in Runner : runs'[q] = IF q = r THEN NoJob ELSE runs[q]
    BY <1>3 DEF Finish, Leave
  <2> QED
    BY <2>1, <2>3, <2>4, AbsRelease
<1>4. CASE Interrupt(r)
  <2>1. runs[r] \in Job /\ status[runs[r]] \in Active
    BY <1>4, HeldRow DEF Interrupt
  <2>2. \A k \in Job : status'[k] = IF k = runs[r] THEN "interrupted" ELSE status[k]
    BY <1>4, <2>1 DEF Interrupt, SetStatus, InTable
  <2>3. \A k \in Job : Meaning(status'[k]) = IF k = runs[r] THEN "waiting" ELSE Meaning(status[k])
    BY <2>2, Meanings
  <2>4. \A q \in Runner : runs'[q] = IF q = r THEN NoJob ELSE runs[q]
    BY <1>4 DEF Interrupt, Leave
  <2> QED
    BY <2>1, <2>3, <2>4, AbsRelease
<1> QED
  BY <1>1, <1>2, <1>3, <1>4 DEF RunnerStep

\* A worker's steps.  Stale marking meets no row with a goroutine, because
\* live encodes report; a restart meets none, because the process was down.
LEMMA WorkerStepAbs ==
    ASSUME DisciplinedInv, NEW w \in Worker, WorkerStep(w)
    PROVE  AbsStep
<1>0. TypeOK
  BY DEF DisciplinedInv
<1> USE <1>0, QueueAssumption DEF TypeOK, TableTypeOK
<1>1. ASSUME NEW r \in Runner, NEW j \in Job, Claim(w, r, j)
      PROVE  AbsStep
  <2>1. status[j] \in Pending /\ runs[r] = NoJob
    BY <1>1 DEF Claim, ClaimRow, Claimable
  <2>2. \A q \in Runner : runs[q] # j
    BY <2>1, Runners
  <2>3. \A k \in Job : status'[k] = IF k = j THEN "processing" ELSE status[k]
    BY <1>1 DEF Claim, ClaimRow
  <2>4. \A k \in Job : Meaning(status'[k]) = IF k = j THEN "held" ELSE Meaning(status[k])
    BY <2>3, Meanings
  <2>5. \A q \in Runner : runs'[q] = IF q = r THEN j ELSE runs[q]
    BY <1>1 DEF Claim
  <2> QED
    BY <2>1, <2>2, <2>4, <2>5, Meanings, AbsTake
<1>2. CASE Count(w) \/ ClaimNothing(w) \/ Exit(w)
  <2>1. status' = status /\ runs' = runs
    BY <1>2 DEF Count, ClaimNothing, Exit
  <2> QED
    BY <2>1, AbsStutter
<1>3. CASE MarkStale(w)
  <2>1. \A j \in StaleRows : status[j] \in Active /\ \A r \in Runner : runs[r] # j
    <3> SUFFICES ASSUME NEW r \in Runner, runs[r] \in StaleRows PROVE FALSE
      BY DEF StaleRows
    <3>1. phase[r] # "none"
      BY DEF StaleRows
    <3> QED
      BY <3>1, OwnedRow DEF StaleRows
  <2>2. \A k \in Job : status'[k] = IF k \in StaleRows THEN "failed" ELSE status[k]
    BY <1>3 DEF MarkStale, MarkStaleRows
  <2>3. \A k \in Job : Meaning(status'[k]) = IF k \in StaleRows THEN "settled" ELSE Meaning(status[k])
    BY <2>2, Meanings
  <2>4. runs' = runs /\ StaleRows \in SUBSET Job
    BY <1>3 DEF MarkStale, StaleRows
  <2> QED
    BY <2>1, <2>3, <2>4, AbsResolve
<1>4. CASE Restart(w)
  <2>0. CASE status' = status
    BY <1>4, <2>0, AbsStutter DEF Restart
  <2>1. \A j \in OwnedActive(w) : status[j] \in Active /\ \A r \in Runner : runs[r] # j
    <3> SUFFICES ASSUME NEW r \in Runner, runs[r] \in OwnedActive(w) PROVE FALSE
      BY DEF OwnedActive
    <3>1. phase[r] # "none"
      BY DEF OwnedActive
    <3>2. owner[runs[r]] = WorkerOf[r] /\ r \in lease
      BY <3>1, OwnedRow DEF DisciplinedInv, RunnersOwnTheirRows, Working
    <3>3. proc[w] # "down"
      BY <3>2 DEF OwnedActive, DisciplinedInv, RunnersOwnTheirRows, ClaimIntegrity
    <3> QED
      BY <1>4, <3>3 DEF Restart
  <2>2. CASE ReclaimRows(w)
    <3>1. \A k \in Job : status'[k] = IF k \in OwnedActive(w) THEN "interrupted" ELSE status[k]
      BY <2>2 DEF ReclaimRows
    <3>2. \A k \in Job : Meaning(status'[k]) = IF k \in OwnedActive(w) THEN "waiting" ELSE Meaning(status[k])
      BY <3>1, Meanings DEF OwnedActive
    <3>3. runs' = runs /\ OwnedActive(w) \in SUBSET Job
      BY <1>4 DEF Restart, OwnedActive
    <3> QED
      BY <2>1, <3>2, <3>3, AbsResolve
  <2> QED
    BY <1>4, <2>0, <2>2 DEF Restart
<1>5. CASE Crash(w)
  <2>1. RunnersIn(w) \in SUBSET Runner
    BY DEF RunnersIn
  <2>2. \A r \in Runner : runs'[r] = IF r \in RunnersIn(w) THEN NoJob ELSE runs[r]
    BY <1>5 DEF Crash, RunnersIn
  <2> QED
    BY <1>5, <2>1, <2>2, AbsLose DEF Crash
<1>6. CASE Stop(w)
  <2>1. PICK unwritten \in SUBSET Runner :
            runs' = [r \in Runner |-> IF r \in unwritten THEN NoJob ELSE runs[r]]
    BY <1>6 DEF Stop, RunnersIn
  <2>2. \A r \in Runner : runs'[r] = IF r \in unwritten THEN NoJob ELSE runs[r]
    BY <2>1
  <2> QED
    BY <1>6, <2>2, AbsLose DEF Stop
<1> QED
  BY <1>1, <1>2, <1>3, <1>4, <1>5, <1>6 DEF WorkerStep

\* A statement about one row that is written to it without looking for a runner.
LEMMA JobStepAbs ==
    ASSUME Disciplined, DisciplinedInv, OneRowPerFile, NEW j \in Job, JobStep(j)
    PROVE  AbsStep
<1>0. TypeOK
  BY DEF DisciplinedInv
<1> USE <1>0 DEF TypeOK, TableTypeOK
<1>1. CASE AddJob(j)
  <2>1. status[j] = "absent" /\ \A k \in Job : InTable(k) => FileOf[k] # FileOf[j]
    BY <1>1 DEF AddJob, InsertRow
  <2>2. \A k \in Job : status'[k] = IF k = j THEN "queued" ELSE status[k]
    BY <1>1 DEF AddJob, InsertRow
  <2>3. \A k \in Job : FileOf[k] = FileOf[j] => Meaning(status[k]) \notin Queue!Present
    BY <2>1, Meanings DEF InTable, Queue!Present
  <2>4. Meaning("queued") = "waiting" /\ Meaning(status[j]) = "out"
    BY <2>1, Meanings
  <2> QED
    BY <1>1, <2>2, <2>3, <2>4, AbsRowStep DEF AddJob
<1>2. CASE Retry(j)
  <2>1. status[j] \in Terminal \/ status[j] = "interrupted"
    BY <1>2 DEF Retry, Requeue, RequeueRow, Disciplined
  <2>2. runs' = runs /\ \A k \in Job : status'[k] = IF k = j THEN "queued" ELSE status[k]
    BY <1>2 DEF Retry, Requeue, RequeueRow
  <2>3. CASE status[j] \in Terminal
    BY <2>2, <2>3, Meanings, AbsRowStep
  <2>4. CASE status[j] = "interrupted"
    <3>1. \A k \in Job : Meaning(status'[k]) = Meaning(status[k])
      BY <2>2, <2>4, Meanings
    <3> QED
      BY <2>2, <3>1, AbsStutter
  <2> QED
    BY <2>1, <2>3, <2>4
<1>3. CASE CancelPending(j)
  <2>1. /\ runs' = runs /\ status[j] \in Pending
        /\ \A k \in Job : status'[k] = IF k = j THEN "cancelled" ELSE status[k]
    BY <1>3 DEF CancelPending, CancelPendingRow
  <2> QED
    BY <2>1, Meanings, AbsRowStep
<1>4. CASE Delete(j)
  <2>1. /\ runs' = runs /\ status[j] \in Pending \cup Terminal
        /\ \A k \in Job : status'[k] = IF k = j THEN "deleted" ELSE status[k]
    BY <1>4 DEF Delete, DeleteRow, InTable
  <2> QED
    BY <2>1, Meanings, AbsRowStep
<1>5. CASE \/ EnqueueKnown(j) \/ CancelMisses(j) \/ CancelFlags(j) \/ CancelRefused(j)
           \/ Age(j) \/ MaintStat(j)
  <2>1. status' = status /\ runs' = runs
    BY <1>5 DEF EnqueueKnown, CancelMisses, CancelFlags, FlagActiveRow, CancelRefused,
       Age, MaintStat
  <2> QED
    BY <2>1, AbsStutter
<1>6. CASE RequeueRead(j) \/ MaintFail(j)
  BY <1>6 DEF RequeueRead, MaintFail, DisciplinedInv, Discipline
<1> QED
  BY <1>1, <1>2, <1>3, <1>4, <1>5, <1>6 DEF JobStep

\* In a disciplined environment the workers, the handlers and the table behave
\* like the abstract queue: every UPDATE is a step that the abstract queue
\* allows to whoever makes it.
THEOREM QueueIsAWorkQueue ==
    ASSUME Disciplined PROVE Spec => ImplementsWorkQueue
<1>1. Init => Queue!Init
  <2> SUFFICES ASSUME Init PROVE Queue!Init
    OBVIOUS
  <2>1. ASSUME NEW j \in Job
        PROVE  Meaning(status[j]) = "out" /\ HolderOf(j) = NoJob
    BY <2>1, Meanings, HolderIs, NoHolder, QueueAssumption DEF Init, TableInit
  <2> QED
    BY <2>1 DEF Queue!Init
<1>2. DisciplinedInv /\ OneRowPerFile /\ [Next]_vars => AbsStep
  <2> SUFFICES ASSUME DisciplinedInv, OneRowPerFile, [Next]_vars
               PROVE  AbsStep
    OBVIOUS
  <2>1. CASE \/ \E st \in {"failed", "skipped"} : BulkSelect(st)
             \/ \E f \in File : Vanish(f)
             \/ MaintList
             \/ UNCHANGED vars
    <3>1. status' = status /\ runs' = runs
      BY <2>1 DEF BulkSelect, Vanish, MaintList
    <3> QED
      BY <3>1, AbsStutter
  <2> QED
    BY <2>1, RunnerStepAbs, WorkerStepAbs, JobStepAbs DEF Next
<1> QED
  BY <1>1, <1>2, DisciplinedInvHolds, FilesHaveOneRow, PTL
  DEF Spec, ImplementsWorkQueue, Queue!Spec, AbsStep
=============================================================================
