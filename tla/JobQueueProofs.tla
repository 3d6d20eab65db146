---------------------------- MODULE JobQueueProofs ---------------------------
(* Theorems about JobQueue and their proofs, for every set of jobs, workers  *)
(* and runners, every limit and every environment.                           *)
EXTENDS JobQueue, TLAPS

\* The tuples of UNCHANGED and the sets of constants every step needs.
USE DEF vars, tableVars, workerVars, webVars,
        Active, Pending, Terminal, Requeueable, RowStatus,
        Encoding, Swapping, Outcome, Phase

-----------------------------------------------------------------------------
(* Type correctness.                                                         *)

\* The steps of a goroutine of processJob keep every variable in its type.
LEMMA RunnerStepType ==
    ASSUME TypeOK, NEW r \in Runner, RunnerStep(r)
    PROVE  TypeOK'
<1> USE QueueAssumption, TableAssumption DEF TypeOK, TableTypeOK
<1>1. CASE Start(r)
  BY <1>1 DEF Start, SetStatus, Goto
<1>2. CASE Progress(r)
  BY <1>2 DEF Progress, TouchRow
<1>3. CASE CancelSeen(r)
  BY <1>3 DEF CancelSeen, TouchRow, Goto
<1>4. CASE FfmpegFails(r)
  BY <1>4 DEF FfmpegFails, EncodeFails, Goto
<1>5. CASE FfmpegSucceeds(r)
  BY <1>5 DEF FfmpegSucceeds, Goto
<1>6. CASE SwapInstalls(r)
  BY <1>6 DEF SwapInstalls, Goto
<1>7. CASE Finish(r)
  BY <1>7 DEF Finish, SetStatus, Leave
<1>8. CASE Interrupt(r)
  BY <1>8 DEF Interrupt, SetStatus, Leave
<1>9. CASE Kill(r)
  BY <1>9 DEF Kill, KillDue, EncodeFails, Goto
<1>10. CASE SwapCopies(r)
  BY <1>10 DEF SwapCopies, Goto
<1>11. CASE RetireOriginal(r)
  BY <1>11 DEF RetireOriginal, Goto
<1> QED
  BY <1>1, <1>2, <1>3, <1>4, <1>5, <1>6, <1>7, <1>8, <1>9, <1>10, <1>11 DEF RunnerStep

\* So do the steps of a worker's loops and of its process.
LEMMA WorkerStepType ==
    ASSUME TypeOK, NEW w \in Worker, WorkerStep(w)
    PROVE  TypeOK'
<1> USE QueueAssumption, TableAssumption DEF TypeOK, TableTypeOK
<1>1. CASE Count(w)
  BY <1>1 DEF Count
<1>2. CASE ClaimNothing(w)
  BY <1>2 DEF ClaimNothing
<1>3. CASE MarkStale(w)
  BY <1>3 DEF MarkStale, MarkStaleRows, StaleRows
<1>4. CASE Crash(w)
  BY <1>4 DEF Crash, RunnersIn
<1>5. CASE Restart(w)
  BY <1>5 DEF Restart, ReclaimRows, OwnedActive
<1>6. CASE Stop(w)
  BY <1>6 DEF Stop, RunnersIn
<1>7. CASE Exit(w)
  BY <1>7 DEF Exit
<1>8. ASSUME NEW r \in Runner, NEW j \in Job, Claim(w, r, j)
      PROVE  TypeOK'
  BY <1>8 DEF Claim, ClaimRow, Claimable
<1> QED
  BY <1>1, <1>2, <1>3, <1>4, <1>5, <1>6, <1>7, <1>8 DEF WorkerStep

\* So do the steps about one row.
LEMMA JobStepType ==
    ASSUME TypeOK, NEW j \in Job, JobStep(j)
    PROVE  TypeOK'
<1> USE QueueAssumption, TableAssumption DEF TypeOK, TableTypeOK
<1>1. CASE AddJob(j)
  BY <1>1 DEF AddJob, InsertRow
<1>2. CASE Retry(j)
  BY <1>2 DEF Retry, Requeue, RequeueRow
<1>3. CASE EnqueueKnown(j)
  BY <1>3 DEF EnqueueKnown
<1>4. CASE RequeueRead(j)
  BY <1>4 DEF RequeueRead, Requeue, RequeueRow
<1>5. CASE CancelPending(j)
  BY <1>5 DEF CancelPending, CancelPendingRow
<1>6. CASE CancelMisses(j)
  BY <1>6 DEF CancelMisses
<1>7. CASE CancelFlags(j)
  BY <1>7 DEF CancelFlags, FlagActiveRow
<1>8. CASE CancelRefused(j)
  BY <1>8 DEF CancelRefused
<1>9. CASE Delete(j)
  BY <1>9 DEF Delete, DeleteRow
<1>10. CASE Age(j)
  BY <1>10 DEF Age
<1>11. CASE MaintStat(j)
  BY <1>11 DEF MaintStat
<1>12. CASE MaintFail(j)
  BY <1>12 DEF MaintFail, SetStatus
<1> QED
  BY <1>1, <1>2, <1>3, <1>4, <1>5, <1>6, <1>7, <1>8, <1>9, <1>10, <1>11, <1>12 DEF JobStep

\* Every variable keeps its type, and a goroutine has a job exactly while it
\* is somewhere in processJob.
THEOREM TypeCorrect == Spec => []TypeOK
<1>1. Init => TypeOK
  BY QueueAssumption, TableAssumption DEF Init, TableInit, TypeOK, TableTypeOK
<1>2. TypeOK /\ [Next]_vars => TypeOK'
  <2> SUFFICES ASSUME TypeOK, [Next]_vars
               PROVE  TypeOK'
    OBVIOUS
  <2>1. ASSUME NEW st \in {"failed", "skipped"}, BulkSelect(st)
        PROVE  TypeOK'
    BY <2>1 DEF BulkSelect, TypeOK, TableTypeOK
  <2>2. ASSUME NEW f \in File, Vanish(f)
        PROVE  TypeOK'
    BY <2>2 DEF Vanish, TypeOK, TableTypeOK
  <2>3. CASE MaintList
    BY <2>3 DEF MaintList, TypeOK, TableTypeOK
  <2>4. CASE UNCHANGED vars
    BY <2>4 DEF TypeOK, TableTypeOK
  <2> QED
    BY <2>1, <2>2, <2>3, <2>4, RunnerStepType, WorkerStepType, JobStepType DEF Next
<1> QED
  BY <1>1, <1>2, PTL DEF Spec

-----------------------------------------------------------------------------
(* Claims.  ClaimIntegrity is inductive together with TypeOK: a leased row   *)
(* is active, so it is not claimable, not deletable and not cancellable on   *)
(* the spot; its owner's process is not down, so no restart reclaims it; and *)
(* every other statement that takes a row out of the active statuses ends    *)
(* the leases on it in the same step.                                        *)

\* A step that leaves alone everything ClaimIntegrity speaks of.
LEMMA ClaimFrame ==
    ASSUME ClaimIntegrity, UNCHANGED <<lease, runs, status, owner, proc>>
    PROVE  ClaimIntegrity'
BY DEF ClaimIntegrity

\* processJob keeps the claims of the other goroutines consistent.
LEMMA RunnerStepClaims ==
    ASSUME TypeOK, ClaimIntegrity, NEW r \in Runner, RunnerStep(r)
    PROVE  ClaimIntegrity'
<1> USE DEF TypeOK, TableTypeOK
<1>1. CASE Start(r)
  BY <1>1 DEF Start, SetStatus, Goto, ClaimIntegrity
<1>2. CASE Progress(r)
  BY <1>2, ClaimFrame DEF Progress, TouchRow
<1>3. CASE CancelSeen(r)
  BY <1>3, ClaimFrame DEF CancelSeen, TouchRow, Goto
<1>4. CASE FfmpegFails(r)
  BY <1>4, ClaimFrame DEF FfmpegFails, EncodeFails, Goto
<1>5. CASE FfmpegSucceeds(r)
  BY <1>5, ClaimFrame DEF FfmpegSucceeds, Goto
<1>6. CASE SwapInstalls(r)
  BY <1>6, ClaimFrame DEF SwapInstalls, Goto
<1>7. CASE Finish(r)
  BY <1>7 DEF Finish, SetStatus, Leave, RunnersOf, ClaimIntegrity
<1>8. CASE Interrupt(r)
  BY <1>8 DEF Interrupt, SetStatus, Leave, RunnersOf, ClaimIntegrity
<1>9. CASE Kill(r)
  BY <1>9, ClaimFrame DEF Kill, EncodeFails, Goto
<1>10. CASE SwapCopies(r)
  BY <1>10, ClaimFrame DEF SwapCopies, Goto
<1>11. CASE RetireOriginal(r)
  BY <1>11, ClaimFrame DEF RetireOriginal, Goto
<1> QED
  BY <1>1, <1>2, <1>3, <1>4, <1>5, <1>6, <1>7, <1>8, <1>9, <1>10, <1>11 DEF RunnerStep

\* A worker claims only rows nobody holds, and gives its claims up when its
\* process ends.
LEMMA WorkerStepClaims ==
    ASSUME TypeOK, ClaimIntegrity, NEW w \in Worker, WorkerStep(w)
    PROVE  ClaimIntegrity'
<1> USE QueueAssumption, TableAssumption DEF TypeOK, TableTypeOK
<1>1. CASE Count(w)
  BY <1>1, ClaimFrame DEF Count
<1>2. CASE ClaimNothing(w)
  BY <1>2, ClaimFrame DEF ClaimNothing
<1>3. CASE MarkStale(w)
  BY <1>3 DEF MarkStale, MarkStaleRows, StaleRows, ClaimIntegrity
<1>4. CASE Crash(w)
  BY <1>4 DEF Crash, RunnersIn, ClaimIntegrity
<1>5. CASE Restart(w)
  BY <1>5 DEF Restart, ReclaimRows, OwnedActive, ClaimIntegrity
<1>6. CASE Stop(w)
  BY <1>6 DEF Stop, RunnersIn, ClaimIntegrity
<1>7. CASE Exit(w)
  BY <1>7 DEF Exit, RunnersIn, Working, ClaimIntegrity
<1>8. ASSUME NEW r \in Runner, NEW j \in Job, Claim(w, r, j)
      PROVE  ClaimIntegrity'
  <2>1. status[j] \in Pending
    BY <1>8 DEF Claim, ClaimRow, Claimable
  <2>2. \A q \in lease : runs[q] # j /\ q # r
    BY <1>8, <2>1 DEF Claim, ClaimIntegrity
  <2> QED
    BY <1>8, <2>2 DEF Claim, ClaimRow, ClaimIntegrity
<1> QED
  BY <1>1, <1>2, <1>3, <1>4, <1>5, <1>6, <1>7, <1>8 DEF WorkerStep

\* A handler or the maintenance pass that takes a row away ends its claims.
LEMMA JobStepClaims ==
    ASSUME TypeOK, ClaimIntegrity, NEW j \in Job, JobStep(j)
    PROVE  ClaimIntegrity'
<1> USE DEF TypeOK, TableTypeOK
<1>1. CASE AddJob(j)
  BY <1>1 DEF AddJob, InsertRow, ClaimIntegrity
<1>2. CASE Retry(j)
  BY <1>2 DEF Retry, Requeue, RequeueRow, RunnersOf, ClaimIntegrity
<1>3. CASE EnqueueKnown(j)
  BY <1>3, ClaimFrame DEF EnqueueKnown
<1>4. CASE RequeueRead(j)
  BY <1>4 DEF RequeueRead, Requeue, RequeueRow, RunnersOf, ClaimIntegrity
<1>5. CASE CancelPending(j)
  BY <1>5 DEF CancelPending, CancelPendingRow, ClaimIntegrity
<1>6. CASE CancelMisses(j)
  BY <1>6, ClaimFrame DEF CancelMisses
<1>7. CASE CancelFlags(j)
  BY <1>7, ClaimFrame DEF CancelFlags, FlagActiveRow
<1>8. CASE CancelRefused(j)
  BY <1>8, ClaimFrame DEF CancelRefused
<1>9. CASE Delete(j)
  BY <1>9 DEF Delete, DeleteRow, ClaimIntegrity
<1>10. CASE Age(j)
  BY <1>10, ClaimFrame DEF Age
<1>11. CASE MaintStat(j)
  BY <1>11, ClaimFrame DEF MaintStat
<1>12. CASE MaintFail(j)
  BY <1>12 DEF MaintFail, SetStatus, RunnersOf, ClaimIntegrity
<1> QED
  BY <1>1, <1>2, <1>3, <1>4, <1>5, <1>6, <1>7, <1>8, <1>9, <1>10, <1>11, <1>12 DEF JobStep

\* ClaimNextJob gives a row to one goroutine of one worker, whatever users,
\* crashes, restarts, stale marking and maintenance do in between: two
\* goroutines never hold unrevoked claims on one row.
THEOREM ClaimsAreExclusive == Spec => []ClaimIntegrity
<1>1. Init => ClaimIntegrity
  BY DEF Init, ClaimIntegrity
<1>2. TypeOK /\ ClaimIntegrity /\ [Next]_vars => ClaimIntegrity'
  <2> SUFFICES ASSUME TypeOK, ClaimIntegrity, [Next]_vars
               PROVE  ClaimIntegrity'
    OBVIOUS
  <2>1. ASSUME NEW st \in {"failed", "skipped"}, BulkSelect(st)
        PROVE  ClaimIntegrity'
    BY <2>1, ClaimFrame DEF BulkSelect
  <2>2. ASSUME NEW f \in File, Vanish(f)
        PROVE  ClaimIntegrity'
    BY <2>2, ClaimFrame DEF Vanish
  <2>3. CASE MaintList
    BY <2>3, ClaimFrame DEF MaintList
  <2>4. CASE UNCHANGED vars
    BY <2>4, ClaimFrame
  <2> QED
    BY <2>1, <2>2, <2>3, <2>4, RunnerStepClaims, WorkerStepClaims, JobStepClaims DEF Next
<1> QED
  BY <1>1, <1>2, TypeCorrect, PTL DEF Spec

-----------------------------------------------------------------------------
(* The disciplined environment.  RunnersOwnTheirRows is strengthened with    *)
(* what the discipline rules out: no requeue decided on an earlier read is   *)
(* pending, no maintenance pass is under way, and a row with a runner never  *)
(* looks stale.                                                              *)

Discipline ==
    /\ requeueing = {}
    /\ \A j \in Job : maint[j] = "idle"
    /\ \A r \in Runner : Working(r) => runs[r] \notin old

DisciplinedInv == TypeOK /\ RunnersOwnTheirRows /\ Discipline

\* A row with a runner is active, is its worker's, and has no other runner.
LEMMA OwnedRow ==
    ASSUME DisciplinedInv, NEW r \in Runner, phase[r] # "none"
    PROVE  /\ runs[r] \in Job
           /\ status[runs[r]] \in Active
           /\ owner[runs[r]] = WorkerOf[r]
           /\ runs[r] \notin old
           /\ RunnersOf(runs[r]) = {r}
<1>1. r \in lease /\ runs[r] \notin old
  BY DEF DisciplinedInv, RunnersOwnTheirRows, Discipline, Working
<1>2. /\ runs[r] \in Job
      /\ status[runs[r]] \in Active
      /\ owner[runs[r]] = WorkerOf[r]
  BY <1>1 DEF DisciplinedInv, RunnersOwnTheirRows, ClaimIntegrity
<1>3. ASSUME NEW q \in Runner, runs[q] = runs[r]
      PROVE  q = r
  <2>1. phase[q] # "none"
    BY <1>2, <1>3, QueueAssumption DEF DisciplinedInv, TypeOK
  <2>2. q \in lease
    BY <2>1 DEF DisciplinedInv, RunnersOwnTheirRows, Working
  <2> QED
    BY <1>1, <1>3, <2>2 DEF DisciplinedInv, RunnersOwnTheirRows, ClaimIntegrity
<1> QED
  BY <1>1, <1>2, <1>3 DEF RunnersOf

\* The runner-side half of the invariant, for a goroutine's own steps.
LEMMA RunnerStepDiscipline ==
    ASSUME Disciplined, DisciplinedInv, NEW r \in Runner, RunnerStep(r)
    PROVE  (\A q \in Runner : Working(q) => q \in lease)' /\ Discipline'
<1> USE DEF DisciplinedInv, RunnersOwnTheirRows, Discipline, Working, TypeOK, TableTypeOK
<1>1. CASE Start(r)
  BY <1>1 DEF Start, SetStatus, Goto
<1>2. CASE Progress(r)
  BY <1>2 DEF Progress, TouchRow
<1>3. CASE CancelSeen(r)
  BY <1>3 DEF CancelSeen, TouchRow, Goto
<1>4. CASE FfmpegFails(r)
  BY <1>4 DEF FfmpegFails, EncodeFails, Goto
<1>5. CASE FfmpegSucceeds(r)
  BY <1>5 DEF FfmpegSucceeds, Goto
<1>6. CASE SwapInstalls(r)
  BY <1>6 DEF SwapInstalls, Goto
<1>7. CASE Finish(r)
  <2>1. RunnersOf(runs[r]) = {r}
    BY <1>7, OwnedRow DEF Finish
  <2> QED
    BY <1>7, <2>1 DEF Finish, SetStatus, Leave
<1>8. CASE Interrupt(r)
  <2>1. RunnersOf(runs[r]) = {r}
    BY <1>8, OwnedRow DEF Interrupt
  <2> QED
    BY <1>8, <2>1 DEF Interrupt, SetStatus, Leave
<1>9. CASE Kill(r)
  BY <1>9 DEF Kill, KillDue, EncodeFails, Goto
<1>10. CASE SwapCopies(r)
  BY <1>10 DEF SwapCopies, Goto
<1>11. CASE RetireOriginal(r)
  BY <1>11 DEF RetireOriginal, Goto
<1> QED
  BY <1>1, <1>2, <1>3, <1>4, <1>5, <1>6, <1>7, <1>8, <1>9, <1>10, <1>11 DEF RunnerStep

\* The same for the loops and the process of a worker.
LEMMA WorkerStepDiscipline ==
    ASSUME Disciplined, DisciplinedInv, NEW w \in Worker, WorkerStep(w)
    PROVE  (\A q \in Runner : Working(q) => q \in lease)' /\ Discipline'
<1> USE QueueAssumption
    DEF DisciplinedInv, RunnersOwnTheirRows, Discipline, Working, TypeOK, TableTypeOK
<1>1. CASE Count(w)
  BY <1>1 DEF Count
<1>2. CASE ClaimNothing(w)
  BY <1>2 DEF ClaimNothing
<1>3. CASE MarkStale(w)
  BY <1>3 DEF MarkStale, MarkStaleRows, StaleRows
<1>4. CASE Crash(w)
  BY <1>4 DEF Crash, RunnersIn
<1>5. CASE Restart(w)
  BY <1>5 DEF Restart, ReclaimRows
<1>6. CASE Stop(w)
  BY <1>6 DEF Stop, RunnersIn
<1>7. CASE Exit(w)
  BY <1>7 DEF Exit
<1>8. ASSUME NEW r \in Runner, NEW j \in Job, Claim(w, r, j)
      PROVE  (\A q \in Runner : Working(q) => q \in lease)' /\ Discipline'
  BY <1>8 DEF Claim, ClaimRow
<1> QED
  BY <1>1, <1>2, <1>3, <1>4, <1>5, <1>6, <1>7, <1>8 DEF WorkerStep

\* Handlers take away only rows without a runner.
LEMMA JobStepDiscipline ==
    ASSUME Disciplined, DisciplinedInv, NEW j \in Job, JobStep(j)
    PROVE  (\A q \in Runner : Working(q) => q \in lease)' /\ Discipline'
<1> USE DEF DisciplinedInv, RunnersOwnTheirRows, Discipline, Working, TypeOK, TableTypeOK
<1>1. CASE AddJob(j)
  BY <1>1 DEF AddJob, InsertRow
<1>2. CASE Retry(j)
  <2>1. RunnersOf(j) = {}
    <3> SUFFICES ASSUME NEW r \in Runner, runs[r] = j PROVE FALSE
      BY DEF RunnersOf
    <3>1. status[j] \in Active
      BY OwnedRow, QueueAssumption
    <3> QED
      BY <1>2, <3>1 DEF Retry, Disciplined
  <2> QED
    BY <1>2, <2>1 DEF Retry, Requeue, RequeueRow
<1>3. CASE EnqueueKnown(j)
  BY <1>3 DEF EnqueueKnown, Disciplined
<1>4. CASE RequeueRead(j)
  BY <1>4 DEF RequeueRead
<1>5. CASE CancelPending(j)
  BY <1>5 DEF CancelPending, CancelPendingRow
<1>6. CASE CancelMisses(j)
  BY <1>6 DEF CancelMisses
<1>7. CASE CancelFlags(j)
  BY <1>7 DEF CancelFlags, FlagActiveRow
<1>8. CASE CancelRefused(j)
  BY <1>8 DEF CancelRefused
<1>9. CASE Delete(j)
  BY <1>9 DEF Delete, DeleteRow
<1>10. CASE Age(j)
  BY <1>10 DEF Age, RunnersOf, Disciplined
<1>11. CASE MaintStat(j)
  BY <1>11 DEF MaintStat
<1>12. CASE MaintFail(j)
  BY <1>12 DEF MaintFail
<1> QED
  BY <1>1, <1>2, <1>3, <1>4, <1>5, <1>6, <1>7, <1>8, <1>9, <1>10, <1>11, <1>12 DEF JobStep

\* The strengthened invariant is kept by every step.
LEMMA DisciplineStep ==
    ASSUME Disciplined, DisciplinedInv, ClaimIntegrity', TypeOK', [Next]_vars
    PROVE  DisciplinedInv'
<1>1. (\A q \in Runner : Working(q) => q \in lease)' /\ Discipline'
  <2> USE DEF DisciplinedInv, RunnersOwnTheirRows, Discipline, Working
  <2>1. ASSUME NEW st \in {"failed", "skipped"}, BulkSelect(st)
        PROVE  (\A q \in Runner : Working(q) => q \in lease)' /\ Discipline'
    BY <2>1 DEF BulkSelect, Disciplined
  <2>2. ASSUME NEW f \in File, Vanish(f)
        PROVE  (\A q \in Runner : Working(q) => q \in lease)' /\ Discipline'
    BY <2>2 DEF Vanish
  <2>3. CASE MaintList
    BY <2>3 DEF MaintList, Disciplined
  <2>4. CASE UNCHANGED vars
    BY <2>4
  <2> QED
    BY <2>1, <2>2, <2>3, <2>4,
       RunnerStepDiscipline, WorkerStepDiscipline, JobStepDiscipline DEF Next
<1> QED
  BY <1>1 DEF DisciplinedInv, RunnersOwnTheirRows

\* The invariant the theorems of this section are read off.
LEMMA DisciplinedInvHolds ==
    ASSUME Disciplined PROVE Spec => []DisciplinedInv
<1>1. Init => DisciplinedInv
  <2>1. Init => TypeOK
    BY QueueAssumption, TableAssumption DEF Init, TableInit, TypeOK, TableTypeOK
  <2> QED
    BY <2>1 DEF Init, DisciplinedInv, RunnersOwnTheirRows, ClaimIntegrity, Discipline, Working
<1>2. DisciplinedInv /\ ClaimIntegrity' /\ TypeOK' /\ [Next]_vars => DisciplinedInv'
  BY DisciplineStep
<1> QED
  BY <1>1, <1>2, TypeCorrect, ClaimsAreExclusive, PTL DEF Spec

\* Under the discipline no goroutine ever works on a row that is not active,
\* not its worker's, or also somebody else's: the unconditional UPDATEs of
\* processJob only ever hit the worker's own row.
THEOREM NoZombieRunners ==
    ASSUME Disciplined PROVE Spec => []RunnersOwnTheirRows
<1>1. DisciplinedInv => RunnersOwnTheirRows
  BY DEF DisciplinedInv
<1> QED
  BY <1>1, DisciplinedInvHolds, PTL

-----------------------------------------------------------------------------
(* Orphans: a row stays active only with a goroutine or a dead owner.        *)

\* A step after which no row is newly active or newly without its runner.
LEMMA WorkedOnFrame ==
    ASSUME ActiveRowsAreWorkedOn,
           \A j \in Job : status'[j] \in Active =>
               /\ status[j] \in Active
               /\ RunnersOf(j)' = RunnersOf(j)
               /\ owner'[j] = owner[j]
               /\ owner[j] \in Worker => proc'[owner[j]] = proc[owner[j]]
    PROVE  ActiveRowsAreWorkedOn'
BY DEF ActiveRowsAreWorkedOn

\* A goroutine leaves only a row it has just taken out of the active statuses.
LEMMA RunnerStepWorkedOn ==
    ASSUME DisciplinedInv, ActiveRowsAreWorkedOn, NEW r \in Runner, RunnerStep(r)
    PROVE  ActiveRowsAreWorkedOn'
<1> USE DEF TypeOK, TableTypeOK, RunnersOf
<1>0. TypeOK
  BY DEF DisciplinedInv
<1>1. CASE Start(r)
  <2>1. status[runs[r]] \in Active
    BY <1>1, OwnedRow DEF Start
  <2> QED
    BY <1>0, <1>1, <2>1, WorkedOnFrame DEF Start, SetStatus, Goto
<1>2. CASE Progress(r)
  BY <1>2, WorkedOnFrame DEF Progress, TouchRow
<1>3. CASE CancelSeen(r)
  BY <1>3, WorkedOnFrame DEF CancelSeen, TouchRow, Goto
<1>4. CASE FfmpegFails(r)
  BY <1>4, WorkedOnFrame DEF FfmpegFails, EncodeFails, Goto
<1>5. CASE FfmpegSucceeds(r)
  BY <1>5, WorkedOnFrame DEF FfmpegSucceeds, Goto
<1>6. CASE SwapInstalls(r)
  BY <1>6, WorkedOnFrame DEF SwapInstalls, Goto
<1>7. CASE Finish(r)
  <2>1. status[runs[r]] \in Active /\ runs[r] \in Job
    BY <1>7, OwnedRow DEF Finish
  <2>2. status'[runs[r]] \notin Active
    BY <1>0, <1>7, <2>1 DEF Finish, SetStatus, InTable
  <2>3. ASSUME NEW k \in Job, k # runs[r]
        PROVE  status'[k] = status[k] /\ owner'[k] = owner[k] /\ RunnersOf(k)' = RunnersOf(k)
    <3>1. status'[k] = status[k] /\ owner' = owner
      BY <1>0, <1>7, <2>1, <2>3 DEF Finish, SetStatus
    <3>2. ASSUME NEW q \in Runner PROVE (runs'[q] = k) <=> (runs[q] = k)
      BY <1>0, <1>7, <2>3, QueueAssumption DEF Finish, Leave
    <3> QED
      BY <3>1, <3>2
  <2>4. proc' = proc
    BY <1>7 DEF Finish, Leave
  <2> QED
    BY <2>2, <2>3, <2>4, WorkedOnFrame
<1>8. CASE Interrupt(r)
  <2>1. status[runs[r]] \in Active /\ runs[r] \in Job
    BY <1>8, OwnedRow DEF Interrupt
  <2>2. status'[runs[r]] \notin Active
    BY <1>0, <1>8, <2>1 DEF Interrupt, SetStatus, InTable
  <2>3. ASSUME NEW k \in Job, k # runs[r]
        PROVE  status'[k] = status[k] /\ owner'[k] = owner[k] /\ RunnersOf(k)' = RunnersOf(k)
    <3>1. status'[k] = status[k] /\ owner' = owner
      BY <1>0, <1>8, <2>1, <2>3 DEF Interrupt, SetStatus
    <3>2. ASSUME NEW q \in Runner PROVE (runs'[q] = k) <=> (runs[q] = k)
      BY <1>0, <1>8, <2>3, QueueAssumption DEF Interrupt, Leave
    <3> QED
      BY <3>1, <3>2
  <2>4. proc' = proc
    BY <1>8 DEF Interrupt, Leave
  <2> QED
    BY <2>2, <2>3, <2>4, WorkedOnFrame
<1>9. CASE Kill(r)
  BY <1>9, WorkedOnFrame DEF Kill, EncodeFails, Goto
<1>10. CASE SwapCopies(r)
  BY <1>10, WorkedOnFrame DEF SwapCopies, Goto
<1>11. CASE RetireOriginal(r)
  BY <1>11, WorkedOnFrame DEF RetireOriginal, Goto
<1> QED
  BY <1>1, <1>2, <1>3, <1>4, <1>5, <1>6, <1>7, <1>8, <1>9, <1>10, <1>11 DEF RunnerStep

\* A process that ends leaves rows of its own behind, and reclaims them when
\* it is started again.
LEMMA WorkerStepWorkedOn ==
    ASSUME "reclaim_fails" \notin Env, DisciplinedInv, ActiveRowsAreWorkedOn, NEW w \in Worker, WorkerStep(w)
    PROVE  ActiveRowsAreWorkedOn'
<1> USE QueueAssumption DEF TypeOK, TableTypeOK, RunnersOf
<1>0. TypeOK
  BY DEF DisciplinedInv
<1>1. CASE Count(w)
  BY <1>1, WorkedOnFrame DEF Count
<1>2. CASE ClaimNothing(w)
  BY <1>2, WorkedOnFrame DEF ClaimNothing
<1>3. CASE MarkStale(w)
  BY <1>0, <1>3, WorkedOnFrame DEF MarkStale, MarkStaleRows
<1>4. CASE Crash(w)
  <2> SUFFICES ASSUME NEW j \in Job, status'[j] \in Active, RunnersOf(j)' = {}
               PROVE  owner'[j] \in Worker /\ proc'[owner'[j]] # "up"
    BY DEF ActiveRowsAreWorkedOn
  <2>1. status[j] \in Active /\ owner'[j] = owner[j]
    BY <1>4 DEF Crash
  <2>2. CASE RunnersOf(j) = {}
    BY <1>0, <1>4, <2>1, <2>2 DEF ActiveRowsAreWorkedOn, Crash
  <2>3. ASSUME NEW r \in Runner, runs[r] = j
        PROVE  owner[j] \in Worker /\ proc'[owner[j]] # "up"
    <3>1. WorkerOf[r] = w
      BY <1>0, <1>4, <2>3 DEF Crash
    <3>2. owner[j] = WorkerOf[r]
      BY <1>0, <2>3, OwnedRow
    <3> QED
      BY <1>0, <1>4, <3>1, <3>2 DEF Crash
  <2> QED
    BY <2>1, <2>2, <2>3
<1>5. CASE Restart(w)
  BY <1>0, <1>5 DEF Restart, ReclaimRows, OwnedActive, ActiveRowsAreWorkedOn
<1>6. CASE Stop(w)
  <2> SUFFICES ASSUME NEW j \in Job, status'[j] \in Active, RunnersOf(j)' = {}
               PROVE  owner'[j] \in Worker /\ proc'[owner'[j]] # "up"
    BY DEF ActiveRowsAreWorkedOn
  <2>1. status[j] \in Active /\ owner'[j] = owner[j]
    BY <1>6 DEF Stop
  <2>2. CASE RunnersOf(j) = {}
    BY <1>0, <1>6, <2>1, <2>2 DEF ActiveRowsAreWorkedOn, Stop
  <2>3. ASSUME NEW r \in Runner, runs[r] = j
        PROVE  owner[j] \in Worker /\ proc'[owner[j]] # "up"
    <3>1. WorkerOf[r] = w
      <4>1. PICK unwritten \in SUBSET {q \in RunnersIn(w) : phase[q] \in Outcome} :
                runs' = [q \in Runner |-> IF q \in unwritten THEN NoJob ELSE runs[q]]
        BY <1>6 DEF Stop
      <4>2. runs'[r] # j
        BY DEF RunnersOf
      <4> QED
        BY <2>3, <4>1, <4>2 DEF RunnersIn
    <3>2. owner[j] = WorkerOf[r]
      BY <1>0, <2>3, OwnedRow
    <3> QED
      BY <1>0, <1>6, <3>1, <3>2 DEF Stop
  <2> QED
    BY <2>1, <2>2, <2>3
<1>7. CASE Exit(w)
  BY <1>0, <1>7 DEF Exit, ActiveRowsAreWorkedOn
<1>8. ASSUME NEW r \in Runner, NEW j \in Job, Claim(w, r, j)
      PROVE  ActiveRowsAreWorkedOn'
  <2>1. r \in RunnersOf(j)'
    BY <1>0, <1>8 DEF Claim
  <2>2. ASSUME NEW k \in Job, k # j, status'[k] \in Active
        PROVE  /\ status[k] \in Active
               /\ owner'[k] = owner[k]
               /\ RunnersOf(k) \subseteq RunnersOf(k)'
               /\ proc' = proc
    BY <1>0, <1>8, <2>2 DEF Claim, ClaimRow
  <2> QED
    BY <2>1, <2>2 DEF ActiveRowsAreWorkedOn
<1> QED
  BY <1>1, <1>2, <1>3, <1>4, <1>5, <1>6, <1>7, <1>8 DEF WorkerStep

\* No handler makes a row active.
LEMMA JobStepWorkedOn ==
    ASSUME DisciplinedInv, ActiveRowsAreWorkedOn, NEW j \in Job, JobStep(j)
    PROVE  ActiveRowsAreWorkedOn'
<1>0. TypeOK
  BY DEF DisciplinedInv
<1>1. /\ UNCHANGED <<proc, runs>>
      /\ \A k \in Job : status'[k] \in Active => status[k] \in Active /\ owner'[k] = owner[k]
  <2> USE <1>0 DEF TypeOK, TableTypeOK
  <2>1. CASE AddJob(j)
    BY <2>1 DEF AddJob, InsertRow
  <2>2. CASE Retry(j)
    BY <2>2 DEF Retry, Requeue, RequeueRow
  <2>3. CASE EnqueueKnown(j)
    BY <2>3 DEF EnqueueKnown
  <2>4. CASE RequeueRead(j)
    BY <2>4 DEF RequeueRead, Requeue, RequeueRow
  <2>5. CASE CancelPending(j)
    BY <2>5 DEF CancelPending, CancelPendingRow
  <2>6. CASE CancelMisses(j)
    BY <2>6 DEF CancelMisses
  <2>7. CASE CancelFlags(j)
    BY <2>7 DEF CancelFlags, FlagActiveRow
  <2>8. CASE CancelRefused(j)
    BY <2>8 DEF CancelRefused
  <2>9. CASE Delete(j)
    BY <2>9 DEF Delete, DeleteRow
  <2>10. CASE Age(j)
    BY <2>10 DEF Age
  <2>11. CASE MaintStat(j)
    BY <2>11 DEF MaintStat
  <2>12. CASE MaintFail(j)
    BY <2>12 DEF MaintFail, SetStatus
  <2> QED
    BY <2>1, <2>2, <2>3, <2>4, <2>5, <2>6, <2>7, <2>8, <2>9, <2>10, <2>11, <2>12 DEF JobStep
<1> QED
  BY <1>1, WorkedOnFrame DEF RunnersOf

\* An active row is never forgotten: it has a goroutine, or it is left to the
\* restart of the worker it names.  Two events are excluded that make an orphan
\* and leave it to stale marking: a reclaim that fails, and (by Disciplined) a
\* requeue of an active row, which the first UPDATE of processJob may revive
\* under no worker id at all.
THEOREM NoOrphanRows ==
    ASSUME Disciplined, "reclaim_fails" \notin Env PROVE Spec => []ActiveRowsAreWorkedOn
<1>1. Init => ActiveRowsAreWorkedOn
  BY DEF Init, TableInit, ActiveRowsAreWorkedOn
<1>2. DisciplinedInv /\ ActiveRowsAreWorkedOn /\ [Next]_vars => ActiveRowsAreWorkedOn'
  <2> SUFFICES ASSUME DisciplinedInv, ActiveRowsAreWorkedOn, [Next]_vars
               PROVE  ActiveRowsAreWorkedOn'
    OBVIOUS
  <2>1. ASSUME NEW st \in {"failed", "skipped"}, BulkSelect(st)
        PROVE  ActiveRowsAreWorkedOn'
    BY <2>1, WorkedOnFrame DEF BulkSelect, RunnersOf
  <2>2. ASSUME NEW f \in File, Vanish(f)
        PROVE  ActiveRowsAreWorkedOn'
    BY <2>2, WorkedOnFrame DEF Vanish, RunnersOf
  <2>3. CASE MaintList
    BY <2>3, WorkedOnFrame DEF MaintList, RunnersOf
  <2>4. CASE UNCHANGED vars
    BY <2>4, WorkedOnFrame DEF RunnersOf
  <2> QED
    BY <2>1, <2>2, <2>3, <2>4,
       RunnerStepWorkedOn, WorkerStepWorkedOn, JobStepWorkedOn DEF Next
<1> QED
  BY <1>1, <1>2, DisciplinedInvHolds, PTL DEF Spec
=============================================================================
