---------------------------- MODULE QueueCapProofs ---------------------------
(* The concurrency limits of JobQueue for every number of workers: how far   *)
(* claims on an outdated count can exceed them.                              *)
EXTENDS JobQueueProofs, FiniteSetTheorems

USE DEF vars, tableVars, workerVars, webVars,
        Active, Pending, Terminal, Requeueable, RowStatus,
        Encoding, Swapping, Outcome, Phase

\* Workers between Count and Claim, and those of them that may claim from l.
Counting == {w \in Worker : eligible[w] # {}}
CountingFor(l) == {w \in Worker : l \in eligible[w]}

\* The inductive form of ActiveCap: an outstanding count is worth a row.
CapInv ==
    /\ IsFiniteSet(ActiveJobs)
    /\ Cardinality(ActiveJobs) + Cardinality(Counting) <= MaxConcurrent + Excess
    /\ \A l \in Library :
          Cardinality(ActiveIn(l)) + Cardinality(CountingFor(l)) <= Cap(l) + Excess

-----------------------------------------------------------------------------
(* Facts about cardinalities.                                                *)

\* The limits are positive numbers.
LEMMA LimitTypes ==
    /\ MaxConcurrent \in Nat /\ MaxConcurrent > 0
    /\ \A l \in Library : Cap(l) \in Nat /\ Cap(l) > 0
    /\ Cardinality(Worker) \in Nat
<1>1. Cardinality(Worker) \in Nat
  BY QueueAssumption, FS_CardinalityType
<1> QED
  BY <1>1, QueueAssumption DEF Cap

\* The sets that CapInv measures are finite.
LEMMA FiniteCounts ==
    ASSUME IsFiniteSet(ActiveJobs)
    PROVE  /\ Cardinality(ActiveJobs) \in Nat
           /\ IsFiniteSet(Counting) /\ Cardinality(Counting) \in Nat
           /\ Cardinality(Counting) <= Cardinality(Worker)
           /\ \A l \in Library :
                 /\ IsFiniteSet(ActiveIn(l)) /\ Cardinality(ActiveIn(l)) \in Nat
                 /\ IsFiniteSet(CountingFor(l)) /\ Cardinality(CountingFor(l)) \in Nat
                 /\ Cardinality(CountingFor(l)) <= Cardinality(Worker)
<1>1. ASSUME NEW S, IsFiniteSet(S), NEW T \in SUBSET S
      PROVE  IsFiniteSet(T) /\ Cardinality(T) \in Nat /\ Cardinality(T) <= Cardinality(S)
  BY <1>1, FS_Subset, FS_CardinalityType
<1>2. Counting \in SUBSET Worker /\ \A l \in Library : CountingFor(l) \in SUBSET Worker
  BY DEF Counting, CountingFor
<1>3. \A l \in Library : ActiveIn(l) \in SUBSET ActiveJobs
  BY DEF ActiveIn
<1>4. IsFiniteSet(Worker)
  BY QueueAssumption
<1> QED
  BY <1>1, <1>2, <1>3, <1>4, FS_CardinalityType

\* One more element counts for one at most.
LEMMA OneMore ==
    ASSUME NEW S, IsFiniteSet(S), NEW x
    PROVE  /\ IsFiniteSet(S \cup {x})
           /\ Cardinality(S \cup {x}) \in Nat
           /\ Cardinality(S \cup {x}) <= Cardinality(S) + 1
<1>1. IsFiniteSet(S \cup {x}) /\ Cardinality(S) \in Nat
  BY FS_AddElement, FS_CardinalityType
<1>2. Cardinality(S \cup {x}) = IF x \in S THEN Cardinality(S) ELSE Cardinality(S) + 1
  BY FS_AddElement
<1> QED
  BY <1>1, <1>2

-----------------------------------------------------------------------------
(* Steps.                                                                    *)

\* A step that makes no row active and gives no worker a new count.
LEMMA CapFrame ==
    ASSUME CapInv,
           \A j \in Job : status'[j] \in Active => status[j] \in Active,
           \A w \in Worker : eligible'[w] \subseteq eligible[w]
    PROVE  CapInv'
<1>1. ActiveJobs' \in SUBSET ActiveJobs /\ \A l \in Library : ActiveIn(l)' \in SUBSET ActiveIn(l)
  BY DEF ActiveJobs, ActiveIn
<1>2. Counting' \in SUBSET Counting /\ \A l \in Library : CountingFor(l)' \in SUBSET CountingFor(l)
  BY DEF Counting, CountingFor
<1>3. IsFiniteSet(ActiveJobs) /\ IsFiniteSet(ActiveJobs')
  BY <1>1, FS_Subset DEF CapInv
<1>4. /\ Cardinality(ActiveJobs') \in Nat /\ Cardinality(ActiveJobs') <= Cardinality(ActiveJobs)
      /\ Cardinality(Counting') \in Nat /\ Cardinality(Counting') <= Cardinality(Counting)
  BY <1>1, <1>2, <1>3, FiniteCounts, FS_Subset, FS_CardinalityType
<1>5. ASSUME NEW l \in Library
      PROVE  /\ Cardinality(ActiveIn(l)') \in Nat
             /\ Cardinality(ActiveIn(l)') <= Cardinality(ActiveIn(l))
             /\ Cardinality(CountingFor(l)') \in Nat
             /\ Cardinality(CountingFor(l)') <= Cardinality(CountingFor(l))
  BY <1>1, <1>2, <1>3, FiniteCounts, FS_Subset, FS_CardinalityType
<1>6. (Cardinality(ActiveJobs) + Cardinality(Counting) <= MaxConcurrent + Excess)'
  BY <1>3, <1>4, FiniteCounts, LimitTypes DEF CapInv, Excess
<1>7. ASSUME NEW l \in Library
      PROVE  (Cardinality(ActiveIn(l)) + Cardinality(CountingFor(l)) <= Cap(l) + Excess)'
  BY <1>3, <1>5, FiniteCounts, LimitTypes DEF CapInv, Excess, Cap
<1> QED
  BY <1>3, <1>6, <1>7 DEF CapInv

\* Count: its own count leaves room for one row, whatever the others counted.
LEMMA CapCount ==
    ASSUME CapInv, TypeOK, NEW w \in Worker, Count(w)
    PROVE  CapInv'
<1>1. ActiveJobs' = ActiveJobs /\ \A l \in Library : ActiveIn(l)' = ActiveIn(l)
  BY DEF Count, ActiveJobs, ActiveIn
<1>2. IsFiniteSet(ActiveJobs) /\ IsFiniteSet(ActiveJobs')
  BY <1>1 DEF CapInv
<1>3. /\ Cardinality(Counting)' \in Nat /\ Cardinality(Counting)' <= Cardinality(Worker)
      /\ \A l \in Library :
            /\ Cardinality(CountingFor(l)') \in Nat
            /\ Cardinality(CountingFor(l)') <= Cardinality(Worker)
  <2>1. Counting' \in SUBSET Worker /\ \A l \in Library : CountingFor(l)' \in SUBSET Worker
    BY DEF Counting, CountingFor
  <2> QED
    BY <2>1, QueueAssumption, FS_Subset, FS_CardinalityType
<1>4. (Cardinality(ActiveJobs) + Cardinality(Counting) <= MaxConcurrent + Excess)'
  <2>1. Cardinality(ActiveJobs) < MaxConcurrent
    BY DEF Count
  <2> QED
    BY <1>1, <1>2, <1>3, <2>1, FiniteCounts, LimitTypes DEF Excess
<1>5. ASSUME NEW l \in Library
      PROVE  (Cardinality(ActiveIn(l)) + Cardinality(CountingFor(l)) <= Cap(l) + Excess)'
  <2>1. CASE l \in Enabled /\ Cardinality(ActiveIn(l)) < Cap(l)
    BY <1>1, <1>2, <1>3, <2>1, FiniteCounts, LimitTypes DEF Excess, Cap
  <2>2. CASE ~ (l \in Enabled /\ Cardinality(ActiveIn(l)) < Cap(l))
    <3>1. l \notin eligible'[w] /\ \A v \in Worker \ {w} : eligible'[v] = eligible[v]
      BY <2>2 DEF Count, TypeOK
    <3>2. CountingFor(l)' \in SUBSET CountingFor(l)
      BY <3>1 DEF CountingFor
    <3>3. Cardinality(CountingFor(l)') <= Cardinality(CountingFor(l))
      BY <1>2, <3>2, FiniteCounts, FS_Subset
    <3> QED
      BY <1>1, <1>2, <1>3, <3>3, FiniteCounts, LimitTypes DEF CapInv, Excess, Cap
  <2> QED
    BY <2>1, <2>2
<1> QED
  BY <1>2, <1>4, <1>5 DEF CapInv

\* Claim: the worker spends its count on the row.
LEMMA CapClaim ==
    ASSUME CapInv, TypeOK, NEW w \in Worker, NEW r \in Runner, NEW j \in Job, Claim(w, r, j)
    PROVE  CapInv'
<1> USE DEF TypeOK, TableTypeOK
<1>0. IsFiniteSet(ActiveJobs)
  BY DEF CapInv
<1>1. LibOf[j] \in eligible[w] /\ LibOf[j] \in Library /\ eligible[w] # {}
  BY TableAssumption DEF Claim, ClaimRow, Claimable
<1>2. ActiveJobs' = ActiveJobs \cup {j}
  BY DEF Claim, ClaimRow, Claimable, ActiveJobs
<1>3. Counting' = Counting \ {w} /\ w \in Counting
  BY <1>1 DEF Claim, Counting
<1>4. /\ IsFiniteSet(ActiveJobs')
      /\ Cardinality(ActiveJobs') \in Nat
      /\ Cardinality(ActiveJobs') <= Cardinality(ActiveJobs) + 1
  BY <1>0, <1>2, OneMore
<1>5. Cardinality(Counting') = Cardinality(Counting) - 1
  BY <1>0, <1>3, FiniteCounts, FS_RemoveElement
<1>6. (Cardinality(ActiveJobs) + Cardinality(Counting) <= MaxConcurrent + Excess)'
  BY <1>0, <1>4, <1>5, FiniteCounts, LimitTypes DEF CapInv, Excess
<1>7. ASSUME NEW l \in Library
      PROVE  (Cardinality(ActiveIn(l)) + Cardinality(CountingFor(l)) <= Cap(l) + Excess)'
  <2>1. CASE l = LibOf[j]
    <3>1. ActiveIn(l)' = ActiveIn(l) \cup {j}
      BY <1>2, <2>1 DEF ActiveIn
    <3>2. CountingFor(l)' = CountingFor(l) \ {w} /\ w \in CountingFor(l)
      BY <1>1, <2>1 DEF Claim, CountingFor
    <3>3. /\ Cardinality(ActiveIn(l)') \in Nat
          /\ Cardinality(ActiveIn(l)') <= Cardinality(ActiveIn(l)) + 1
      BY <1>0, <3>1, FiniteCounts, OneMore
    <3>4. Cardinality(CountingFor(l)') = Cardinality(CountingFor(l)) - 1
      BY <1>0, <3>2, FiniteCounts, FS_RemoveElement
    <3> QED
      BY <1>0, <3>3, <3>4, FiniteCounts, LimitTypes DEF CapInv, Excess, Cap
  <2>2. CASE l # LibOf[j]
    <3>1. ActiveIn(l)' = ActiveIn(l)
      BY <1>2, <2>2 DEF ActiveIn
    <3>2. CountingFor(l)' \in SUBSET CountingFor(l)
      BY DEF Claim, CountingFor
    <3>3. /\ Cardinality(CountingFor(l)') \in Nat
          /\ Cardinality(CountingFor(l)') <= Cardinality(CountingFor(l))
      BY <1>0, <3>2, FiniteCounts, FS_Subset, FS_CardinalityType
    <3> QED
      BY <1>0, <3>1, <3>3, FiniteCounts, LimitTypes DEF CapInv, Excess, Cap
  <2> QED
    BY <2>1, <2>2
<1> QED
  BY <1>4, <1>6, <1>7 DEF CapInv

\* No other step makes a row active or renews a count.  A goroutine sets its
\* row to running, which is active already because it owns it.
LEMMA CapStep ==
    ASSUME Disciplined, DisciplinedInv, CapInv, [Next]_vars
    PROVE  CapInv'
<1>0. TypeOK
  BY DEF DisciplinedInv
<1> USE <1>0 DEF TypeOK, TableTypeOK
<1>1. ASSUME NEW r \in Runner, RunnerStep(r)
      PROVE  CapInv'
  <2>1. phase[r] # "none" /\ eligible' = eligible
    BY <1>1 DEF RunnerStep, Start, Progress, CancelSeen, FfmpegFails, EncodeFails, FfmpegSucceeds,
       SwapCopies, SwapInstalls, RetireOriginal, Finish, Interrupt, Kill, KillDue, Goto, Leave
  <2>2. runs[r] \in Job /\ status[runs[r]] \in Active
    BY <2>1, OwnedRow
  <2>3. status' = status \/ \E st \in Phase \cup RowStatus : SetStatus(runs[r], st)
    BY <1>1 DEF RunnerStep, Start, Progress, CancelSeen, FfmpegFails, FfmpegSucceeds,
       SwapCopies, SwapInstalls, RetireOriginal, Finish, Interrupt, Kill, TouchRow
  <2>4. \A j \in Job : status'[j] \in Active => status[j] \in Active
    BY <2>2, <2>3 DEF SetStatus
  <2> QED
    BY <2>1, <2>4, CapFrame
<1>2. ASSUME NEW w \in Worker, WorkerStep(w)
      PROVE  CapInv'
  <2>1. ASSUME NEW r \in Runner, NEW j \in Job, Claim(w, r, j)
        PROVE  CapInv'
    BY <2>1, CapClaim
  <2>2. CASE Count(w)
    BY <2>2, CapCount
  <2>3. CASE ClaimNothing(w)
    BY <2>3, CapFrame DEF ClaimNothing
  <2>4. CASE MarkStale(w)
    BY <2>4, CapFrame DEF MarkStale, MarkStaleRows
  <2>5. CASE Crash(w)
    BY <2>5, CapFrame DEF Crash
  <2>6. CASE Restart(w)
    BY <2>6, CapFrame DEF Restart, ReclaimRows
  <2>7. CASE Stop(w)
    BY <2>7, CapFrame DEF Stop
  <2>8. CASE Exit(w)
    BY <2>8, CapFrame DEF Exit
  <2> QED
    BY <1>2, <2>1, <2>2, <2>3, <2>4, <2>5, <2>6, <2>7, <2>8 DEF WorkerStep
<1>3. ASSUME NEW j \in Job, JobStep(j)
      PROVE  CapInv'
  <2>1. eligible' = eligible
    BY <1>3 DEF JobStep, AddJob, Retry, EnqueueKnown, RequeueRead, CancelPending,
       CancelMisses, CancelFlags, CancelRefused, Delete, Age, MaintStat, MaintFail
  <2>2. \A k \in Job : status'[k] \in Active => status[k] \in Active
    BY <1>3 DEF JobStep, AddJob, InsertRow, Retry, EnqueueKnown, RequeueRead, Requeue,
       RequeueRow, CancelPending, CancelPendingRow, CancelMisses, CancelFlags,
       FlagActiveRow, CancelRefused, Delete, DeleteRow, Age, MaintStat, MaintFail, SetStatus
  <2> QED
    BY <2>1, <2>2, CapFrame
<1>4. CASE \/ \E st \in {"failed", "skipped"} : BulkSelect(st)
           \/ \E f \in File : Vanish(f)
           \/ MaintList
           \/ UNCHANGED vars
  <2>1. status' = status /\ eligible' = eligible
    BY <1>4 DEF BulkSelect, Vanish, MaintList
  <2> QED
    BY <2>1, CapFrame
<1> QED
  BY <1>1, <1>2, <1>3, <1>4 DEF Next

LEMMA CapInit == Init => CapInv
<1> SUFFICES ASSUME Init PROVE CapInv
  OBVIOUS
<1>1. ActiveJobs = {} /\ \A l \in Library : ActiveIn(l) = {}
  BY DEF Init, TableInit, ActiveJobs, ActiveIn
<1>2. Counting = {} /\ \A l \in Library : CountingFor(l) = {}
  BY DEF Init, Counting, CountingFor
<1> QED
  BY <1>1, <1>2, FS_EmptySet, LimitTypes DEF CapInv, Excess, Cap

LEMMA CapHolds ==
    ASSUME Disciplined PROVE Spec => []CapInv
<1>1. DisciplinedInv /\ CapInv /\ [Next]_vars => CapInv'
  BY CapStep
<1> QED
  BY <1>1, CapInit, DisciplinedInvHolds, PTL DEF Spec

-----------------------------------------------------------------------------
(* Theorems.                                                                 *)

\* In a disciplined environment, W workers that count before they claim exceed
\* max_concurrent, and the limit of a library, by W - 1 active rows at most; a
\* single worker never does.  The discipline is needed: a goroutine whose row
\* was requeued or failed under it may make the row active again uncounted.
THEOREM RowsObeyTheLimits ==
    ASSUME Disciplined PROVE Spec => []ActiveCap
<1>1. CapInv => ActiveCap
  <2> SUFFICES ASSUME CapInv PROVE ActiveCap
    OBVIOUS
  <2>1. IsFiniteSet(ActiveJobs)
    BY DEF CapInv
  <2> QED
    BY <2>1, FiniteCounts, LimitTypes DEF CapInv, ActiveCap, Excess, Cap
<1> QED
  BY <1>1, CapHolds, PTL

\* So do the ffmpeg processes, since each of them then has an active row of its
\* own.  Outside the discipline it has not: a stalled encode that was marked
\* stale goes on beside the one that takes its place.
THEOREM EncodesObeyTheLimit ==
    ASSUME Disciplined PROVE Spec => []ConcurrencyCap
<1>1. DisciplinedInv /\ CapInv => ConcurrencyCap
  <2> SUFFICES ASSUME DisciplinedInv, CapInv PROVE ConcurrencyCap
    OBVIOUS
  <2> DEFINE Busy == {r \in Runner : phase[r] \in Encoding}
             row == [r \in Busy |-> runs[r]]
  <2>1. ASSUME NEW r \in Busy
        PROVE  runs[r] \in ActiveJobs /\ RunnersOf(runs[r]) = {r}
    BY OwnedRow DEF ActiveJobs
  <2>2. ASSUME NEW r \in Busy, NEW q \in Busy, runs[r] = runs[q]
        PROVE  r = q
    BY <2>1, <2>2 DEF RunnersOf
  <2>3. row \in Injection(Busy, ActiveJobs)
    BY <2>1, <2>2 DEF Injection, IsInjective
  <2>4. IsFiniteSet(ActiveJobs)
    BY DEF CapInv
  <2>5. Cardinality(Busy) <= Cardinality(ActiveJobs) /\ IsFiniteSet(Busy)
    BY <2>3, <2>4, FS_Injection
  <2>6. Cardinality(Busy) \in Nat
    BY <2>5, FS_CardinalityType
  <2> QED
    BY <2>4, <2>5, <2>6, FiniteCounts, LimitTypes DEF CapInv, ConcurrencyCap, Excess
<1> QED
  BY <1>1, CapHolds, DisciplinedInvHolds, PTL

-----------------------------------------------------------------------------
(* Each worker's own share.                                                  *)

OwnIn(w, l) == OwnedActive(w) \cap ActiveIn(l)

\* The inductive form of OwnCap: a worker that has counted has room left, as
\* no other worker takes it.
OwnCapInv ==
    \A w \in Worker :
        /\ IsFiniteSet(OwnedActive(w))
        /\ Cardinality(OwnedActive(w)) <= MaxConcurrent
        /\ eligible[w] # {} => Cardinality(OwnedActive(w)) < MaxConcurrent
        /\ \A l \in Library :
              /\ Cardinality(OwnIn(w, l)) <= Cap(l)
              /\ l \in eligible[w] => Cardinality(OwnIn(w, l)) < Cap(l)

\* A subset of a finite set is finite and no larger.
LEMMA Smaller ==
    ASSUME NEW S, IsFiniteSet(S), NEW T \in SUBSET S
    PROVE  /\ IsFiniteSet(T)
           /\ Cardinality(S) \in Nat /\ Cardinality(T) \in Nat
           /\ Cardinality(T) <= Cardinality(S)
BY FS_Subset, FS_CardinalityType

\* A step that makes no row a worker's own and gives no worker a new count.
LEMMA OwnCapFrame ==
    ASSUME OwnCapInv,
           \A w \in Worker : OwnedActive(w)' \subseteq OwnedActive(w),
           \A w \in Worker : eligible'[w] \subseteq eligible[w]
    PROVE  OwnCapInv'
<1> SUFFICES ASSUME NEW w \in Worker
    PROVE  /\ IsFiniteSet(OwnedActive(w)')
           /\ Cardinality(OwnedActive(w)') <= MaxConcurrent
           /\ eligible'[w] # {} => Cardinality(OwnedActive(w)') < MaxConcurrent
           /\ \A l \in Library :
                 /\ Cardinality(OwnIn(w, l)') <= Cap(l)
                 /\ l \in eligible'[w] => Cardinality(OwnIn(w, l)') < Cap(l)
  BY DEF OwnCapInv, Cap
<1>1. /\ IsFiniteSet(OwnedActive(w)')
      /\ Cardinality(OwnedActive(w)) \in Nat /\ Cardinality(OwnedActive(w)') \in Nat
      /\ Cardinality(OwnedActive(w)') <= Cardinality(OwnedActive(w))
  BY Smaller DEF OwnCapInv
<1>2. ASSUME NEW l \in Library
      PROVE  /\ Cardinality(OwnIn(w, l)) \in Nat /\ Cardinality(OwnIn(w, l)') \in Nat
             /\ Cardinality(OwnIn(w, l)') <= Cardinality(OwnIn(w, l))
  <2>1. OwnIn(w, l) \in SUBSET OwnedActive(w) /\ OwnIn(w, l)' \in SUBSET OwnIn(w, l)
    BY DEF OwnIn, ActiveIn, ActiveJobs, OwnedActive
  <2>2. IsFiniteSet(OwnIn(w, l))
    BY <2>1, Smaller DEF OwnCapInv
  <2> QED
    BY <2>1, <2>2, Smaller
<1> QED
  BY <1>1, <1>2, LimitTypes DEF OwnCapInv

\* Count: the worker's own rows are among those it counts.
LEMMA OwnCapCount ==
    ASSUME CapInv, OwnCapInv, TypeOK, NEW w \in Worker, Count(w)
    PROVE  OwnCapInv'
<1>0. \A v \in Worker :
         /\ OwnedActive(v)' = OwnedActive(v)
         /\ \A l \in Library : OwnIn(v, l)' = OwnIn(v, l)
  BY DEF Count, OwnedActive, OwnIn, ActiveIn, ActiveJobs
<1> SUFFICES ASSUME NEW v \in Worker
    PROVE  /\ IsFiniteSet(OwnedActive(v))
           /\ Cardinality(OwnedActive(v)) <= MaxConcurrent
           /\ eligible'[v] # {} => Cardinality(OwnedActive(v)) < MaxConcurrent
           /\ \A l \in Library :
                 /\ Cardinality(OwnIn(v, l)) <= Cap(l)
                 /\ l \in eligible'[v] => Cardinality(OwnIn(v, l)) < Cap(l)
  BY <1>0 DEF OwnCapInv, Cap
<1>1. CASE v # w
  BY <1>1 DEF OwnCapInv, Count, TypeOK
<1>2. CASE v = w
  <2>1. Cardinality(OwnedActive(v)) <= Cardinality(ActiveJobs)
    BY Smaller DEF CapInv, OwnedActive, ActiveJobs
  <2>2. ASSUME NEW l \in Library
        PROVE  Cardinality(OwnIn(v, l)) <= Cardinality(ActiveIn(l))
    BY Smaller, FiniteCounts DEF CapInv, OwnIn
  <2>3. ASSUME NEW l \in Library, l \in eligible'[v]
        PROVE  Cardinality(ActiveIn(l)) < Cap(l)
    BY <1>2, <2>3 DEF Count, TypeOK
  <2>4. /\ Cardinality(OwnedActive(v)) \in Nat
        /\ \A l \in Library : Cardinality(OwnIn(v, l)) \in Nat
    BY Smaller, FS_CardinalityType DEF OwnCapInv, OwnIn
  <2>5. Cardinality(ActiveJobs) < MaxConcurrent
    BY DEF Count
  <2> QED
    BY <2>1, <2>2, <2>3, <2>4, <2>5, FiniteCounts, LimitTypes DEF CapInv, OwnCapInv
<1> QED
  BY <1>1, <1>2

\* Claim: the worker's share grows by the row it had room for; no other's does.
LEMMA OwnCapClaim ==
    ASSUME OwnCapInv, TypeOK, NEW w \in Worker, NEW r \in Runner, NEW j \in Job, Claim(w, r, j)
    PROVE  OwnCapInv'
<1> USE DEF TypeOK, TableTypeOK
<1>1. /\ LibOf[j] \in eligible[w] /\ LibOf[j] \in Library /\ eligible[w] # {}
      /\ eligible' = [eligible EXCEPT ![w] = {}]
      /\ status' = [status EXCEPT ![j] = "processing"]
      /\ owner' = [owner EXCEPT ![j] = w]
      /\ status[j] \notin Active
  BY TableAssumption DEF Claim, ClaimRow, Claimable
<1> SUFFICES ASSUME NEW v \in Worker
    PROVE  /\ IsFiniteSet(OwnedActive(v)')
           /\ Cardinality(OwnedActive(v)') <= MaxConcurrent
           /\ eligible'[v] # {} => Cardinality(OwnedActive(v)') < MaxConcurrent
           /\ \A l \in Library :
                 /\ Cardinality(OwnIn(v, l)') <= Cap(l)
                 /\ l \in eligible'[v] => Cardinality(OwnIn(v, l)') < Cap(l)
  BY DEF OwnCapInv, Cap
<1>2. CASE v # w
  <2>1. OwnedActive(v)' = OwnedActive(v)
    BY <1>1, <1>2 DEF OwnedActive
  <2>2. ASSUME NEW l \in Library PROVE OwnIn(v, l)' = OwnIn(v, l)
    BY <1>1, <2>1 DEF OwnIn, ActiveIn, ActiveJobs, OwnedActive
  <2>3. eligible'[v] = eligible[v]
    BY <1>1, <1>2
  <2> QED
    BY <2>1, <2>2, <2>3 DEF OwnCapInv
<1>3. CASE v = w
  <2>1. OwnedActive(v)' = OwnedActive(v) \cup {j}
    BY <1>1, <1>3 DEF OwnedActive
  <2>2. IsFiniteSet(OwnedActive(v)) /\ Cardinality(OwnedActive(v)) \in Nat
    BY FS_CardinalityType DEF OwnCapInv
  <2>3. /\ IsFiniteSet(OwnedActive(v)')
        /\ Cardinality(OwnedActive(v)') \in Nat
        /\ Cardinality(OwnedActive(v)') <= Cardinality(OwnedActive(v)) + 1
    <3>1. /\ IsFiniteSet(OwnedActive(v) \cup {j})
          /\ Cardinality(OwnedActive(v) \cup {j}) \in Nat
          /\ Cardinality(OwnedActive(v) \cup {j}) <= Cardinality(OwnedActive(v)) + 1
      BY <2>2, OneMore
    <3> QED
      BY <2>1, <3>1
  <2>4. Cardinality(OwnedActive(v)') <= MaxConcurrent
    BY <1>1, <1>3, <2>2, <2>3, LimitTypes DEF OwnCapInv
  <2>5. ASSUME NEW l \in Library PROVE Cardinality(OwnIn(v, l)') <= Cap(l)
    <3>1. IsFiniteSet(OwnIn(v, l)) /\ Cardinality(OwnIn(v, l)) \in Nat
      BY <2>2, Smaller DEF OwnIn
    <3>2. CASE l # LibOf[j]
      <4>1. OwnIn(v, l)' = OwnIn(v, l)
        BY <1>1, <2>1, <3>2 DEF OwnIn, ActiveIn, ActiveJobs
      <4> QED
        BY <4>1 DEF OwnCapInv
    <3>3. CASE l = LibOf[j]
      <4>1. OwnIn(v, l)' = OwnIn(v, l) \cup {j}
        BY <1>1, <2>1, <3>3 DEF OwnIn, ActiveIn, ActiveJobs, OwnedActive
      <4>2. /\ Cardinality(OwnIn(v, l)') \in Nat
            /\ Cardinality(OwnIn(v, l)') <= Cardinality(OwnIn(v, l)) + 1
        BY <3>1, <4>1, OneMore
      <4> QED
        BY <1>1, <1>3, <3>1, <3>3, <4>2, LimitTypes DEF OwnCapInv
    <3> QED
      BY <3>2, <3>3
  <2> QED
    BY <1>1, <1>3, <2>3, <2>4, <2>5
<1> QED
  BY <1>2, <1>3

\* No other step gives a worker an active row, or renews a count.
LEMMA OwnCapStep ==
    ASSUME Disciplined, DisciplinedInv, CapInv, OwnCapInv, [Next]_vars
    PROVE  OwnCapInv'
<1>0. TypeOK
  BY DEF DisciplinedInv
<1> USE <1>0 DEF TypeOK, TableTypeOK
<1> DEFINE NoGain == /\ \A j \in Job : status'[j] \in Active => status[j] \in Active
                     /\ \A j \in Job : status'[j] \in Active => owner'[j] \in {owner[j], NoWorker}
                     /\ \A w \in Worker : eligible'[w] \subseteq eligible[w]
<1>1. NoGain => OwnCapInv'
  <2> SUFFICES ASSUME NoGain PROVE OwnCapInv'
    OBVIOUS
  <2>1. \A w \in Worker : OwnedActive(w)' \subseteq OwnedActive(w)
    BY TableAssumption DEF OwnedActive
  <2> QED
    BY <2>1, OwnCapFrame
<1> HIDE DEF NoGain
<1>2. ASSUME NEW r \in Runner, RunnerStep(r)
      PROVE  NoGain
  <2>1. phase[r] # "none" /\ eligible' = eligible
    BY <1>2 DEF RunnerStep, Start, Progress, CancelSeen, FfmpegFails, EncodeFails, FfmpegSucceeds,
       SwapCopies, SwapInstalls, RetireOriginal, Finish, Interrupt, Kill, KillDue, Goto, Leave
  <2>2. runs[r] \in Job /\ status[runs[r]] \in Active
    BY <2>1, OwnedRow
  <2>3. \/ status' = status /\ owner' = owner
        \/ \E st \in Phase \cup RowStatus : SetStatus(runs[r], st)
    BY <1>2 DEF RunnerStep, Start, Progress, CancelSeen, FfmpegFails, FfmpegSucceeds,
       SwapCopies, SwapInstalls, RetireOriginal, Finish, Interrupt, Kill, TouchRow
  <2> QED
    BY <2>1, <2>2, <2>3 DEF SetStatus, NoGain
<1>3. ASSUME NEW w \in Worker, WorkerStep(w)
      PROVE  OwnCapInv'
  <2>1. ASSUME NEW r \in Runner, NEW j \in Job, Claim(w, r, j)
        PROVE  OwnCapInv'
    BY <2>1, OwnCapClaim
  <2>2. CASE Count(w)
    BY <2>2, OwnCapCount
  <2>3. CASE ClaimNothing(w) \/ MarkStale(w) \/ Crash(w) \/ Restart(w) \/ Stop(w) \/ Exit(w)
    BY <1>1, <2>3 DEF ClaimNothing, MarkStale, MarkStaleRows, Crash, Restart, ReclaimRows,
       Stop, Exit, NoGain
  <2> QED
    BY <1>3, <2>1, <2>2, <2>3 DEF WorkerStep
<1>4. ASSUME NEW j \in Job, JobStep(j)
      PROVE  NoGain
  <2>1. eligible' = eligible
    BY <1>4 DEF JobStep, AddJob, Retry, EnqueueKnown, RequeueRead, CancelPending,
       CancelMisses, CancelFlags, CancelRefused, Delete, Age, MaintStat, MaintFail
  <2>2. \A k \in Job : status'[k] \in Active => status[k] \in Active
    BY <1>4 DEF JobStep, AddJob, InsertRow, Retry, EnqueueKnown, RequeueRead, Requeue,
       RequeueRow, CancelPending, CancelPendingRow, CancelMisses, CancelFlags,
       FlagActiveRow, CancelRefused, Delete, DeleteRow, Age, MaintStat, MaintFail, SetStatus
  <2>3. owner' = owner \/ owner' = [owner EXCEPT ![j] = NoWorker]
    BY <1>4 DEF JobStep, AddJob, InsertRow, Retry, EnqueueKnown, RequeueRead, Requeue,
       RequeueRow, CancelPending, CancelPendingRow, CancelMisses, CancelFlags,
       FlagActiveRow, CancelRefused, Delete, DeleteRow, Age, MaintStat, MaintFail, SetStatus
  <2> QED
    BY <2>1, <2>2, <2>3 DEF NoGain
<1>5. CASE \/ \E st \in {"failed", "skipped"} : BulkSelect(st)
           \/ \E f \in File : Vanish(f)
           \/ MaintList
           \/ UNCHANGED vars
  BY <1>1, <1>5 DEF BulkSelect, Vanish, MaintList, NoGain
<1> QED
  BY <1>1, <1>2, <1>3, <1>4, <1>5 DEF Next

LEMMA OwnCapInit == Init => OwnCapInv
<1> SUFFICES ASSUME Init, NEW w \in Worker
    PROVE  /\ OwnedActive(w) = {} /\ eligible[w] = {}
           /\ \A l \in Library : OwnIn(w, l) = {}
  BY FS_EmptySet, LimitTypes DEF OwnCapInv
<1> QED
  BY DEF Init, TableInit, OwnedActive, OwnIn

\* In a disciplined environment a worker never has more active rows of its own
\* than max_concurrent, nor more in a library than its limit, however many
\* workers there are.
THEOREM OwnRowsObeyTheLimits ==
    ASSUME Disciplined PROVE Spec => []OwnCap
<1>1. DisciplinedInv /\ CapInv /\ OwnCapInv /\ [Next]_vars => OwnCapInv'
  BY OwnCapStep
<1>2. OwnCapInv => OwnCap
  BY DEF OwnCapInv, OwnCap, OwnIn
<1> QED
  BY <1>1, <1>2, OwnCapInit, CapHolds, DisciplinedInvHolds, PTL DEF Spec

-----------------------------------------------------------------------------
(* The limits in any environment: claims that stand.                         *)

StandingIn(l) == {r \in lease : LibOf[runs[r]] = l}

\* The inductive form of ClaimCap.  The active rows are finite in number, so
\* that counting them bounds the claims, each of which has one of its own.
ClaimCapInv ==
    /\ IsFiniteSet(ActiveJobs)
    /\ IsFiniteSet(lease)
    /\ Cardinality(lease) + Cardinality(Counting) <= MaxConcurrent + Excess
    /\ \A l \in Library :
          Cardinality(StandingIn(l)) + Cardinality(CountingFor(l)) <= Cap(l) + Excess

\* The sets of claims that ClaimCapInv measures are finite.
LEMMA FiniteClaims ==
    ASSUME IsFiniteSet(lease)
    PROVE  /\ Cardinality(lease) \in Nat
           /\ \A l \in Library : IsFiniteSet(StandingIn(l)) /\ Cardinality(StandingIn(l)) \in Nat
<1>1. \A l \in Library : StandingIn(l) \in SUBSET lease
  BY DEF StandingIn
<1> QED
  BY <1>1, FS_Subset, FS_CardinalityType

\* A claim that stands has an active row of its own.
LEMMA ClaimsAreRows ==
    ASSUME ClaimIntegrity, IsFiniteSet(ActiveJobs)
    PROVE  /\ Cardinality(lease) <= Cardinality(ActiveJobs)
           /\ \A l \in Library : Cardinality(StandingIn(l)) <= Cardinality(ActiveIn(l))
<1>1. ASSUME NEW S \in SUBSET lease, NEW T, IsFiniteSet(T), \A r \in S : runs[r] \in T
      PROVE  Cardinality(S) <= Cardinality(T)
  <2> DEFINE row == [r \in S |-> runs[r]]
  <2>1. row \in Injection(S, T)
    BY <1>1 DEF ClaimIntegrity, Injection, IsInjective
  <2> QED
    BY <1>1, <2>1, FS_Injection
<1>2. lease \in SUBSET lease /\ \A r \in lease : runs[r] \in ActiveJobs
  BY DEF ClaimIntegrity, ActiveJobs
<1>3. ASSUME NEW l \in Library
      PROVE  /\ StandingIn(l) \in SUBSET lease /\ IsFiniteSet(ActiveIn(l))
             /\ \A r \in StandingIn(l) : runs[r] \in ActiveIn(l)
  BY <1>2, FiniteCounts DEF StandingIn, ActiveIn
<1> QED
  BY <1>1, <1>2, <1>3

\* A step that makes no claim, no count, and at most one row active.
LEMMA ClaimCapFrame ==
    ASSUME ClaimCapInv,
           NEW j, ActiveJobs' \subseteq ActiveJobs \cup {j},
           lease' \subseteq lease, \A r \in lease' : runs'[r] = runs[r],
           \A w \in Worker : eligible'[w] \subseteq eligible[w]
    PROVE  ClaimCapInv'
<1>1. IsFiniteSet(ActiveJobs')
  <2>1. IsFiniteSet(ActiveJobs \cup {j})
    BY OneMore DEF ClaimCapInv
  <2> QED
    BY <2>1, FS_Subset
<1>2. /\ IsFiniteSet(lease) /\ IsFiniteSet(lease')
      /\ Cardinality(lease) \in Nat /\ Cardinality(lease') \in Nat
      /\ Cardinality(lease') <= Cardinality(lease)
  BY FS_Subset, FS_CardinalityType DEF ClaimCapInv
<1>3. Counting' \in SUBSET Counting /\ \A l \in Library : CountingFor(l)' \in SUBSET CountingFor(l)
  BY DEF Counting, CountingFor
<1>4. /\ Cardinality(Counting) \in Nat /\ Cardinality(Counting') \in Nat
      /\ Cardinality(Counting') <= Cardinality(Counting)
  BY <1>3, FiniteCounts, FS_Subset, FS_CardinalityType DEF ClaimCapInv
<1>5. ASSUME NEW l \in Library
      PROVE  (Cardinality(StandingIn(l)) + Cardinality(CountingFor(l)) <= Cap(l) + Excess)'
  <2>1. StandingIn(l)' \in SUBSET StandingIn(l)
    BY DEF StandingIn
  <2>2. /\ Cardinality(StandingIn(l)) \in Nat /\ Cardinality(StandingIn(l)') \in Nat
        /\ Cardinality(StandingIn(l)') <= Cardinality(StandingIn(l))
    BY <1>2, <2>1, FiniteClaims, FS_Subset, FS_CardinalityType
  <2>3. /\ Cardinality(CountingFor(l)) \in Nat /\ Cardinality(CountingFor(l)') \in Nat
        /\ Cardinality(CountingFor(l)') <= Cardinality(CountingFor(l))
    BY <1>3, FiniteCounts, FS_Subset, FS_CardinalityType DEF ClaimCapInv
  <2> QED
    BY <2>2, <2>3, LimitTypes DEF ClaimCapInv, Excess, Cap
<1>6. (Cardinality(lease) + Cardinality(Counting) <= MaxConcurrent + Excess)'
  BY <1>2, <1>4, LimitTypes DEF ClaimCapInv, Excess
<1> QED
  BY <1>1, <1>2, <1>5, <1>6 DEF ClaimCapInv

\* Count: the rows it counts are no fewer than the claims that stand.
LEMMA ClaimCapCount ==
    ASSUME ClaimCapInv, ClaimIntegrity, TypeOK, NEW w \in Worker, Count(w)
    PROVE  ClaimCapInv'
<1>1. /\ ActiveJobs' = ActiveJobs /\ lease' = lease
      /\ \A l \in Library : StandingIn(l)' = StandingIn(l)
  BY DEF Count, ActiveJobs, StandingIn
<1>2. /\ IsFiniteSet(ActiveJobs) /\ IsFiniteSet(lease)
      /\ Cardinality(lease) \in Nat /\ Cardinality(ActiveJobs) \in Nat
      /\ Cardinality(lease) <= Cardinality(ActiveJobs)
  BY ClaimsAreRows, FiniteClaims, FiniteCounts DEF ClaimCapInv
<1>3. /\ Cardinality(Counting)' \in Nat /\ Cardinality(Counting)' <= Cardinality(Worker)
      /\ \A l \in Library :
            /\ Cardinality(CountingFor(l)') \in Nat
            /\ Cardinality(CountingFor(l)') <= Cardinality(Worker)
  <2>1. Counting' \in SUBSET Worker /\ \A l \in Library : CountingFor(l)' \in SUBSET Worker
    BY DEF Counting, CountingFor
  <2> QED
    BY <2>1, QueueAssumption, FS_Subset, FS_CardinalityType
<1>4. (Cardinality(lease) + Cardinality(Counting) <= MaxConcurrent + Excess)'
  <2>1. Cardinality(ActiveJobs) < MaxConcurrent
    BY DEF Count
  <2> QED
    BY <1>1, <1>2, <1>3, <2>1, LimitTypes DEF Excess
<1>5. ASSUME NEW l \in Library
      PROVE  (Cardinality(StandingIn(l)) + Cardinality(CountingFor(l)) <= Cap(l) + Excess)'
  <2>1. /\ Cardinality(StandingIn(l)) \in Nat /\ Cardinality(ActiveIn(l)) \in Nat
        /\ Cardinality(StandingIn(l)) <= Cardinality(ActiveIn(l))
    BY <1>2, ClaimsAreRows, FiniteClaims, FiniteCounts
  <2>2. CASE l \in Enabled /\ Cardinality(ActiveIn(l)) < Cap(l)
    BY <1>1, <1>3, <2>1, <2>2, LimitTypes DEF Excess, Cap
  <2>3. CASE ~ (l \in Enabled /\ Cardinality(ActiveIn(l)) < Cap(l))
    <3>1. l \notin eligible'[w] /\ \A v \in Worker \ {w} : eligible'[v] = eligible[v]
      BY <2>3 DEF Count, TypeOK
    <3>2. CountingFor(l)' \in SUBSET CountingFor(l)
      BY <3>1 DEF CountingFor
    <3>3. Cardinality(CountingFor(l)') <= Cardinality(CountingFor(l))
      BY <1>2, <3>2, FiniteCounts, FS_Subset
    <3> QED
      BY <1>1, <1>2, <1>3, <2>1, <3>3, FiniteCounts, LimitTypes DEF ClaimCapInv, Excess, Cap
  <2> QED
    BY <2>2, <2>3
<1> QED
  BY <1>1, <1>2, <1>4, <1>5 DEF ClaimCapInv

\* Claim: the worker spends its count on the claim.
LEMMA ClaimCapClaim ==
    ASSUME ClaimCapInv, ClaimIntegrity, TypeOK,
           NEW w \in Worker, NEW r \in Runner, NEW j \in Job, Claim(w, r, j)
    PROVE  ClaimCapInv'
<1> USE DEF TypeOK, TableTypeOK
<1>0. IsFiniteSet(ActiveJobs) /\ IsFiniteSet(lease)
  BY DEF ClaimCapInv
<1>1. /\ LibOf[j] \in eligible[w] /\ LibOf[j] \in Library /\ eligible[w] # {}
      /\ eligible' = [eligible EXCEPT ![w] = {}]
      /\ lease' = lease \cup {r}
      /\ r \notin lease
      /\ \A q \in Runner : runs'[q] = IF q = r THEN j ELSE runs[q]
  BY QueueAssumption, TableAssumption DEF Claim, ClaimRow, Claimable, ClaimIntegrity
<1>2. ActiveJobs' \subseteq ActiveJobs \cup {j}
  BY DEF Claim, ClaimRow, Claimable, ActiveJobs
<1>3. IsFiniteSet(ActiveJobs')
  <2>1. IsFiniteSet(ActiveJobs \cup {j})
    BY <1>0, OneMore
  <2> QED
    BY <1>2, <2>1, FS_Subset
<1>4. /\ IsFiniteSet(lease \cup {r})
      /\ Cardinality(lease \cup {r}) \in Nat
      /\ Cardinality(lease \cup {r}) <= Cardinality(lease) + 1
  BY <1>0, OneMore
<1>5. /\ IsFiniteSet(lease') /\ Cardinality(lease') \in Nat
      /\ Cardinality(lease') <= Cardinality(lease) + 1
  BY <1>1, <1>4
<1>6. Counting' = Counting \ {w} /\ w \in Counting
  BY <1>1 DEF Counting
<1>7. Cardinality(Counting') = Cardinality(Counting) - 1
  BY <1>0, <1>6, FiniteCounts, FS_RemoveElement
<1>8. (Cardinality(lease) + Cardinality(Counting) <= MaxConcurrent + Excess)'
  BY <1>0, <1>5, <1>7, FiniteClaims, FiniteCounts, LimitTypes DEF ClaimCapInv, Excess
<1>9. ASSUME NEW l \in Library
      PROVE  (Cardinality(StandingIn(l)) + Cardinality(CountingFor(l)) <= Cap(l) + Excess)'
  <2>1. CASE l = LibOf[j]
    <3>1. StandingIn(l)' = StandingIn(l) \cup {r}
      BY <1>1, <2>1 DEF StandingIn
    <3>2. CountingFor(l)' = CountingFor(l) \ {w} /\ w \in CountingFor(l)
      BY <1>1, <2>1 DEF CountingFor
    <3>3. /\ Cardinality(StandingIn(l) \cup {r}) \in Nat
          /\ Cardinality(StandingIn(l) \cup {r}) <= Cardinality(StandingIn(l)) + 1
      BY <1>0, FiniteClaims, OneMore
    <3>4. Cardinality(CountingFor(l)') = Cardinality(CountingFor(l)) - 1
      BY <1>0, <3>2, FiniteCounts, FS_RemoveElement
    <3> QED
      BY <1>0, <3>1, <3>3, <3>4, FiniteClaims, FiniteCounts, LimitTypes DEF ClaimCapInv, Excess, Cap
  <2>2. CASE l # LibOf[j]
    <3>1. StandingIn(l)' = StandingIn(l)
      BY <1>1, <2>2 DEF StandingIn
    <3>2. CountingFor(l)' \in SUBSET CountingFor(l)
      BY <1>1 DEF CountingFor
    <3>3. /\ Cardinality(CountingFor(l)') \in Nat
          /\ Cardinality(CountingFor(l)') <= Cardinality(CountingFor(l))
      BY <1>0, <3>2, FiniteCounts, FS_Subset, FS_CardinalityType
    <3> QED
      BY <1>0, <3>1, <3>3, FiniteClaims, FiniteCounts, LimitTypes DEF ClaimCapInv, Excess, Cap
  <2> QED
    BY <2>1, <2>2
<1> QED
  BY <1>3, <1>5, <1>8, <1>9 DEF ClaimCapInv

\* Every other step only ends claims.  A goroutine that is set to running
\* may make its row active again, after its claim on it has been revoked.
LEMMA ClaimCapStep ==
    ASSUME ClaimCapInv, ClaimIntegrity, TypeOK, [Next]_vars
    PROVE  ClaimCapInv'
<1> USE DEF TypeOK, TableTypeOK
<1>1. ASSUME NEW r \in Runner, RunnerStep(r)
      PROVE  ClaimCapInv'
  <2>1. status' = status \/ \E st \in Phase \cup RowStatus : SetStatus(runs[r], st)
    BY <1>1 DEF RunnerStep, Start, Progress, CancelSeen, FfmpegFails, FfmpegSucceeds,
       SwapCopies, SwapInstalls, RetireOriginal, Finish, Interrupt, Kill, TouchRow
  <2>2. ActiveJobs' \subseteq ActiveJobs \cup {runs[r]}
    BY <2>1 DEF SetStatus, ActiveJobs
  <2>3. \/ runs' = runs /\ lease' = lease
        \/ Leave(r) /\ lease' = lease \ RunnersOf(runs[r])
    BY <1>1 DEF RunnerStep, Start, Progress, CancelSeen, FfmpegFails, EncodeFails, FfmpegSucceeds,
       SwapCopies, SwapInstalls, RetireOriginal, Finish, Interrupt, Kill, Goto
  <2>4. lease' \subseteq lease /\ \A q \in lease' : runs'[q] = runs[q]
    BY <2>3 DEF Leave, RunnersOf
  <2>5. eligible' = eligible
    BY <1>1 DEF RunnerStep, Start, Progress, CancelSeen, FfmpegFails, EncodeFails, FfmpegSucceeds,
       SwapCopies, SwapInstalls, RetireOriginal, Finish, Interrupt, Kill, Goto, Leave
  <2> QED
    BY <2>2, <2>4, <2>5, ClaimCapFrame
<1>2. ASSUME NEW w \in Worker, WorkerStep(w)
      PROVE  ClaimCapInv'
  <2>1. ASSUME NEW r \in Runner, NEW j \in Job, Claim(w, r, j)
        PROVE  ClaimCapInv'
    BY <2>1, ClaimCapClaim
  <2>2. CASE Count(w)
    BY <2>2, ClaimCapCount
  <2>3. CASE ClaimNothing(w) \/ MarkStale(w) \/ Restart(w) \/ Exit(w)
    <3>1. /\ ActiveJobs' \subseteq ActiveJobs \cup {NoJob}
          /\ lease' \subseteq lease /\ runs' = runs
      BY <2>3 DEF ClaimNothing, MarkStale, MarkStaleRows, Restart, ReclaimRows, Exit, ActiveJobs
    <3>2. \A v \in Worker : eligible'[v] \subseteq eligible[v]
      BY <2>3 DEF ClaimNothing, MarkStale, Restart, Exit
    <3> QED
      BY <3>1, <3>2, ClaimCapFrame
  <2>4. CASE Crash(w)
    <3>1. /\ ActiveJobs' \subseteq ActiveJobs \cup {NoJob}
          /\ lease' \subseteq lease /\ \A q \in lease' : runs'[q] = runs[q]
          /\ \A v \in Worker : eligible'[v] \subseteq eligible[v]
      BY <2>4 DEF Crash, RunnersIn, ActiveJobs
    <3> QED
      BY <3>1, ClaimCapFrame
  <2>5. CASE Stop(w)
    <3>1. /\ ActiveJobs' \subseteq ActiveJobs \cup {NoJob}
          /\ lease' \subseteq lease /\ \A q \in lease' : runs'[q] = runs[q]
          /\ \A v \in Worker : eligible'[v] \subseteq eligible[v]
      BY <2>5 DEF Stop, RunnersIn, ActiveJobs
    <3> QED
      BY <3>1, ClaimCapFrame
  <2> QED
    BY <1>2, <2>1, <2>2, <2>3, <2>4, <2>5 DEF WorkerStep
<1>3. ASSUME NEW j \in Job, JobStep(j)
      PROVE  ClaimCapInv'
  <2>1. runs' = runs /\ eligible' = eligible
    BY <1>3 DEF JobStep, AddJob, Retry, EnqueueKnown, RequeueRead, CancelPending,
       CancelMisses, CancelFlags, CancelRefused, Delete, Age, MaintStat, MaintFail
  <2>2. lease' \subseteq lease
    BY <1>3 DEF JobStep, AddJob, Retry, EnqueueKnown, RequeueRead, Requeue, CancelPending,
       CancelMisses, CancelFlags, CancelRefused, Delete, Age, MaintStat, MaintFail
  <2>3. \A k \in Job : status'[k] \in Active => status[k] \in Active
    BY <1>3 DEF JobStep, AddJob, InsertRow, Retry, EnqueueKnown, RequeueRead, Requeue,
       RequeueRow, CancelPending, CancelPendingRow, CancelMisses, CancelFlags,
       FlagActiveRow, CancelRefused, Delete, DeleteRow, Age, MaintStat, MaintFail, SetStatus
  <2>4. ActiveJobs' \subseteq ActiveJobs \cup {j}
    BY <2>3 DEF ActiveJobs
  <2> QED
    BY <2>1, <2>2, <2>4, ClaimCapFrame
<1>4. CASE \/ \E st \in {"failed", "skipped"} : BulkSelect(st)
           \/ \E f \in File : Vanish(f)
           \/ MaintList
           \/ UNCHANGED vars
  <2>1. /\ lease' = lease /\ runs' = runs /\ eligible' = eligible
        /\ ActiveJobs' \subseteq ActiveJobs \cup {NoJob}
    BY <1>4 DEF BulkSelect, Vanish, MaintList, ActiveJobs
  <2> QED
    BY <2>1, ClaimCapFrame
<1> QED
  BY <1>1, <1>2, <1>3, <1>4 DEF Next

LEMMA ClaimCapInit == Init => ClaimCapInv
<1> SUFFICES ASSUME Init PROVE ClaimCapInv
  OBVIOUS
<1>1. ActiveJobs = {} /\ lease = {} /\ \A l \in Library : StandingIn(l) = {}
  BY DEF Init, TableInit, ActiveJobs, StandingIn
<1>2. Counting = {} /\ \A l \in Library : CountingFor(l) = {}
  BY DEF Init, Counting, CountingFor
<1> QED
  BY <1>1, <1>2, FS_EmptySet, LimitTypes DEF ClaimCapInv, Excess, Cap

\* Whatever the environment does, W workers hold W - 1 standing claims above
\* max_concurrent at most, and as many above the limit of a library.
THEOREM ClaimsObeyTheLimits == Spec => []ClaimCap
<1>1. TypeOK /\ ClaimIntegrity /\ ClaimCapInv /\ [Next]_vars => ClaimCapInv'
  BY ClaimCapStep
<1>2. ClaimCapInv => ClaimCap
  <2> SUFFICES ASSUME ClaimCapInv PROVE ClaimCap
    OBVIOUS
  <2>1. ASSUME NEW l \in Library PROVE Cardinality(StandingIn(l)) <= Cap(l) + Excess
    BY FiniteClaims, FiniteCounts, LimitTypes DEF ClaimCapInv, Excess, Cap
  <2>2. Cardinality(lease) <= MaxConcurrent + Excess
    BY FiniteClaims, FiniteCounts, LimitTypes DEF ClaimCapInv, Excess
  <2> QED
    BY <2>1, <2>2 DEF ClaimCap, StandingIn
<1> QED
  BY <1>1, <1>2, ClaimCapInit, TypeCorrect, ClaimsAreExclusive, PTL DEF Spec
=============================================================================
