-------------------------- MODULE DispatcherProofs ---------------------------
(***************************************************************************)
(* Proofs about Dispatcher, for any number of slots, rows, rings and       *)
(* failures.  NoLostWakeup is inductive beside the type invariant: each of *)
(* the four things it assumes of a sleeping loop (no token, a pending row, *)
(* room, no pause) is made true only by a step that leaves a ring behind,  *)
(* or that the history variable `missed` notes.                            *)
(***************************************************************************)
EXTENDS Dispatcher, TLAPS

\* Every variable of the dispatcher keeps its type, and the rows their bound.
THEOREM DispatchTypeCorrect == Spec => []TypeOK
<1> USE DispatcherAssumption DEF DispatcherAssumption
<1>1. Init => TypeOK
  BY DEF Init, TypeOK
<1>2. TypeOK /\ [Next]_vars => TypeOK'
  <2> SUFFICES ASSUME TypeOK, [Next]_vars
               PROVE  TypeOK'
    OBVIOUS
  <2> USE DEF TypeOK, rows, rings, pausing, Fault, Wake, Fits
  <2>1. CASE DispatchStep
    BY <2>1 DEF DispatchStep, Check, CountRows, ClaimRow, DispatchFails, FallAsleep,
                WakeUp, Poll
  <2>2. CASE Enqueue \/ Tell \/ LoseNotice
    BY <2>2 DEF Enqueue, Tell, LoseNotice
  <2>3. CASE ScanAdds \/ ScanEnds
    BY <2>3 DEF ScanAdds, ScanEnds
  <2>4. CASE DropPending \/ Finish \/ RingAfterJob
    BY <2>4 DEF DropPending, Finish, RingAfterJob
  <2>5. CASE OthersClaim \/ OthersFinish \/ MarkStale
    BY <2>5 DEF OthersClaim, OthersFinish, MarkStale
  <2>6. CASE Pause \/ Resume
    BY <2>6 DEF Pause, Resume
  <2>7. CASE ControlReads \/ ControlMisreads \/ ControlApplies \/ ControlWakes
    BY <2>7 DEF ControlReads, ControlMisreads, ControlApplies, ControlWakes
  <2>8. CASE Restart
    BY <2>8 DEF Restart
  <2>9. CASE UNCHANGED vars
    BY <2>9 DEF vars
  <2> QED
    BY <2>1, <2>2, <2>3, <2>4, <2>5, <2>6, <2>7, <2>8, <2>9 DEF Next, TableStep, PauseStep
<1> QED
  BY <1>1, <1>2, PTL DEF Spec

\* The dispatch loop never sleeps through work unless a query failed, a notice
\* was lost, or the slot was freed by someone who does not ring.
THEOREM NeverSleepsThroughWork == Spec => []NoLostWakeup
<1>1. Init => NoLostWakeup
  BY DEF Init, NoLostWakeup
<1>2. TypeOK /\ NoLostWakeup /\ [Next]_vars => NoLostWakeup'
  <2> SUFFICES ASSUME TypeOK, NoLostWakeup, [Next]_vars
               PROVE  NoLostWakeup'
    OBVIOUS
  <2> USE DEF TypeOK, NoLostWakeup, Room, rows, rings, pausing, Wake
  <2>1. CASE Check \/ CountRows \/ ClaimRow
    \* The loop gives up only when it is paused, is full or finds no row.
    BY <2>1 DEF Check, CountRows, ClaimRow
  <2>2. CASE DispatchFails \/ FallAsleep \/ WakeUp \/ Poll
    BY <2>2 DEF DispatchFails, FallAsleep, WakeUp, Poll
  <2>3. CASE Enqueue \/ Tell \/ LoseNotice
    BY <2>3 DEF Enqueue, Tell, LoseNotice
  <2>4. CASE ScanAdds \/ ScanEnds
    BY <2>4 DEF ScanAdds, ScanEnds
  <2>5. CASE DropPending \/ Finish \/ RingAfterJob
    BY <2>5 DEF DropPending, Finish, RingAfterJob
  <2>6. CASE OthersClaim \/ OthersFinish \/ MarkStale
    BY <2>6, DispatcherAssumption DEF DispatcherAssumption, OthersClaim, OthersFinish, MarkStale
  <2>7. CASE Pause \/ Resume
    BY <2>7 DEF Pause, Resume
  <2>8. CASE ControlReads \/ ControlMisreads \/ ControlApplies \/ ControlWakes
    BY <2>8 DEF ControlReads, ControlMisreads, ControlApplies, ControlWakes
  <2>9. CASE Restart
    BY <2>9 DEF Restart
  <2>10. CASE UNCHANGED vars
    BY <2>10 DEF vars
  <2> QED
    BY <2>1, <2>2, <2>3, <2>4, <2>5, <2>6, <2>7, <2>8, <2>9, <2>10
       DEF Next, DispatchStep, TableStep, PauseStep
<1> QED
  BY <1>1, <1>2, DispatchTypeCorrect, PTL DEF Spec
=============================================================================
