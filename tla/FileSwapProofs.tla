---------------------------- MODULE FileSwapProofs ---------------------------
(* Theorems about FileSwap and their proofs, for every size of the original  *)
(* and every configuration in which one run at a time works on the file.     *)
EXTENDS FileSwap, TLAPS

USE DEF vars, Swapping, Retiring, Path

\* One run at a time: the discipline JobQueue proves of its encodes.
NoOverlap == \A s \in Setups : ~ s.overlap

\* At most one run is under way.
Solo ==
    /\ ~ setup.overlap
    /\ \A r, q \in Run : pc[r] # "idle" /\ pc[q] # "idle" => r = q

\* What is known about the run that is under way, stage by stage.
Sound(r) ==
    /\ pc[r] # "idle" => seen[r] \in Content
    /\ pc[r] \in {"probed", "encoding", "software", "encoded", "accepted"} => seen[r] = at["src"]
    /\ pc[r] \notin {"idle", "probed"} => input[r] = seen[r]
    /\ pc[r] = "encoded" => temp[r] \in OutputsOf(input[r])
    /\ pc[r] \in {"accepted"} \cup Swapping =>
          /\ temp[r] \in Content
          /\ temp[r].size < seen[r].size
          /\ temp[r].whole => seen[r].whole
          /\ judged => temp[r].whole /\ temp[r].shows # "short"
    /\ pc[r] \in {"accepted"} \cup Swapping \cup Retiring => (judged => seen[r].whole)
    /\ pc[r] \in Swapping \cup Retiring => at["bak"] = seen[r]
    /\ pc[r] \in Retiring =>
          /\ at[Final] \in Content
          /\ at[Final].size < at["bak"].size
          /\ judged => at[Final].whole

\* What is known about the library's files while every accepted output was
\* judged: none announces a short duration, and a complete copy is somewhere.
Safe ==
    judged => /\ \A p \in Path : at[p].shows # "short"
              /\ \E p \in Path : at[p].whole

SwapInv == TypeOK /\ Solo /\ (\A r \in Run : Sound(r)) /\ Safe

-----------------------------------------------------------------------------
(* Contents.                                                                 *)

\* A copy and an aged file are the same movie.
LEMMA CopyFacts ==
    ASSUME NEW c \in Content
    PROVE  /\ CopyOf(c) \in Content
           /\ CopyOf(c).size = c.size
           /\ CopyOf(c).whole = c.whole
           /\ CopyOf(c).shows = c.shows
BY DEF Content, CopyOf

\* What a failed copy leaves is a file, of a movie only where it is complete.
LEMMA LeftoverFacts ==
    ASSUME NEW c \in Content, NEW d \in LeftoversOf(c)
    PROVE  /\ d \in Content
           /\ d.mtime = "new"
           /\ d.shows \in {c.shows, "unknown"}
           /\ d.whole => c.whole /\ d.size = c.size
<1>1. CASE d \in PartsOf(c)
  BY <1>1 DEF PartsOf
<1>2. CASE d = CopyOf(c)
  <2>1. CopyOf(c).mtime = "new"
    BY DEF CopyOf, Content
  <2> QED
    BY <1>2, <2>1, CopyFacts
<1> QED
  BY <1>1, <1>2 DEF LeftoversOf

LEMMA AgedFacts ==
    ASSUME NEW c \in Content \cup {Nothing}
    PROVE  /\ Aged(c) \in Content \cup {Nothing}
           /\ Aged(c).size = c.size
           /\ Aged(c).whole = c.whole
           /\ Aged(c).shows = c.shows
           /\ Aged(c) = Nothing <=> c = Nothing
BY SwapAssumption DEF Content, Nothing, Aged

\* There is no file of size 0, and nothing is not a movie.
LEMMA NothingFacts ==
    /\ Nothing \notin Content
    /\ ~ Nothing.whole
    /\ Nothing.shows = "unknown"
    /\ \A c \in Content : c.size \in 1..MaxSize /\ c.whole \in BOOLEAN
BY SwapAssumption DEF Content, Nothing

-----------------------------------------------------------------------------
(* Types.                                                                    *)

\* Every step keeps every variable in its type.
LEMMA TypeStep ==
    ASSUME TypeOK, [Next]_vars
    PROVE  TypeOK'
<1> USE NothingFacts, SwapAssumption DEF TypeOK, Stage
<1>1. ASSUME NEW r \in Run, RunStep(r)
      PROVE  TypeOK'
  <2>1. CASE Begin(r)
    BY <2>1 DEF Begin
  <2>2. CASE StartEncode(r) \/ RetryInSoftware(r)
    BY <2>2 DEF StartEncode, RetryInSoftware, OpenSource
  <2>3. CASE EncodeSucceeds(r)
    BY <2>3 DEF EncodeSucceeds, OutputsOf
  <2>4. CASE Accept(r)
    BY <2>4 DEF Accept
  <2>5. CASE EncodeFails(r) \/ Reject(r) \/ BackUpFails(r) \/ RetireFails(r) \/ DeleteBackup(r)
    BY <2>5 DEF EncodeFails, Reject, BackUpFails, RetireFails, DeleteBackup, Return
  <2>6. CASE BackUp(r)
    BY <2>6 DEF BackUp
  <2>7. CASE InstallByRename(r)
    BY <2>7 DEF InstallByRename, Final
  <2>8. CASE StartCopy(r)
    BY <2>8 DEF StartCopy, PartsOf, Final
  <2>9. CASE EndCopy(r)
    <3>1. CopyOf(temp[r]) \in Content \cup {Nothing}
      <4>1. CopyOf(Nothing) = Nothing
        BY DEF CopyOf, Nothing
      <4> QED
        BY <4>1, CopyFacts
    <3> QED
      BY <2>9, <3>1 DEF EndCopy, Final
  <2>10. CASE InstallFails(r)
    <3>1. LeftoversOf(temp[r]) \subseteq Content \cup {Nothing}
      <4>1. LeftoversOf(Nothing) \subseteq Content \cup {Nothing}
        BY DEF LeftoversOf, PartsOf, CopyOf, Nothing
      <4> QED
        BY <4>1, LeftoverFacts
    <3>2. PICK files \in AfterFailedMove(r) : Return(r, Restored(files)) \/ Return(r, files)
      BY <2>10 DEF InstallFails
    <3>3. files \in [Path -> Content \cup {Nothing}]
      BY <3>1, <3>2 DEF AfterFailedMove, Final
    <3>4. at' \in [Path -> Content \cup {Nothing}]
      BY <3>2, <3>3 DEF Return, Restored
    <3> QED
      BY <2>10, <3>2, <3>4 DEF InstallFails, Return
  <2>11. CASE TrashByRename(r)
    BY <2>11 DEF TrashByRename, Return, Exists
  <2>12. CASE StartTrashCopy(r)
    BY <2>12 DEF StartTrashCopy
  <2>13. CASE EndTrashCopy(r)
    <3>1. CopyOf(at["bak"]) \in Content
      BY <2>13, CopyFacts DEF EndTrashCopy, Exists
    <3> QED
      BY <2>13, <3>1 DEF EndTrashCopy, Return
  <2>14. CASE TrashCopyFails(r)
    BY <2>14, LeftoverFacts DEF TrashCopyFails, LeaveInTrash, Exists, Return
  <2> QED
    BY <1>1, <2>1, <2>2, <2>3, <2>4, <2>5, <2>6, <2>7, <2>8, <2>9, <2>10, <2>11, <2>12, <2>13,
       <2>14 DEF RunStep
<1>2. ASSUME NEW r \in Run, CleanTemp(r)
      PROVE  TypeOK'
  BY <1>2 DEF CleanTemp
<1>3. CASE Crash
  BY <1>3, LeftoverFacts DEF Crash, LeaveInTrash, Exists
<1>4. CASE TimePasses
  <2>1. \A c \in trash : Aged(c) \in Content
    BY AgedFacts
  <2> QED
    BY <1>4, <2>1, AgedFacts DEF TimePasses
<1>5. CASE PruneTrash
  BY <1>5 DEF PruneTrash
<1>6. CASE UNCHANGED vars
  BY <1>6
<1> QED
  BY <1>1, <1>2, <1>3, <1>4, <1>5, <1>6 DEF Next

\* At first there is the original, and nothing else.
LEMMA InitFacts ==
    ASSUME Init
    PROVE  /\ TypeOK
           /\ at["src"].size = MaxSize /\ at["src"].whole /\ at["src"].shows # "short"
           /\ at["dst"] = Nothing
           /\ at["bak"] = Nothing
<1>1. PICK original \in Originals : at = [p \in Path |-> IF p = "src" THEN original ELSE Nothing]
  BY DEF Init
<1>2. TypeOK
  BY <1>1 DEF Init, TypeOK, Stage, Originals
<1> QED
  BY <1>1, <1>2 DEF Originals

\* Every variable keeps its type, however many runs overlap.
THEOREM SwapTypeCorrect == Spec => []TypeOK
<1>1. Init => TypeOK
  BY InitFacts
<1>2. TypeOK /\ [Next]_vars => TypeOK'
  BY TypeStep
<1> QED
  BY <1>1, <1>2, PTL DEF Spec

-----------------------------------------------------------------------------
(* The invariant.                                                            *)

\* The stages are distinct strings; what Sound says of an idle run is nothing.
LEMMA IdleIsSound ==
    ASSUME NEW r \in Run, pc'[r] = "idle"
    PROVE  Sound(r)'
BY DEF Sound

\* A run that takes a step has no other beside it.
LEMMA RunStepSolo ==
    ASSUME SwapInv, NEW r \in Run, RunStep(r)
    PROVE  /\ \A q \in Run : q # r => pc'[q] = "idle"
           /\ Solo'
<1> USE DEF SwapInv, TypeOK, Solo
<1>1. \A q \in Run : q # r => pc[q] = "idle"
  BY DEF RunStep, Begin, StartEncode, RetryInSoftware, EncodeSucceeds, Accept, EncodeFails,
     Reject, BackUpFails, RetireFails, DeleteBackup, BackUp, InstallByRename, StartCopy,
     EndCopy, InstallFails, TrashByRename, StartTrashCopy, EndTrashCopy, TrashCopyFails, LeaveInTrash
<1>2. (\E st \in Stage : pc' = [pc EXCEPT ![r] = st]) /\ setup' = setup
  BY DEF RunStep, Begin, StartEncode, RetryInSoftware, EncodeSucceeds, Accept, EncodeFails,
     Reject, BackUpFails, RetireFails, DeleteBackup, BackUp, InstallByRename, StartCopy,
     EndCopy, InstallFails, TrashByRename, StartTrashCopy, EndTrashCopy, TrashCopyFails,
     OpenSource, Return, Stage
<1> QED
  BY <1>1, <1>2

\* A failed move leaves files that are no better than the copy at .backup.
LEMMA FailedMoveFacts ==
    ASSUME SwapInv, NEW r \in Run, InstallFails(r)
    PROVE  \E c \in Content \cup {Nothing} :
              /\ \E p \in Path : at'[p] = at["bak"]
              /\ \A p \in Path : at'[p] \in {at["src"], at["dst"], at["bak"], c, Nothing}
              /\ c.whole => at["bak"].whole /\ c.size < at["bak"].size
              /\ c.shows = "short" => ~ judged
<1> USE NothingFacts DEF SwapInv, TypeOK
<1>0. Sound(r) /\ Safe
  OBVIOUS
<1>1. PICK files \in AfterFailedMove(r) : Return(r, Restored(files)) \/ Return(r, files)
  BY DEF InstallFails
<1>2. /\ pc[r] \in Swapping
      /\ at["bak"] = seen[r]
      /\ temp[r] \in Content
      /\ temp[r].whole => at["bak"].whole
      /\ temp[r].size < at["bak"].size
  BY <1>0 DEF InstallFails, Sound
<1>3. CASE pc[r] = "moving"
  <2>1. files = at
    BY <1>1, <1>3 DEF AfterFailedMove
  <2> QED
    BY <1>1, <2>1 DEF Return, Restored
<1>4. CASE pc[r] = "copying"
  <2>1. PICK c \in LeftoversOf(temp[r]) \cup {Nothing} : files = [at EXCEPT ![Final] = c]
    BY <1>1, <1>4 DEF AfterFailedMove
  <2>2. /\ c \in Content \cup {Nothing}
        /\ c.whole => at["bak"].whole /\ c.size < at["bak"].size
    BY <1>2, <2>1, LeftoverFacts
  <2>3. c.shows = "short" => ~ judged
    BY <1>0, <1>2, <2>1, LeftoverFacts DEF Sound
  <2> QED
    BY <1>1, <2>1, <2>2, <2>3 DEF Return, Restored, Final
<1> QED
  BY <1>2, <1>3, <1>4

\* An output that was judged, or that is taken although it was not.
LEMMA AcceptFacts ==
    ASSUME SwapInv, NEW r \in Run, Accept(r)
    PROVE  /\ temp[r] \in Content
           /\ temp[r].size < seen[r].size
           /\ temp[r].whole => seen[r].whole
           /\ judged' => judged /\ temp[r].whole /\ temp[r].shows # "short"
<1> USE NothingFacts DEF SwapInv, TypeOK
<1>1. temp[r] \in OutputsOf(seen[r]) /\ seen[r] = at["src"] /\ seen[r] \in Content
  BY DEF Accept, Sound
<1>2. PICK answer \in Answers(temp[r]) :
          ~ Truncated(r, answer) /\ judged' = (judged /\ ~ Unjudged(r, answer))
  BY DEF Accept
<1>3. ASSUME judged'
      PROVE  judged /\ temp[r].whole /\ temp[r].shows # "short"
  <2>1. judged /\ answer = temp[r].shows /\ seen[r].shows # "unknown"
    BY <1>2, <1>3 DEF Unjudged, Answers
  <2>2. seen[r].shows = "full"
    BY <1>1, <2>1 DEF Safe, Content
  <2> QED
    BY <1>1, <1>2, <2>1, <2>2 DEF Truncated, OutputsOf
<1> QED
  BY <1>1, <1>3 DEF Accept, Smaller, OutputsOf

\* A run's step leads it from one sound stage to the next, and the library's
\* files stay safe.
LEMMA RunStepSound ==
    ASSUME SwapInv, NEW r \in Run, RunStep(r)
    PROVE  Sound(r)' /\ Safe'
<1> USE NothingFacts DEF SwapInv, TypeOK
<1>0. Sound(r) /\ Safe
  OBVIOUS
<1>1. CASE Begin(r)
  BY <1>0, <1>1 DEF Begin, Sound, Safe, Exists, Final
<1>2. CASE StartEncode(r) \/ RetryInSoftware(r)
  BY <1>0, <1>2 DEF StartEncode, RetryInSoftware, OpenSource, Sound, Safe, Exists, Final
<1>3. CASE EncodeSucceeds(r)
  BY <1>0, <1>3 DEF EncodeSucceeds, Sound, Safe, Final
<1>4. CASE Accept(r)
  <2>1. seen[r].whole \/ ~ judged'
    BY <1>4, AcceptFacts
  <2>2. Safe'
    BY <1>0, <1>4, AcceptFacts DEF Accept, Safe
  <2> QED
    BY <1>0, <1>4, <2>1, <2>2, AcceptFacts DEF Accept, Sound, Final
<1>5. CASE EncodeFails(r) \/ Reject(r) \/ BackUpFails(r)
  BY <1>0, <1>5, IdleIsSound DEF EncodeFails, Reject, BackUpFails, Return, Safe
<1>6. CASE RetireFails(r) \/ TrashCopyFails(r) \/ DeleteBackup(r) \/ TrashByRename(r) \/ EndTrashCopy(r)
  <2>1. (judged => at[Final].whole) /\ Final # "bak"
    BY <1>0, <1>6 DEF RetireFails, TrashCopyFails, LeaveInTrash, DeleteBackup, TrashByRename,
       EndTrashCopy, Sound, Final
  <2>2. pc'[r] = "idle" /\ UNCHANGED judged /\ at' \in {at, [at EXCEPT !["bak"] = Nothing]}
    BY <1>6 DEF RetireFails, TrashCopyFails, DeleteBackup, TrashByRename, EndTrashCopy, Return
  <2> QED
    BY <1>0, <2>1, <2>2, IdleIsSound DEF Safe, Final
<1>7. CASE BackUp(r)
  <2>1. at' = [at EXCEPT !["src"] = Nothing, !["bak"] = seen[r]] /\ (judged => seen[r].whole)
    BY <1>0, <1>7 DEF BackUp, Sound
  <2>2. Safe'
    BY <1>0, <1>7, <2>1 DEF BackUp, Sound, Safe
  <2> QED
    BY <1>0, <1>7, <2>1, <2>2 DEF BackUp, Sound, Final
<1>8. CASE InstallByRename(r)
  <2>1. Safe'
    BY <1>0, <1>8 DEF InstallByRename, Sound, Safe, Final
  <2> QED
    BY <1>0, <1>8, <2>1 DEF InstallByRename, Sound, Final
<1>9. CASE StartCopy(r)
  <2>1. Safe'
    BY <1>0, <1>9 DEF StartCopy, PartsOf, Sound, Safe, Final
  <2> QED
    BY <1>0, <1>9, <2>1 DEF StartCopy, PartsOf, Sound, Final
<1>10. CASE EndCopy(r)
  <2>1. Safe'
    BY <1>0, <1>10, CopyFacts DEF EndCopy, Sound, Safe, Final
  <2> QED
    BY <1>0, <1>10, <2>1, CopyFacts DEF EndCopy, Sound, Final
<1>11. CASE InstallFails(r)
  <2>1. pc'[r] = "idle" /\ UNCHANGED judged
    BY <1>11 DEF InstallFails, Return
  <2>2. judged => at["bak"].whole
    BY <1>0, <1>11 DEF InstallFails, Sound
  <2>3. Safe'
    BY <1>0, <1>11, <2>1, <2>2, FailedMoveFacts DEF Safe
  <2> QED
    BY <2>1, <2>3, IdleIsSound
<1>12. CASE StartTrashCopy(r)
  BY <1>0, <1>12 DEF StartTrashCopy, Sound, Safe, Final
<1> QED
  BY <1>1, <1>2, <1>3, <1>4, <1>5, <1>6, <1>7, <1>8, <1>9, <1>10, <1>11, <1>12 DEF RunStep

\* The other steps of the process and of time leave runs sound and files safe.
LEMMA OtherStepSound ==
    ASSUME SwapInv,
           \/ \E r \in Run : CleanTemp(r)
           \/ Crash
           \/ TimePasses
           \/ PruneTrash
           \/ UNCHANGED vars
    PROVE  Solo' /\ (\A r \in Run : Sound(r)') /\ Safe'
<1> USE DEF SwapInv, TypeOK
<1>1. ASSUME NEW r \in Run, CleanTemp(r)
      PROVE  Solo' /\ (\A q \in Run : Sound(q)') /\ Safe'
  <2>1. \A q \in Run : q # r => temp'[q] = temp[q]
    BY <1>1 DEF CleanTemp
  <2>2. \A q \in Run : Sound(q)'
    BY <1>1, <2>1 DEF CleanTemp, Sound, Final
  <2> QED
    BY <1>1, <2>2 DEF CleanTemp, Solo, Safe, Final
<1>2. CASE Crash
  BY <1>2, IdleIsSound DEF Crash, Solo, Safe, Final
<1>3. CASE TimePasses
  <2>1. \A p \in Path : /\ at'[p].whole = at[p].whole
                        /\ at'[p].shows = at[p].shows
                        /\ at'[p] = Nothing <=> at[p] = Nothing
    BY <1>3, AgedFacts DEF TimePasses
  <2>2. \A q \in Run : Sound(q)'
    BY <1>3, IdleIsSound DEF TimePasses
  <2> QED
    BY <1>3, <2>1, <2>2 DEF TimePasses, Solo, Safe, Final
<1>4. CASE PruneTrash \/ UNCHANGED vars
  BY <1>4 DEF PruneTrash, Solo, Sound, Safe, Final
<1> QED
  BY <1>1, <1>2, <1>3, <1>4

LEMMA SwapInvStep ==
    ASSUME SwapInv, [Next]_vars
    PROVE  SwapInv'
<1>1. TypeOK'
  BY TypeStep DEF SwapInv
<1>2. ASSUME NEW r \in Run, RunStep(r)
      PROVE  SwapInv'
  <2>1. \A q \in Run : Sound(q)'
    BY <1>2, RunStepSolo, RunStepSound, IdleIsSound
  <2> QED
    BY <1>1, <1>2, <2>1, RunStepSolo, RunStepSound DEF SwapInv
<1> QED
  BY <1>1, <1>2, OtherStepSound DEF SwapInv, Next

\* The invariant of every configuration with one run at a time.
THEOREM SwapInvHolds ==
    ASSUME NoOverlap PROVE Spec => []SwapInv
<1>1. Init => SwapInv
  <2>1. ASSUME Init PROVE Safe
    BY <2>1, InitFacts, NothingFacts DEF Safe
  <2>2. ASSUME Init PROVE Solo /\ \A r \in Run : Sound(r)
    BY <2>2 DEF Init, Solo, Sound, NoOverlap
  <2> QED
    BY <2>1, <2>2, InitFacts DEF SwapInv
<1>2. SwapInv /\ [Next]_vars => SwapInv'
  BY SwapInvStep
<1> QED
  BY <1>1, <1>2, PTL DEF Spec

-----------------------------------------------------------------------------
(* What follows from it.                                                     *)

\* While the output is moved into place, the original is at .backup, and it is
\* complete unless an output was taken unjudged.
THEOREM BackupIsHeld ==
    ASSUME NoOverlap PROVE Spec => []BackupHeld
<1>1. SwapInv => BackupHeld
  BY NothingFacts DEF SwapInv, Sound, BackupHeld, Exists
<1> QED
  BY <1>1, SwapInvHolds, PTL

\* What has been installed is smaller than the file that was measured, encoded
\* and put aside, and complete unless an output was taken unjudged, whatever
\* crashed or failed in earlier runs.
THEOREM InstallsAreSound ==
    ASSUME NoOverlap PROVE Spec => []InstalledIsSound
<1>1. SwapInv => InstalledIsSound
  BY NothingFacts DEF SwapInv, Sound, InstalledIsSound, Exists
<1> QED
  BY <1>1, SwapInvHolds, PTL

-----------------------------------------------------------------------------
(* Refinement.                                                               *)

\* The largest of the sizes of complete copies.
LEMMA LargestFacts ==
    ASSUME NEW f, \A p \in Path : f[p] \in Nat
    PROVE  /\ Max({f[p] : p \in Path}) \in Nat
           /\ \E q \in Path : Max({f[p] : p \in Path}) = f[q]
           /\ \A q \in Path : f[q] <= Max({f[p] : p \in Path})
<1> DEFINE S == {f[p] : p \in Path}
<1>1. \E x \in S : \A y \in S : x >= y
  OBVIOUS
<1>2. Max(S) \in S /\ \A y \in S : Max(S) >= y
  BY <1>1 DEF Max
<1> QED
  BY <1>2

\* When every copy that is there was there, or there was a better one, and one
\* is left if outputs were judged, the movie stays or gives way.
LEMMA GivesWay ==
    ASSUME TypeOK, TypeOK',
           \A p \in Path : \E q \in Path : WholeSize(p)' <= WholeSize(q),
           Safe',
           UNCHANGED judged
    PROVE  [Library!Replace]_Movie
<1> DEFINE now == [p \in Path |-> WholeSize(p)]
           next == [p \in Path |-> WholeSize(p)']
<1>0. /\ \A p \in Path : now[p] \in Nat /\ next[p] \in Nat
      /\ Movie = Max({now[p] : p \in Path})
      /\ Movie' = Max({next[p] : p \in Path})
  <2>1. \A p \in Path : now[p] \in Nat /\ next[p] \in Nat
    BY NothingFacts, SwapAssumption DEF TypeOK, WholeSize
  <2>2. {now[p] : p \in Path} = {WholeSize(p) : p \in Path}
    OBVIOUS
  <2>3. {next[p] : p \in Path} = {WholeSize(p)' : p \in Path}
    OBVIOUS
  <2> QED
    BY <2>1, <2>2, <2>3 DEF Movie
<1>1. Movie' \in Nat /\ Movie \in Nat /\ Movie' <= Movie
  <2>1. Movie' \in Nat /\ \E p \in Path : Movie' = next[p]
    BY <1>0, LargestFacts
  <2>2. Movie \in Nat /\ \A p \in Path : now[p] <= Movie
    BY <1>0, LargestFacts
  <2> QED
    BY <1>0, <2>1, <2>2
<1>2. judged => Movie' # 0
  <2>1. ASSUME judged
        PROVE  \E p \in Path : next[p] \in Nat \ {0}
    BY <2>1, NothingFacts, SwapAssumption DEF Safe, TypeOK, WholeSize
  <2>2. \A p \in Path : next[p] <= Movie'
    BY <1>0, LargestFacts
  <2> QED
    BY <1>1, <2>1, <2>2
<1> QED
  BY <1>1, <1>2 DEF Library!Replace

\* A run's step keeps the best complete copy, replaces it by a smaller one, or
\* takes an output unjudged.
LEMMA RunStepRefines ==
    ASSUME SwapInv, SwapInv', NEW r \in Run, RunStep(r)
    PROVE  [Library!Replace \/ Library!TakeUnjudged]_<<Movie, judged>>
<1> USE NothingFacts DEF SwapInv
<1>0. Sound(r) /\ Safe /\ Safe'
  OBVIOUS
<1>1. CASE Accept(r)
  <2>1. UNCHANGED Movie
    BY <1>1 DEF Accept, Movie, WholeSize
  <2>2. judged' \in {judged, FALSE}
    BY <1>1 DEF Accept, TypeOK
  <2> QED
    BY <2>1, <2>2 DEF Library!TakeUnjudged
<1>2. ASSUME UNCHANGED judged,
             \A p \in Path : \E q \in Path : WholeSize(p)' <= WholeSize(q)
      PROVE  [Library!Replace \/ Library!TakeUnjudged]_<<Movie, judged>>
  BY <1>0, <1>2, GivesWay
<1> DEFINE NoBetter == \A p \in Path : \E q \in Path : WholeSize(p)' <= WholeSize(q)
<1>3. ASSUME at' \in {at, [at EXCEPT !["bak"] = Nothing]}
      PROVE  NoBetter
  BY <1>3, SwapAssumption DEF WholeSize, TypeOK
<1>4. CASE Begin(r) \/ StartEncode(r) \/ RetryInSoftware(r) \/ EncodeSucceeds(r)
           \/ EncodeFails(r) \/ Reject(r) \/ BackUpFails(r) \/ RetireFails(r) \/ StartTrashCopy(r)
           \/ TrashCopyFails(r) \/ DeleteBackup(r) \/ TrashByRename(r) \/ EndTrashCopy(r)
  <2>1. UNCHANGED judged /\ at' \in {at, [at EXCEPT !["bak"] = Nothing]}
    BY <1>4 DEF Begin, StartEncode, RetryInSoftware, OpenSource, EncodeSucceeds, EncodeFails,
       Reject, BackUpFails, RetireFails, StartTrashCopy, TrashCopyFails, DeleteBackup,
       TrashByRename, EndTrashCopy, Return
  <2> QED
    BY <1>2, <1>3, <2>1
<1>5. CASE BackUp(r)
  <2>1. NoBetter
    BY <1>5, SwapAssumption DEF BackUp, WholeSize, TypeOK
  <2> QED
    BY <1>2, <1>5, <2>1 DEF BackUp
<1>6. CASE InstallByRename(r) \/ StartCopy(r) \/ EndCopy(r)
  <2>1. /\ UNCHANGED judged
        /\ \E c \in Content :
              /\ at' = [at EXCEPT ![Final] = c]
              /\ c.whole => temp[r].whole /\ c.size = temp[r].size
    BY <1>0, <1>6, CopyFacts DEF InstallByRename, StartCopy, EndCopy, PartsOf, Sound
  <2>2. /\ temp[r] \in Content
        /\ temp[r].whole => at["bak"].whole
        /\ temp[r].size < at["bak"].size
    BY <1>0, <1>6 DEF InstallByRename, StartCopy, EndCopy, Sound
  <2>3. NoBetter
    BY <2>1, <2>2, SwapAssumption DEF WholeSize, TypeOK
  <2> QED
    BY <1>2, <2>1, <2>3
<1>7. CASE InstallFails(r)
  <2>1. NoBetter
    <3>1. PICK c \in Content \cup {Nothing} :
              /\ \A p \in Path : at'[p] \in {at["src"], at["dst"], at["bak"], c, Nothing}
              /\ c.whole => at["bak"].whole /\ c.size < at["bak"].size
      BY <1>7, FailedMoveFacts
    <3> QED
      BY <3>1, SwapAssumption DEF WholeSize, TypeOK
  <2> QED
    BY <1>2, <1>7, <2>1 DEF InstallFails, Return
<1> QED
  BY <1>1, <1>4, <1>5, <1>6, <1>7 DEF RunStep

\* With one run at a time, the dozen steps of Transcode, with their crashes
\* and failures, implement an atomic replacement of the movie.
THEOREM SwapRefinesReplacement ==
    ASSUME NoOverlap PROVE Spec => ReplacesAtomically
<1> DEFINE LibraryStep == Library!Replace \/ Library!TakeUnjudged
<1>1. Init => Library!Init
  <2> SUFFICES ASSUME Init PROVE Movie = MaxSize /\ judged = TRUE
    BY DEF Library!Init
  <2>1. /\ WholeSize("src") = MaxSize
        /\ WholeSize("dst") = 0
        /\ WholeSize("bak") = 0
    BY InitFacts, NothingFacts DEF WholeSize
  <2>2. Movie = MaxSize
    <3> DEFINE f == [p \in Path |-> WholeSize(p)]
    <3>1. \A p \in Path : f[p] \in Nat
      BY <2>1, SwapAssumption
    <3>2. Movie = Max({f[p] : p \in Path})
      BY DEF Movie
    <3>3. \A p \in Path : f[p] \in {0, MaxSize} /\ f["src"] = MaxSize
      BY <2>1
    <3> HIDE DEF f
    <3>4. Movie \in {0, MaxSize} /\ Movie >= MaxSize
      BY <3>1, <3>2, <3>3, LargestFacts
    <3> QED
      BY <3>4, SwapAssumption
  <2> QED
    BY <2>2 DEF Init
<1>2. SwapInv /\ SwapInv' /\ [Next]_vars => [LibraryStep]_<<Movie, judged>>
  <2> SUFFICES ASSUME SwapInv, SwapInv', [Next]_vars
               PROVE  [LibraryStep]_<<Movie, judged>>
    OBVIOUS
  <2>1. CASE TimePasses
    <3>1. \A p \in Path : at'[p].whole = at[p].whole /\ at'[p].size = at[p].size
      BY <2>1, AgedFacts DEF TimePasses, SwapInv, TypeOK
    <3>2. {WholeSize(p) : p \in Path}' = {WholeSize(p) : p \in Path}
      BY <3>1 DEF WholeSize
    <3> QED
      BY <2>1, <3>2 DEF TimePasses, Movie
  <2>2. CASE Crash \/ PruneTrash \/ UNCHANGED vars \/ \E r \in Run : CleanTemp(r)
    BY <2>2 DEF Crash, PruneTrash, CleanTemp, Movie, WholeSize
  <2> QED
    BY <2>1, <2>2, RunStepRefines DEF Next
<1> QED
  BY <1>1, <1>2, SwapInvHolds, PTL DEF Spec, ReplacesAtomically, Library!Spec

-----------------------------------------------------------------------------
(* The trash.                                                                *)

\* What was copied to the trash looks no older than its stay there.
TrashLooksNew ==
    setup.trash # "rename" => \A c \in trash \ kept : c.mtime = "new"

LEMMA TrashStep == TypeOK /\ TrashLooksNew /\ [Next]_vars => TrashLooksNew'
<1> SUFFICES ASSUME TypeOK, TrashLooksNew, [Next]_vars
    PROVE  TrashLooksNew'
  OBVIOUS
<1>1. setup' = setup
  BY DEF Next, RunStep, Begin, StartEncode, RetryInSoftware, EncodeSucceeds, Accept, EncodeFails,
     Reject, BackUpFails, RetireFails, DeleteBackup, BackUp, InstallByRename, StartCopy,
     EndCopy, InstallFails, TrashByRename, StartTrashCopy, EndTrashCopy, TrashCopyFails,
     OpenSource, Return, CleanTemp, Crash, TimePasses, PruneTrash
<1>2. CASE TimePasses
  BY <1>1, <1>2 DEF TimePasses, TrashLooksNew
<1>3. CASE PruneTrash
  BY <1>1, <1>3 DEF PruneTrash, TrashLooksNew
<1>4. ASSUME NEW r \in Run, LeaveInTrash(r)
      PROVE  TrashLooksNew'
  <2>1. PICK c \in LeftoversOf(at["bak"]) : trash' = trash \cup {c} /\ kept' = kept \ {c}
    BY <1>4 DEF LeaveInTrash
  <2>2. c.mtime = "new"
    BY <1>4, <2>1, LeftoverFacts DEF LeaveInTrash, Exists, TypeOK
  <2> QED
    BY <1>1, <2>1, <2>2 DEF TrashLooksNew
<1>5. ASSUME NEW r \in Run, TrashByRename(r)
      PROVE  TrashLooksNew'
  BY <1>1, <1>5 DEF TrashByRename, TrashLooksNew
<1>6. ASSUME NEW r \in Run, EndTrashCopy(r)
      PROVE  TrashLooksNew'
  <2>1. CopyOf(at["bak"]).mtime = "new"
    <3>1. at["bak"] \in Content
      BY <1>6 DEF EndTrashCopy, Exists, TypeOK
    <3> QED
      BY <3>1 DEF CopyOf, Content
  <2> QED
    BY <1>1, <1>6, <2>1 DEF EndTrashCopy, TrashLooksNew
<1>7. CASE UNCHANGED <<trash, kept>>
  BY <1>1, <1>7 DEF TrashLooksNew
<1>8. ASSUME NEW r \in Run, RunStep(r) \/ CleanTemp(r), ~ TrashByRename(r), ~ EndTrashCopy(r),
             ~ LeaveInTrash(r)
      PROVE  UNCHANGED <<trash, kept>>
  BY <1>8 DEF RunStep, Begin, StartEncode, RetryInSoftware, EncodeSucceeds, Accept, EncodeFails,
     Reject, BackUpFails, RetireFails, DeleteBackup, BackUp, InstallByRename, StartCopy,
     EndCopy, InstallFails, StartTrashCopy, TrashCopyFails, OpenSource, CleanTemp
<1> QED
  BY <1>2, <1>3, <1>4, <1>5, <1>6, <1>7, <1>8 DEF Next, Crash

\* Where the trash is filled by copying, no complete original is pruned before
\* its time, however many runs overlap: TrashPruned's history needs a rename.
THEOREM CopiedTrashStays == Spec => CopiedTrashIsKept
<1> DEFINE Stays ==
      setup.trash # "rename" =>
          \A c \in trash : c.whole /\ c \notin kept => c \in trash' \/ Aged(c) \in kept'
<1>1. Init => TrashLooksNew
  BY DEF Init, TrashLooksNew
<1>2. TypeOK /\ TrashLooksNew /\ [Next]_vars => [Stays]_vars
  <2> SUFFICES ASSUME TypeOK, TrashLooksNew, Next, setup.trash # "rename",
                      NEW c \in trash, c \notin kept
      PROVE  c \in trash' \/ Aged(c) \in kept'
    OBVIOUS
  <2>1. c.mtime = "new"
    BY DEF TrashLooksNew
  <2>2. CASE TimePasses
    BY <2>2 DEF TimePasses
  <2>3. CASE PruneTrash
    BY <2>1, <2>3 DEF PruneTrash
  <2>4. CASE Crash
    BY <2>4 DEF Crash, LeaveInTrash
  <2>5. ASSUME NEW r \in Run, RunStep(r) \/ CleanTemp(r)
        PROVE  c \in trash'
    BY <2>5 DEF RunStep, Begin, StartEncode, RetryInSoftware, EncodeSucceeds, Accept, EncodeFails,
       Reject, BackUpFails, RetireFails, DeleteBackup, BackUp, InstallByRename, StartCopy,
       EndCopy, InstallFails, TrashByRename, StartTrashCopy, EndTrashCopy, TrashCopyFails,
       LeaveInTrash, OpenSource, CleanTemp
  <2> QED
    BY <2>2, <2>3, <2>4, <2>5 DEF Next
<1> QED
  BY <1>1, <1>2, TrashStep, SwapTypeCorrect, PTL DEF Spec, CopiedTrashIsKept
=============================================================================
