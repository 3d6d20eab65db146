------------------------------ MODULE MCQueue -------------------------------
(* Small instances of JobQueue for TLC.                                      *)
EXTENDS JobQueue, TLC

\* All rows are for one file, so a second row id is the file deleted from the
\* table and added again.
OneFile == [j \in Job |-> "movie"]

\* In such a run the ids are interchangeable.
RowIds == Permutations(Job)

\* A row of its own for each file.
TwoFiles == (1 :> "movie") @@ (2 :> "show")

FourFiles == TwoFiles @@ (3 :> "clip") @@ (4 :> "trailer")

\* Three rows of a library that takes one at a time, one row of another.
TwoLibraries == (1 :> "films") @@ (2 :> "films") @@ (3 :> "films") @@ (4 :> "tv")
FilmsOne == ("films" :> 1) @@ ("tv" :> 0)
TwoPriorities == (1 :> 5) @@ (2 :> 5) @@ (3 :> 5) @@ (4 :> 7)

OneLibrary == [j \in Job |-> "films"]
SamePriority == [j \in Job |-> 5]
NoLibraryCap == [l \in Library |-> 0]

OneWorker == [r \in Runner |-> "A"]
TwoWorkers == ("a1" :> "A") @@ ("b1" :> "B")
FourRunners == ("a1" :> "A") @@ ("a2" :> "A") @@ ("b1" :> "B") @@ ("b2" :> "B")
=============================================================================
