----------------------------- MODULE Replacement -----------------------------
(***************************************************************************)
(* What replacing a media file promises, whatever fails on the way: the    *)
(* best complete copy of the movie only ever gives way, in one step, to a  *)
(* smaller one, and it is never lost while the program judges each output  *)
(* before it takes it.                                                     *)
(***************************************************************************)
EXTENDS Integers

CONSTANT MaxSize

VARIABLES
    movie,   \* the size of the best complete copy; 0 when there is none
    judged   \* was each output that was taken compared with its source?

Init == movie = MaxSize /\ judged = TRUE

Replace ==
    /\ movie' \in (IF judged THEN 1 ELSE 0)..(movie - 1)
    /\ UNCHANGED judged

\* An output is taken whose completeness is not known.
TakeUnjudged ==
    /\ judged' = FALSE
    /\ UNCHANGED movie

Spec == Init /\ [][Replace \/ TakeUnjudged]_<<movie, judged>>
=============================================================================
