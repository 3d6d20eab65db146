------------------------------- MODULE MCSwap --------------------------------
(* Small instances of FileSwap for TLC.                                      *)
EXTENDS FileSwap

\* One run at a time: what JobQueue shows of a disciplined queue.
SoloSetups == {s \in AllSetups : ~ s.overlap}

\* Everything on one file system, no trash directory.
Simple == [output |-> "rename", container |-> FALSE, trash |-> "none",
           dry |-> FALSE, overlap |-> FALSE]

\* Two runs at once.
OverlapSetups == {[Simple EXCEPT !.overlap = TRUE]}

\* A trash directory on the library's file system.
TrashSetups == {[Simple EXCEPT !.trash = "rename"]}
=============================================================================
