------------------------------ MODULE MCScanner ------------------------------
(* Small instances of Scanner for TLC.                                       *)
EXTENDS Scanner

\* Two libraries that share a path and want different codecs of it, and one
\* that is not enabled and wants everything.
Shared ==
    << [holds |-> {"film"}, enabled |-> TRUE, wants |-> {}],
       [holds |-> {"film"}, enabled |-> FALSE, wants |-> {"h264", "hevc"}],
       [holds |-> {"film"}, enabled |-> TRUE, wants |-> {"h264"}] >>
=============================================================================
