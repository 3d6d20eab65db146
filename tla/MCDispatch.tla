----------------------------- MODULE MCDispatch ------------------------------
(* Small instances of Dispatcher for TLC.                                    *)
EXTENDS Dispatcher
=============================================================================
