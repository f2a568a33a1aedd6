------------------------------ MODULE MCWatcher ------------------------------
(* Model values for the runs of Watcher.                                   *)
EXTENDS Watcher

CONSTANTS u1, u2, configA, configB

MCUsers == {u1, u2}
MCContents == {configA, configB}
=============================================================================
