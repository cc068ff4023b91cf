--------------------------- MODULE MCInputThreads ---------------------------
(* Instances of InputThreads for TLC.                                      *)
EXTENDS InputThreads

TwoFiles == 1..2

AllFaults == {"create", "recreate", "read", "seek"}
=============================================================================
