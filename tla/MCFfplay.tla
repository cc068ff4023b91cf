------------------------------ MODULE MCFfplay ------------------------------
(* Instances of Ffplay for TLC.                                            *)
EXTENDS Ffplay

OneFile  == {<<0, 0, 1>>}
AllFaults == FaultKinds
=============================================================================
