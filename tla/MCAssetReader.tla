--------------------------- MODULE MCAssetReader ---------------------------
(* Instances of AssetReader for TLC.                                       *)
EXTENDS AssetReader

NoFaults  == {}
AllFaults == FaultKinds
=============================================================================
