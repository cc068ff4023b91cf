--------------------------- MODULE MCFfmpegView ---------------------------
(* Instances of FfmpegView for TLC.                                        *)
EXTENDS FfmpegView

NoFaults  == {}
AllFaults == FaultKinds
PlayCalls == {"play"}
AllCalls  == CallKinds
=============================================================================
