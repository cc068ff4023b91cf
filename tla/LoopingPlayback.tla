--------------------------- MODULE LoopingPlayback ---------------------------
(***************************************************************************)
(* What LYAssetReader promises the draw loop that polls it: the samples of *)
(* the track one after the other, the track again from its first sample    *)
(* once, and only once, its last sample has been delivered, and silence    *)
(* for good after a failure.                                               *)
(***************************************************************************)
EXTENDS Naturals

CONSTANT FrameCount   \* samples of the track

VARIABLES
  phase,      \* "rewinding" between two passes, "playing", or "dead"
  delivered   \* samples of the current pass delivered so far

Init == phase = "rewinding" /\ delivered = 0

StartPass ==
  /\ phase = "rewinding"
  /\ phase' = "playing"
  /\ delivered' = 0

Deliver ==
  /\ phase = "playing"
  /\ delivered < FrameCount
  /\ delivered' = delivered + 1
  /\ UNCHANGED phase

EndPass ==
  /\ phase = "playing"
  /\ delivered = FrameCount
  /\ phase' = "rewinding"
  /\ delivered' = 0

Fail ==
  /\ phase # "dead"
  /\ phase' = "dead"
  /\ delivered' = 0

Next == StartPass \/ Deliver \/ EndPass \/ Fail

Spec == Init /\ [][Next]_<<phase, delivered>>
=============================================================================
