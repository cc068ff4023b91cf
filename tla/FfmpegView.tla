----------------------------- MODULE FfmpegView -----------------------------
(***************************************************************************)
(* ffmpegTest, the view that plays a file by a run-loop timer.             *)
(*                                                                         *)
(* initWithFrame sets videoPath to the bundled file and calls play; after  *)
(* that the timers play starts and the owner of the view, who may call     *)
(* what ffmpegTest.h declares, take turns on the main run loop.            *)
(* A file is a number of frames; decoding is the business of M3u8Player.   *)
(* Following a nil pointer, or using memory already freed, sets misused    *)
(* and ends the behaviour: anything may happen then.                       *)
(***************************************************************************)
EXTENDS Naturals

CONSTANTS
  Paths,       \* the files there are
  None,        \* nil
  FrameCount,  \* frames of a file
  Calls,       \* what the owner calls after initWithFrame, of CallKinds
  MaxCalls,    \* how often it calls
  Faults       \* what may go wrong in FFmpeg, of FaultKinds

CallKinds  == {"path", "play", "pause", "stop"}
FaultKinds == { "open",    \* the input cannot be opened
                "probe",   \* no stream information, or no video stream
                "codec",   \* no decoder, or it cannot be opened
                "read",    \* a read error before the end of the file
                "image" }  \* no picture can be made of a frame

ASSUME ViewAssumption ==
  /\ None \notin Paths /\ None \notin (Paths \cup {None}) \X (1..FrameCount)
  /\ FrameCount \in Nat \ {0} /\ MaxCalls \in Nat
  /\ Calls \subseteq CallKinds /\ Faults \subseteq FaultKinds

VARIABLES
  stage,           \* initWithFrame: "path", then "play"; then "run"
  calls,           \* calls the owner has made
  reused,          \* the owner has called play or setVideoPath
  videoPath,       \* the path set last
  formatContext,   \* the file the open input reads, or nil
  codecContext,    \* "nil", "made", "open" or "freed"
  avFrame,         \* "nil", "live" or "freed"
  playInitSuccess,
  pos,             \* frames decoded since the last seek
  timers,          \* numbers of the timers scheduled and not invalidated
  started,         \* timers play has scheduled
  image,           \* None, or the picture set last: of a file, or nil, and
                   \* the number of the frame it was made of
  misused

ownerVars  == <<stage, calls, reused>>
inputVars  == <<formatContext, codecContext, avFrame, playInitSuccess, pos>>
timerVars  == <<timers, started>>
vars == <<ownerVars, videoPath, inputVars, timerVars, image, misused>>

Pictures == (Paths \cup {None}) \X (1..FrameCount)

TypeOK ==
  /\ stage \in {"path", "play", "run"}
  /\ calls \in 0..MaxCalls
  /\ reused \in BOOLEAN
  /\ videoPath \in Paths \cup {None}
  /\ formatContext \in Paths \cup {None}
  /\ codecContext \in {"nil", "made", "open", "freed"}
  /\ avFrame \in {"nil", "live", "freed"}
  /\ playInitSuccess \in BOOLEAN
  /\ pos \in 0..FrameCount
  /\ started \in 0..MaxCalls + 1
  /\ timers \subseteq 1..started
  /\ image \in Pictures \cup {None}
  /\ misused \in BOOLEAN

Init ==
  /\ stage = "path" /\ calls = 0 /\ reused = FALSE
  /\ videoPath = None
  /\ formatContext = None /\ codecContext = "nil" /\ avFrame = "nil"
  /\ playInitSuccess = FALSE
  /\ pos = 0
  /\ timers = {} /\ started = 0
  /\ image = None
  /\ misused = FALSE

-----------------------------------------------------------------------------
(* comitFFmpegWithPath: the outcomes of opening p, in the order of the      *)
(* code's returns.  Only success sets playInitSuccess; nothing clears it.   *)
OpenInput(p) ==
  /\ formatContext = None
  /\ \/ /\ formatContext' = p /\ codecContext' = "open" /\ avFrame' = "live"
        /\ playInitSuccess' = TRUE
        /\ pos' = 0
     \/ /\ "codec" \in Faults
        /\ formatContext' = p /\ codecContext' = "made"
        /\ UNCHANGED <<avFrame, playInitSuccess, pos>>
     \/ /\ "probe" \in Faults
        /\ formatContext' = p
        /\ UNCHANGED <<codecContext, avFrame, playInitSuccess, pos>>
     \/ /\ "open" \in Faults
        /\ UNCHANGED inputVars

(* avformat_open_input is given the open input of another file: it reads a  *)
(* header from that file, wherever it has come in it.  If there is none,    *)
(* it frees the input, and the decoder that is part of it.                  *)
ReopenInput ==
  /\ formatContext # None
  /\ \/ /\ codecContext' = "open" /\ avFrame' = "live"
        /\ playInitSuccess' = TRUE
        /\ pos' \in 0..FrameCount
        /\ UNCHANGED formatContext
     \/ /\ "codec" \in Faults
        /\ codecContext' = "made"
        /\ UNCHANGED <<formatContext, avFrame, playInitSuccess, pos>>
     \/ /\ "probe" \in Faults
        /\ UNCHANGED inputVars
     \/ /\ formatContext' = None /\ codecContext' = "freed"
        /\ UNCHANGED <<avFrame, playInitSuccess, pos>>

SetVideoPath(p) ==
  /\ videoPath' = p
  /\ OpenInput(p) \/ ReopenInput
  /\ UNCHANGED <<timerVars, image, misused>>

(* seekTime: the input is rewound and the decoder flushed.                  *)
Seekable == formatContext # None /\ codecContext = "open"

(* A repeating timer that nothing keeps a reference to.                    *)
StartPalyWithFPS ==
  /\ started' = started + 1
  /\ timers' = timers \cup {started'}

(* Faulty form: every play seeks and starts a timer, unready or not.        *)
PlayUnchecked ==
  /\ \/ /\ Seekable
        /\ pos' = 0
        /\ StartPalyWithFPS
        /\ UNCHANGED misused
     \/ /\ ~Seekable
        /\ misused' = TRUE
        /\ UNCHANGED <<pos, timerVars>>
  /\ UNCHANGED <<videoPath, formatContext, codecContext, avFrame, playInitSuccess, image>>

(* play: seekTime and a timer, if a file has ever been opened.              *)
Play ==
  /\ \/ /\ playInitSuccess /\ Seekable
        /\ pos' = 0
        /\ StartPalyWithFPS
        /\ UNCHANGED misused
     \/ /\ playInitSuccess /\ ~Seekable
        /\ misused' = TRUE
        /\ UNCHANGED <<pos, timerVars>>
     \/ /\ ~playInitSuccess
        /\ UNCHANGED <<pos, timerVars, misused>>
  /\ UNCHANGED <<videoPath, formatContext, codecContext, avFrame, playInitSuccess, image>>

-----------------------------------------------------------------------------
(* initWithFrame.                                                          *)
InitPath ==
  /\ stage = "path" /\ stage' = "play"
  /\ \E p \in Paths : SetVideoPath(p)
  /\ UNCHANGED <<calls, reused>>

InitPlay ==
  /\ stage = "play" /\ stage' = "run"
  /\ Play
  /\ UNCHANGED <<calls, reused>>

(* A call of the owner.                                                    *)
OwnerCalls(call) ==
  /\ stage = "run" /\ call \in Calls /\ calls < MaxCalls
  /\ calls' = calls + 1
  /\ UNCHANGED stage

OwnerPath(p) ==
  /\ OwnerCalls("path") /\ SetVideoPath(p)
  /\ reused' = TRUE

OwnerPlay ==
  /\ OwnerCalls("play") /\ Play
  /\ reused' = TRUE

(* pause and stop have no statement in them.                               *)
OwnerHalts ==
  /\ OwnerCalls("pause") \/ OwnerCalls("stop")
  /\ UNCHANGED <<reused, videoPath, inputVars, timerVars, image, misused>>

-----------------------------------------------------------------------------
(* nextFrameImage, for one timer: decodeFrame, then the picture of the     *)
(* frame; or, at the end or a read error, releaseResources, and the timer  *)
(* that found the end is invalidated.                                      *)
Decodable == Seekable /\ avFrame = "live"

(* The picture of the frame decoded last; nil if the frame has no data or  *)
(* no converter can be made for it.                                        *)
ImageFromFrame ==
  \/ image' = <<formatContext, pos'>>
  \/ "image" \in Faults /\ image' = <<None, pos'>>

(* Faulty form: the end of the file is not noticed.                        *)
NextFramePastEnd ==
  /\ pos' = pos + 1
  /\ ImageFromFrame
  /\ UNCHANGED <<formatContext, codecContext, avFrame, playInitSuccess, timers, misused>>

(* Faulty form: a frame is left out.                                       *)
SkipFrame ==
  /\ pos < FrameCount
  /\ pos' \in {pos + 1, pos + 2} \cap (0..FrameCount)
  /\ ImageFromFrame
  /\ UNCHANGED <<formatContext, codecContext, avFrame, playInitSuccess, timers, misused>>

NextFrame ==
  /\ pos < FrameCount
  /\ pos' = pos + 1
  /\ ImageFromFrame
  /\ UNCHANGED <<formatContext, codecContext, avFrame, playInitSuccess, timers, misused>>

(* avcodec_close and avformat_close_input: the decoder goes with the input. *)
ReleaseResources ==
  /\ pos = FrameCount \/ "read" \in Faults
  /\ formatContext' = None
  /\ codecContext' = "freed"
  /\ avFrame' = "freed"

(* Faulty form: the timer is left running.                                 *)
EndKeepingTimer(t) ==
  /\ ReleaseResources
  /\ UNCHANGED <<pos, image, playInitSuccess, timers, misused>>

EndOfFile(t) ==
  /\ ReleaseResources
  /\ timers' = timers \ {t}
  /\ UNCHANGED <<pos, image, playInitSuccess, misused>>

Tick(t) ==
  /\ t \in timers
  /\ \/ Decodable /\ NextFrame
     \/ Decodable /\ EndOfFile(t)
     \/ ~Decodable /\ misused' = TRUE /\ UNCHANGED <<inputVars, image, timers>>
  /\ UNCHANGED <<ownerVars, videoPath, started>>

-----------------------------------------------------------------------------
Next ==
  /\ ~misused
  /\ \/ InitPath \/ InitPlay
     \/ \E p \in Paths : OwnerPath(p)
     \/ OwnerPlay \/ OwnerHalts
     \/ \E t \in 1..MaxCalls + 1 : Tick(t)

Spec == Init /\ [][Next]_vars

(* initWithFrame runs to its end, and the run loop fires every timer.      *)
Fairness ==
  /\ WF_vars(~misused /\ (InitPath \/ InitPlay))
  /\ \A t \in 1..MaxCalls + 1 : WF_vars(~misused /\ Tick(t))

FairSpec == Spec /\ Fairness

-----------------------------------------------------------------------------
(* Properties.                                                             *)

(* Whatever fails while a file is opened, read or closed, a view its owner *)
(* neither plays again nor gives another path uses nothing it has freed.   *)
MisusedOnlyIfReused == misused => reused

(* The number of the frame that comes after the one shown.                 *)
NextNumber == IF image = None THEN 1 ELSE image[2] + 1

(* While a view is not reused, each picture it sets is of the next frame   *)
(* of the video whose path was set, from its first, or is nil in the place *)
(* of that frame: a frame no picture can be made of delays no other.       *)
ShowsNextFrame ==
  [][~reused' /\ image' # image =>
       image'[1] \in {videoPath, None} /\ image'[2] = NextNumber]_vars

(* A view that is not reused plays to an end: it gives its timer and its   *)
(* input back, or it never could play.                                     *)
PlaysToEnd ==
  <>reused \/ <>[](stage = "run" /\ timers = {} /\ (formatContext = None \/ ~playInitSuccess))

(* "Play the video" (ffmpegTest.h:27): calling play again never breaks the *)
(* view.                                                                   *)
PlayIsSafe == [][OwnerPlay => ~misused']_vars
=============================================================================
