-------------------------- MODULE FfmpegViewProofs --------------------------
(***************************************************************************)
(* Proofs about FfmpegView, for any files, any owner and any faults: a     *)
(* view that is not reused has at most one timer (OneTimer), and that      *)
(* timer has an open input, so that no callback uses what was released;    *)
(* and its pictures are of the frames of the path set, in order, but for   *)
(* the frames no picture can be made of (PictureInv).                      *)
(***************************************************************************)
EXTENDS FfmpegView, TLAPS

(* A view that is not reused has one timer at most, from the play of       *)
(* initWithFrame, and then a file that could be opened.                    *)
OneTimer ==
  ~reused =>
    /\ stage \in {"path", "play"} => started = 0 /\ timers = {} /\ ~misused
    /\ stage = "path" => formatContext = None /\ ~playInitSuccess
    /\ stage = "play" /\ playInitSuccess => Decodable
    /\ started \in {0, 1} /\ timers \subseteq {1}

(* While a view is not reused, a running timer has an open input, an open  *)
(* decoder and a frame: the timer ends in the callback that closes them.   *)
TimerHasInput == (timers # {} /\ ~reused) => Decodable

IInv == OneTimer /\ TimerHasInput /\ MisusedOnlyIfReused

(* There are no more timers than calls of play.                            *)
CountInv == started <= calls + (IF stage = "run" THEN 1 ELSE 0)

-----------------------------------------------------------------------------
(* A view starts with nothing opened and no timer.                         *)
LEMMA InitIInv == Init => IInv
BY DEF Init, IInv, OneTimer, TimerHasInput, MisusedOnlyIfReused

(* Only the owner's calls reuse a view; every other step keeps its timer,  *)
(* its input and its decoder together.                                     *)
LEMMA IInvStep == IInv /\ [Next]_vars => IInv'
<1> SUFFICES ASSUME IInv, [Next]_vars, ~reused' PROVE IInv'
  BY DEF IInv, OneTimer, TimerHasInput, MisusedOnlyIfReused
<1> USE DEF IInv, OneTimer, TimerHasInput, MisusedOnlyIfReused, Decodable, Seekable,
            inputVars, timerVars, ownerVars
<1>1. ASSUME NEW p \in Paths, stage = "path", stage' = "play", SetVideoPath(p),
             UNCHANGED <<calls, reused>>
      PROVE  IInv'
  <2>1. OpenInput(p) /\ ~misused /\ p # None
    BY <1>1, ViewAssumption DEF SetVideoPath, ReopenInput
  <2> QED BY <1>1, <2>1 DEF SetVideoPath, OpenInput
<1>2. CASE InitPlay
  BY <1>2 DEF InitPlay, Play, StartPalyWithFPS
<1>3. CASE OwnerHalts
  BY <1>3 DEF OwnerHalts, OwnerCalls
<1>4. ASSUME NEW t \in 1..MaxCalls + 1, Tick(t) PROVE IInv'
  <2>1. t = 1 /\ timers = {1} /\ Decodable /\ ~reused
    BY <1>4 DEF Tick
  <2>2. CASE NextFrame
    BY <1>4, <2>1, <2>2 DEF Tick, NextFrame
  <2>3. CASE EndOfFile(t)
    BY <1>4, <2>1, <2>3 DEF Tick, EndOfFile, ReleaseResources
  <2> QED BY <1>4, <2>1, <2>2, <2>3 DEF Tick
<1>5. CASE UNCHANGED vars
  BY <1>5 DEF vars
<1> QED BY <1>1, <1>2, <1>3, <1>4, <1>5 DEF Next, InitPath, OwnerPath, OwnerPlay

(* A view left to itself uses nothing it has freed, whatever fails.        *)
THEOREM SafeUnlessReused == Spec => []MisusedOnlyIfReused
<1>1. IInv => MisusedOnlyIfReused
  BY DEF IInv
<1> QED BY InitIInv, IInvStep, <1>1, PTL DEF Spec

(* The timer of a view left to itself ends with its input.                 *)
THEOREM TimerEndsWithInput == Spec => []TimerHasInput
<1>1. IInv => TimerHasInput
  BY DEF IInv
<1> QED BY InitIInv, IInvStep, <1>1, PTL DEF Spec

-----------------------------------------------------------------------------
(* Types.                                                                  *)

(* The initial state has its types.                                        *)
LEMMA InitType == Init => TypeOK /\ CountInv
<1>1. Init => /\ calls \in 0..MaxCalls /\ started \in 0..MaxCalls + 1
              /\ pos \in 0..FrameCount /\ timers \subseteq 1..started
  BY ViewAssumption DEF Init
<1>2. Init => CountInv
  BY DEF Init, CountInv
<1> QED BY <1>1, <1>2 DEF Init, TypeOK

(* What setting a path does to the input, whatever fails.                  *)
LEMMA OpenType ==
  ASSUME TypeOK, NEW p \in Paths, SetVideoPath(p)
  PROVE  /\ videoPath' \in Paths \cup {None} /\ formatContext' \in Paths \cup {None}
         /\ codecContext' \in {"nil", "made", "open", "freed"}
         /\ avFrame' \in {"nil", "live", "freed"}
         /\ playInitSuccess' \in BOOLEAN /\ pos' \in 0..FrameCount
         /\ UNCHANGED <<timers, started, image, misused>>
<1>1. p \in Paths \cup {None} /\ 0 \in 0..FrameCount
  BY ViewAssumption
<1>2. CASE OpenInput(p)
  BY <1>1, <1>2 DEF TypeOK, SetVideoPath, OpenInput, inputVars, timerVars
<1>3. CASE ReopenInput
  BY <1>1, <1>3 DEF TypeOK, SetVideoPath, ReopenInput, inputVars, timerVars
<1> QED BY <1>2, <1>3 DEF SetVideoPath

(* What is counted: the owner's calls, and the timers they start.          *)
Counted ==
  /\ stage \in {"path", "play", "run"}
  /\ calls \in 0..MaxCalls /\ started \in 0..MaxCalls + 1 /\ timers \subseteq 1..started

(* A play adds one timer to those numbered so far.                         *)
LEMMA PlayCounts ==
  ASSUME Counted, NEW n \in Nat, started <= n, n <= MaxCalls, Play
  PROVE  started' \in 0..n + 1 /\ timers' \subseteq 1..started'
<1>1. started \in Nat /\ MaxCalls \in Nat
  BY ViewAssumption DEF Counted
<1>2. CASE UNCHANGED timerVars
  BY <1>1, <1>2 DEF Counted, timerVars
<1>3. CASE StartPalyWithFPS
  <2>1. started' = started + 1
    BY <1>3 DEF StartPalyWithFPS
  <2>2. 1..started \subseteq 1..started' /\ started' \in 1..started' /\ started' \in 0..n + 1
    BY <1>1, <2>1
  <2> QED BY <1>3, <2>2 DEF StartPalyWithFPS, Counted
<1> QED BY <1>2, <1>3 DEF Play

(* Every step keeps the numbers of calls and of timers.                    *)
LEMMA CountStep == Counted /\ CountInv /\ [Next]_vars => Counted' /\ CountInv'
<1> SUFFICES ASSUME Counted, CountInv, [Next]_vars PROVE Counted' /\ CountInv'
  OBVIOUS
<1>0. MaxCalls \in Nat /\ calls \in Nat /\ started \in Nat
  BY ViewAssumption DEF Counted
<1>1. ASSUME NEW p \in Paths, OwnerPath(p) PROVE Counted' /\ CountInv'
  <2>1. UNCHANGED <<started, timers, stage>> /\ calls' = calls + 1 /\ calls < MaxCalls
    BY <1>1 DEF OwnerPath, OwnerCalls, SetVideoPath, timerVars
  <2> QED BY <1>0, <2>1 DEF Counted, CountInv
<1>2. CASE InitPath
  <2>1. UNCHANGED <<started, timers, calls>> /\ stage = "path" /\ stage' = "play"
    BY <1>2 DEF InitPath, SetVideoPath, timerVars
  <2> QED BY <1>0, <2>1 DEF Counted, CountInv
<1>3. CASE InitPlay
  <2>1. stage = "play" /\ stage' = "run" /\ calls' = calls /\ Play
    BY <1>3 DEF InitPlay
  <2>2. started <= calls /\ calls <= MaxCalls
    BY <1>0, <2>1 DEF CountInv, Counted
  <2>3. started' \in 0..calls + 1 /\ timers' \subseteq 1..started'
    BY <1>0, <2>1, <2>2, PlayCounts
  <2> QED BY <1>0, <2>1, <2>2, <2>3 DEF CountInv, Counted
<1>4. CASE OwnerPlay
  <2>1. stage = "run" /\ stage' = "run" /\ calls' = calls + 1 /\ calls < MaxCalls /\ Play
    BY <1>4 DEF OwnerPlay, OwnerCalls
  <2>2. started <= calls + 1 /\ calls + 1 <= MaxCalls /\ calls + 1 \in Nat
    BY <1>0, <2>1 DEF CountInv
  <2>3. started' \in 0..(calls + 1) + 1 /\ timers' \subseteq 1..started'
    BY <2>1, <2>2, PlayCounts
  <2> QED BY <1>0, <2>1, <2>2, <2>3 DEF CountInv, Counted
<1>5. CASE OwnerHalts
  <2>1. UNCHANGED <<started, timers, stage>> /\ calls' = calls + 1 /\ calls < MaxCalls
    BY <1>5 DEF OwnerHalts, OwnerCalls, timerVars
  <2> QED BY <1>0, <2>1 DEF Counted, CountInv
<1>6. ASSUME NEW t \in 1..MaxCalls + 1, Tick(t) PROVE Counted' /\ CountInv'
  <2>1. UNCHANGED <<started, stage, calls>> /\ timers' \subseteq timers
    BY <1>6 DEF Tick, NextFrame, EndOfFile, ownerVars
  <2> QED BY <2>1 DEF Counted, CountInv
<1>7. CASE UNCHANGED vars
  BY <1>7 DEF vars, ownerVars, timerVars, Counted, CountInv
<1> QED BY <1>1, <1>2, <1>3, <1>4, <1>5, <1>6, <1>7 DEF Next

(* Of the rest, only setting a path and the timers change the input.       *)
Held ==
  /\ reused \in BOOLEAN /\ misused \in BOOLEAN /\ playInitSuccess \in BOOLEAN
  /\ videoPath \in Paths \cup {None} /\ formatContext \in Paths \cup {None}
  /\ codecContext \in {"nil", "made", "open", "freed"}
  /\ avFrame \in {"nil", "live", "freed"}
  /\ pos \in 0..FrameCount
  /\ image \in Pictures \cup {None}

(* Every step keeps the types of the input, the picture and the flags.     *)
LEMMA HeldStep == TypeOK /\ [Next]_vars => Held'
<1> SUFFICES ASSUME TypeOK, [Next]_vars PROVE Held'
  OBVIOUS
<1>0. Held
  BY DEF TypeOK, Held
<1>1. CASE InitPath \/ \E p \in Paths : OwnerPath(p)
  <2>1. PICK p \in Paths : SetVideoPath(p)
    BY <1>1 DEF InitPath, OwnerPath
  <2>2. reused' \in BOOLEAN
    BY <1>0, <1>1 DEF InitPath, OwnerPath, Held
  <2> QED BY <1>0, <2>1, <2>2, OpenType DEF Held
<1>2. CASE InitPlay \/ OwnerPlay
  <2>1. Play
    BY <1>2 DEF InitPlay, OwnerPlay
  <2>2. reused' \in BOOLEAN
    BY <1>0, <1>2 DEF InitPlay, OwnerPlay, Held
  <2>3. pos' \in 0..FrameCount
    BY <1>0, <2>1, ViewAssumption DEF Held, Play
  <2>4. misused' \in BOOLEAN
    BY <1>0, <2>1 DEF Held, Play
  <2>5. UNCHANGED <<videoPath, formatContext, codecContext, avFrame, playInitSuccess, image>>
    BY <2>1 DEF Play
  <2> QED BY <1>0, <2>2, <2>3, <2>4, <2>5 DEF Held
<1>3. CASE OwnerHalts
  BY <1>0, <1>3 DEF OwnerHalts, Held, inputVars
<1>4. ASSUME NEW t \in 1..MaxCalls + 1, Tick(t) PROVE Held'
  <2>0. UNCHANGED <<videoPath, reused>>
    BY <1>4 DEF Tick, ownerVars
  <2>1. CASE Decodable /\ NextFrame
    <3>1. pos' \in 1..FrameCount /\ formatContext \in Paths
      BY <1>0, <2>1, ViewAssumption DEF Held, NextFrame, Decodable, Seekable
    <3>2. image' \in Pictures
      <4>1. image' = <<formatContext, pos'>> \/ image' = <<None, pos'>>
        BY <2>1 DEF NextFrame, ImageFromFrame
      <4>2. formatContext \in Paths \cup {None} /\ None \in Paths \cup {None}
        BY <3>1
      <4> QED BY <3>1, <4>1, <4>2 DEF Pictures
    <3>3. pos' \in 0..FrameCount
      BY <3>1
    <3>4. UNCHANGED <<formatContext, codecContext, avFrame, playInitSuccess, misused>>
      BY <2>1 DEF NextFrame
    <3> QED BY <1>0, <2>0, <3>2, <3>3, <3>4 DEF Held
  <2>2. CASE EndOfFile(t)
    BY <1>0, <2>0, <2>2 DEF EndOfFile, ReleaseResources, Held
  <2>3. CASE ~Decodable /\ misused' = TRUE /\ UNCHANGED <<inputVars, image, timers>>
    BY <1>0, <2>0, <2>3 DEF inputVars, Held
  <2> QED BY <1>4, <2>1, <2>2, <2>3 DEF Tick
<1>5. CASE UNCHANGED vars
  BY <1>0, <1>5 DEF vars, ownerVars, inputVars, Held
<1> QED BY <1>1, <1>2, <1>3, <1>4, <1>5 DEF Next

(* Types and the number of timers are kept by every step.                  *)
LEMMA TypeStep == TypeOK /\ CountInv /\ [Next]_vars => TypeOK' /\ CountInv'
BY CountStep, HeldStep DEF TypeOK, Counted, Held

(* The view keeps its types: it never has more timers than its owner has   *)
(* asked for, and shows no picture but of a frame of a file.               *)
THEOREM TypeCorrect == Spec => []TypeOK
<1> QED BY InitType, TypeStep, PTL DEF Spec

-----------------------------------------------------------------------------
(* The pictures.                                                           *)

(* While a view is not reused its open input is of the path set last, the  *)
(* picture is of the frame decoded last, and no call of play rewinds it.   *)
PictureInv ==
  ~reused =>
    /\ formatContext \in {videoPath, None}
    /\ stage # "run" => image = None /\ pos = 0
    /\ Decodable => IF pos = 0 THEN image = None ELSE image # None /\ image[2] = pos

(* A step keeps the picture with the input, or shows the next frame.       *)
LEMMA PictureStep ==
  TypeOK /\ IInv /\ PictureInv /\ [Next]_vars =>
    /\ PictureInv'
    /\ ~reused' /\ image' # image =>
         image'[1] \in {videoPath, None} /\ image'[2] = NextNumber
<1> SUFFICES ASSUME TypeOK, IInv, PictureInv, [Next]_vars, ~reused'
             PROVE  /\ PictureInv'
                    /\ image' # image =>
                         image'[1] \in {videoPath, None} /\ image'[2] = NextNumber
  BY DEF PictureInv
<1>0. ~reused
  BY DEF Next, InitPath, InitPlay, OwnerPath, OwnerPlay, OwnerHalts, Tick, ownerVars, vars
<1> USE <1>0 DEF PictureInv, Decodable, Seekable, inputVars, timerVars, ownerVars
<1>1. CASE InitPath
  <2>1. PICK p \in Paths : SetVideoPath(p)
    BY <1>1 DEF InitPath
  <2>2. stage = "path" /\ formatContext = None /\ image = None /\ pos = 0
    BY <1>1 DEF InitPath, IInv, OneTimer
  <2> QED BY <1>1, <2>1, <2>2 DEF InitPath, SetVideoPath, OpenInput, ReopenInput
<1>2. CASE InitPlay
  BY <1>2 DEF InitPlay, Play, StartPalyWithFPS
<1>3. CASE OwnerHalts
  BY <1>3 DEF OwnerHalts, OwnerCalls
<1>4. ASSUME NEW t \in 1..MaxCalls + 1, Tick(t)
      PROVE  /\ PictureInv'
             /\ image' # image =>
                  image'[1] \in {videoPath, None} /\ image'[2] = NextNumber
  <2>1. Decodable /\ stage = "run"
    BY <1>4 DEF IInv, OneTimer, TimerHasInput, Tick, TypeOK
  <2>2. CASE NextFrame
    <3>1. pos' = pos + 1 /\ pos \in Nat /\ pos < FrameCount
      BY <2>2 DEF NextFrame, TypeOK
    <3>2. PICK p \in {videoPath, None} : image' = <<p, pos + 1>>
      BY <2>1, <2>2, <3>1 DEF NextFrame, ImageFromFrame, TypeOK
    <3>3. image' \in Pictures
      BY <3>1, <3>2, ViewAssumption DEF Pictures, TypeOK
    <3>4. image' # None
      BY <3>3, ViewAssumption DEF Pictures
    <3>5. image'[1] \in {videoPath, None} /\ image'[2] = pos + 1
      BY <3>2
    <3>6. NextNumber = pos + 1
      BY <2>1, <3>1 DEF NextNumber
    <3> QED BY <1>4, <2>1, <2>2, <3>1, <3>4, <3>5, <3>6 DEF Tick, NextFrame
  <2>3. CASE EndOfFile(t)
    BY <1>4, <2>1, <2>3 DEF Tick, EndOfFile, ReleaseResources
  <2> QED BY <1>4, <2>1, <2>2, <2>3 DEF Tick
<1>5. CASE UNCHANGED vars
  BY <1>5 DEF vars
<1> QED BY <1>1, <1>2, <1>3, <1>4, <1>5 DEF Next, OwnerPath, OwnerPlay

(* While a view is not reused, each picture is of the next frame of the    *)
(* video whose path was set, or nil in the place of that frame.            *)
THEOREM ShowsInOrder == Spec => ShowsNextFrame
<1>1. Init => PictureInv
  BY ViewAssumption DEF Init, PictureInv, Decodable, Seekable
<1> QED BY <1>1, InitType, InitIInv, TypeStep, IInvStep, PictureStep, PTL DEF Spec, ShowsNextFrame
=============================================================================
