---------------------------- MODULE AssetReader ----------------------------
(***************************************************************************)
(* LYAssetReader together with the draw loop of MTKManager that polls it.  *)
(*                                                                         *)
(* Two kinds of threads share one LYAssetReader under an NSLock:           *)
(*   - the draw thread: drawInMTKView calls readBuffer for every frame;    *)
(*   - a block of the global queue, run when the "tracks" key of the asset *)
(*     has been loaded: it calls processWithAsset, which builds the        *)
(*     AVAssetReader and its track output.                                 *)
(* readBuffer starts a new load (customInit) when the reader has           *)
(* completed, so that the file is played in a loop.  The manager is a root *)
(* view controller, never released, so the weak reference the block holds  *)
(* is never nil.                                                           *)
(*                                                                         *)
(* A load is an asynchronous load of the asset; the AVAssetReader and the  *)
(* track output a load builds are named by that load.                      *)
(***************************************************************************)
EXTENDS Naturals, FiniteSets

CONSTANTS
  Loads,       \* identities of loads: how many may be in flight at once
  None,        \* the nil pointer, and the free lock
  FrameCount,  \* samples of the video track
  Faults       \* what may go wrong in AVFoundation, a subset of FaultKinds

Draw == "draw"   \* the draw thread, as a holder of the lock

FaultKinds ==
  { "tracks",    \* the load ends with a status other than Loaded
    "reader",    \* assetReaderWithAsset returns nil
    "novideo",   \* the asset has no video track
    "start",     \* startReading returns NO
    "read" }     \* reading fails in the middle of the track

ASSUME ConstantsAssumption ==
  /\ Loads # {}
  /\ None \notin Loads
  /\ None \notin Loads \X (1..FrameCount)
  /\ Draw \notin Loads
  /\ None # Draw
  /\ FrameCount \in Nat \ {0}
  /\ Faults \subseteq FaultKinds

VARIABLES
  lock,         \* holder of the NSLock
  load,         \* how far each load has come
  assetReader,  \* the ivar: a load's reader, or nil
  trackOutput,  \* the ivar readerVideoTrackOutput: a load's output, or nil
  status,       \* status of each load's AVAssetReader; "nil" when there is none
  pos,          \* number of samples read from each load's reader
  drawPc,       \* where the draw thread is
  descriptor,   \* this draw has got a render pass descriptor
  sample,       \* the sample buffer readBuffer got for this draw, or nil
  owned,        \* this draw retains its sample buffer
  leaked,       \* a sample buffer of an earlier draw is retained for good
  crashed       \* an Objective-C exception has ended the process

readerVars == <<assetReader, trackOutput, status, pos>>
drawVars   == <<drawPc, descriptor, sample, owned, leaked>>
vars == <<lock, load, readerVars, drawVars, crashed>>

LoadStates   == {"idle", "loading", "waiting", "reader", "output", "start", "unlock"}
ReaderStates == {"nil", "unknown", "reading", "completed", "failed"}
Samples      == Loads \X (1..FrameCount)   \* a load's reader, and a place in the track
DrawStates   == {"idle", "wantLock", "copy", "check", "unlock", "encode"}

TypeOK ==
  /\ lock \in Loads \cup {None, Draw}
  /\ load \in [Loads -> LoadStates]
  /\ assetReader \in Loads \cup {None}
  /\ trackOutput \in Loads \cup {None}
  /\ status \in [Loads -> ReaderStates]
  /\ pos \in [Loads -> 0..FrameCount]
  /\ drawPc \in DrawStates
  /\ descriptor \in BOOLEAN
  /\ sample \in Samples \cup {None}
  /\ owned \in BOOLEAN
  /\ leaked \in BOOLEAN
  /\ crashed \in BOOLEAN

-----------------------------------------------------------------------------
(* Start-up: viewDidLoad makes the reader, whose initWithUrl starts a load. *)

Init ==
  /\ lock = None
  /\ \E first \in Loads :
       load = [l \in Loads |-> IF l = first THEN "loading" ELSE "idle"]
  /\ assetReader = None
  /\ trackOutput = None
  /\ status = [l \in Loads |-> "nil"]
  /\ pos = [l \in Loads |-> 0]
  /\ drawPc = "idle"
  /\ descriptor = FALSE
  /\ sample = None
  /\ owned = FALSE
  /\ leaked = FALSE
  /\ crashed = FALSE

-----------------------------------------------------------------------------
(* The block of a load, on the global queue.                               *)

(* customInit's completion handler found the tracks loaded: it goes on to  *)
(* processWithAsset, which first takes the lock.                           *)
TracksLoaded(l) ==
  /\ load[l] = "loading"
  /\ load' = [load EXCEPT ![l] = "waiting"]
  /\ UNCHANGED <<lock, readerVars, drawVars, crashed>>

(* The tracks could not be loaded: the block logs the error and returns.   *)
TracksFailed(l) ==
  /\ load[l] = "loading"
  /\ "tracks" \in Faults
  /\ load' = [load EXCEPT ![l] = "idle"]
  /\ UNCHANGED <<lock, readerVars, drawVars, crashed>>

(* Faulty form: the block does not take the lock.                          *)
ProcessLockNot(l) ==
  /\ load[l] = "waiting"
  /\ load' = [load EXCEPT ![l] = "reader"]
  /\ UNCHANGED <<lock, readerVars, drawVars, crashed>>

ProcessLock(l) ==
  /\ load[l] = "waiting"
  /\ lock = None
  /\ lock' = l
  /\ load' = [load EXCEPT ![l] = "reader"]
  /\ UNCHANGED <<readerVars, drawVars, crashed>>

(* assetReaderWithAsset: a fresh reader, or nil and an error.              *)
CreateReader(l) ==
  /\ load[l] = "reader"
  /\ load' = [load EXCEPT ![l] = "output"]
  /\ \/ /\ assetReader' = l
        /\ status' = [status EXCEPT ![l] = "unknown"]
     \/ /\ "reader" \in Faults
        /\ assetReader' = None
        /\ status' = [status EXCEPT ![l] = "nil"]
  /\ pos' = [pos EXCEPT ![l] = 0]
  /\ UNCHANGED <<lock, trackOutput, drawVars, crashed>>

(* The output for the first video track is stored, and added to the reader *)
(* (if there is one).  Taking the first of no tracks raises an exception.   *)
CreateOutput(l) ==
  /\ load[l] = "output"
  /\ \/ /\ load' = [load EXCEPT ![l] = "start"]
        /\ trackOutput' = l
        /\ UNCHANGED crashed
     \/ /\ "novideo" \in Faults
        /\ crashed' = TRUE
        /\ UNCHANGED <<load, trackOutput>>
  /\ UNCHANGED <<lock, assetReader, status, pos, drawVars>>

(* startReading; a message to nil does nothing and answers NO.             *)
StartReading(l) ==
  /\ load[l] = "start"
  /\ load' = [load EXCEPT ![l] = "unlock"]
  /\ \/ /\ status[l] = "nil"
        /\ UNCHANGED status
     \/ /\ status[l] # "nil"
        /\ \/ status' = [status EXCEPT ![l] = "reading"]
           \/ "start" \in Faults /\ status' = [status EXCEPT ![l] = "failed"]
  /\ UNCHANGED <<lock, assetReader, trackOutput, pos, drawVars, crashed>>

(* Faulty form: an early return that leaves the lock taken.                *)
ProcessUnlockNot(l) ==
  /\ load[l] = "unlock"
  /\ load' = [load EXCEPT ![l] = "idle"]
  /\ UNCHANGED <<lock, readerVars, drawVars, crashed>>

ProcessUnlock(l) ==
  /\ load[l] = "unlock"
  /\ load' = [load EXCEPT ![l] = "idle"]
  /\ lock' = None
  /\ UNCHANGED <<readerVars, drawVars, crashed>>

-----------------------------------------------------------------------------
(* The draw thread: MTKManager's drawInMTKView and readBuffer inside it.   *)

(* The descriptor of this draw is fetched before the sample is read.       *)
DrawBegin(d) ==
  /\ drawPc = "idle"
  /\ drawPc' = "wantLock"
  /\ descriptor' = d
  /\ sample' = None
  /\ owned' = FALSE
  /\ leaked' = (leaked \/ owned)
  /\ UNCHANGED <<lock, load, readerVars, crashed>>

ReadLock ==
  /\ drawPc = "wantLock"
  /\ lock = None
  /\ lock' = Draw
  /\ drawPc' = "copy"
  /\ UNCHANGED <<load, readerVars, descriptor, sample, owned, leaked, crashed>>

(* Faulty form: one sample more than the track has.                        *)
NextSampleTooMany(r) ==
  /\ status[r] = "reading"
  /\ pos[r] <= FrameCount
  /\ sample' = <<r, pos[r] + 1>>
  /\ pos' = [pos EXCEPT ![r] = pos[r] + 1]
  /\ owned' = TRUE
  /\ UNCHANGED status

(* copyNextSampleBuffer on a reader in each state.  The reader may         *)
(* report Completed with its last sample or only when asked once more.     *)
NextSample(r) ==
  /\ status[r] = "reading"
  /\ pos[r] < FrameCount
  /\ sample' = <<r, pos[r] + 1>>
  /\ pos' = [pos EXCEPT ![r] = pos[r] + 1]
  /\ owned' = TRUE
  /\ \/ UNCHANGED status
     \/ /\ pos[r] + 1 = FrameCount
        /\ status' = [status EXCEPT ![r] = "completed"]

NoSample(r) ==
  /\ \/ status[r] \in {"completed", "failed"} /\ UNCHANGED status
     \/ /\ status[r] = "reading" /\ pos[r] = FrameCount
        /\ status' = [status EXCEPT ![r] = "completed"]
     \/ /\ status[r] = "reading" /\ "read" \in Faults
        /\ status' = [status EXCEPT ![r] = "failed"]
  /\ UNCHANGED <<pos, sample, owned>>

(* Copying from an output whose reader is nil or has not been started      *)
(* raises an exception, which nothing catches.                             *)
Unstarted(r) == status[r] \in {"nil", "unknown"}

CopyNextSample ==
  /\ drawPc = "copy"
  /\ \/ /\ trackOutput = None
        /\ drawPc' = "check"
        /\ UNCHANGED <<status, pos, sample, owned, crashed>>
     \/ /\ trackOutput # None
        /\ ~Unstarted(trackOutput)
        /\ NextSample(trackOutput) \/ NoSample(trackOutput)
        /\ drawPc' = "check"
        /\ UNCHANGED crashed
     \/ /\ trackOutput # None
        /\ Unstarted(trackOutput)
        /\ crashed' = TRUE
        /\ UNCHANGED <<status, pos, sample, owned, drawPc>>
  /\ UNCHANGED <<lock, load, assetReader, trackOutput, descriptor, leaked>>

(* A completed reader is dropped and customInit starts the next load.      *)
ReaderCompleted == assetReader # None /\ status[assetReader] = "completed"

StartLoad(l) ==
  /\ load[l] = "idle"
  /\ load' = [load EXCEPT ![l] = "loading"]

(* Faulty form: the reader is dropped at the end but no load is started.   *)
RestartWithoutLoad ==
  /\ drawPc = "check"
  /\ drawPc' = "unlock"
  /\ assetReader' = IF ReaderCompleted THEN None ELSE assetReader
  /\ trackOutput' = IF ReaderCompleted THEN None ELSE trackOutput
  /\ UNCHANGED <<load, lock, status, pos, descriptor, sample, owned, leaked, crashed>>

(* Faulty form: any draw that finds no sample restarts the reading.        *)
RestartOnAnyMiss ==
  /\ drawPc = "check"
  /\ drawPc' = "unlock"
  /\ \/ /\ assetReader # None /\ sample = None
        /\ assetReader' = None
        /\ trackOutput' = None
        /\ \E l \in Loads : StartLoad(l)
     \/ UNCHANGED <<assetReader, trackOutput, load>>
  /\ UNCHANGED <<lock, status, pos, descriptor, sample, owned, leaked, crashed>>

RestartIfCompleted ==
  /\ drawPc = "check"
  /\ drawPc' = "unlock"
  /\ \/ /\ ReaderCompleted
        /\ assetReader' = None
        /\ trackOutput' = None
        /\ \E l \in Loads : StartLoad(l)
     \/ /\ ~ReaderCompleted
        /\ UNCHANGED <<assetReader, trackOutput, load>>
  /\ UNCHANGED <<lock, status, pos, descriptor, sample, owned, leaked, crashed>>

(* readBuffer returns.  Without a descriptor, or without a sample, the     *)
(* draw encodes nothing, and nothing releases a sample it may have got.    *)
ReadUnlock ==
  /\ drawPc = "unlock"
  /\ lock' = None
  /\ drawPc' = IF descriptor /\ sample # None THEN "encode" ELSE "idle"
  /\ UNCHANGED <<load, readerVars, descriptor, sample, owned, leaked, crashed>>

(* Faulty form: the textures are set up without releasing the sample.      *)
EncodeKeeping ==
  /\ drawPc = "encode"
  /\ drawPc' = "idle"
  /\ UNCHANGED <<lock, load, readerVars, descriptor, sample, owned, leaked, crashed>>

(* setupTextureWithEncoder ends with the release of the sample.            *)
Encode ==
  /\ drawPc = "encode"
  /\ drawPc' = "idle"
  /\ owned' = FALSE
  /\ UNCHANGED <<lock, load, readerVars, descriptor, sample, leaked, crashed>>

-----------------------------------------------------------------------------
LoadStep(l) ==
  \/ TracksLoaded(l) \/ TracksFailed(l) \/ ProcessLock(l) \/ CreateReader(l)
  \/ CreateOutput(l) \/ StartReading(l) \/ ProcessUnlock(l)

DrawStep ==
  \/ ReadLock \/ CopyNextSample \/ RestartIfCompleted \/ ReadUnlock \/ Encode

Next ==
  /\ ~crashed
  /\ \/ \E l \in Loads : LoadStep(l)
     \/ \E d \in BOOLEAN : DrawBegin(d)
     \/ DrawStep

Spec == Init /\ [][Next]_vars

(* The blocks of the global queue and the loads behind them make progress  *)
(* and the view goes on drawing.  The draw thread takes the lock for a     *)
(* moment 60 times a second, so a block that waits for it finds it free.   *)
Fairness ==
  /\ \A l \in Loads : WF_vars(~crashed /\ LoadStep(l))
  /\ WF_vars(~crashed /\ (DrawStep \/ \E d \in BOOLEAN : DrawBegin(d)))
  /\ \A l \in Loads : SF_vars(~crashed /\ ProcessLock(l))

FairSpec == Spec /\ Fairness

-----------------------------------------------------------------------------
(* Properties.                                                             *)

InCritical(l) == load[l] \in {"reader", "output", "start", "unlock"}

Reading == assetReader # None /\ status[assetReader] \in {"reading", "completed"}

(* Nothing is in flight and no reader can deliver: playback is over.       *)
Stalled ==
  /\ \A l \in Loads : load[l] = "idle"
  /\ ~Reading

(* Where playback is: a failure ends it for good.                          *)
Phase ==
  IF crashed \/ Stalled
     \/ (assetReader # None /\ status[assetReader] = "failed")
     \/ (trackOutput # None /\ status[trackOutput] = "nil") THEN "dead"
  ELSE IF Reading THEN "playing" ELSE "rewinding"

(* readBuffer never copies from an output that processWithAsset has stored *)
(* but not yet started to read from; the lock spans both ivars.  Only a    *)
(* reader that could not be created leaves such an output behind.          *)
CopiesOnlyStarted ==
  (drawPc = "copy" /\ trackOutput # None /\ Unstarted(trackOutput)) =>
    "reader" \in Faults /\ status[trackOutput] = "nil"

(* A sample buffer outlives its draw only when that draw had no render pass *)
(* descriptor, so that nothing was encoded (MTKManager.m:204-205, 187).     *)
ReleasedIfDrawable == [][~leaked /\ leaked' => ~descriptor]_vars

(* A draw that waits for the lock is never blocked for good, whatever the  *)
(* loads do: drawInMTKView runs on the main thread.                        *)
DrawReturns == drawPc = "wantLock" ~> (drawPc = "idle" \/ crashed)

(* Playback is a loop: a reader that delivers comes to the end of the      *)
(* track, the end of the track leads to another load, and a load leads to  *)
(* a reader that delivers, unless AVFoundation fails and playback is over. *)
Loops ==
  /\ Reading ~> (ReaderCompleted \/ Phase = "dead")
  /\ ReaderCompleted ~> \E l \in Loads : load[l] # "idle"
  /\ (\E l \in Loads : load[l] # "idle") ~> (Reading \/ Phase = "dead")

-----------------------------------------------------------------------------
(* The promise of the reader: the samples of the track in order, from the  *)
(* first to the last, and again from the first; or playback stops.         *)

Playback == INSTANCE LoopingPlayback WITH
  phase <- Phase,
  delivered <- IF Phase = "playing" THEN pos[assetReader] ELSE 0

ImplementsPlayback == Playback!Spec
=============================================================================
