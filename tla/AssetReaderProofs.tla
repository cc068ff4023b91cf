------------------------- MODULE AssetReaderProofs -------------------------
(***************************************************************************)
(* Proofs about AssetReader, for any number of loads, any length of the    *)
(* track and any set of faults.  OneReader and CopiesOnlyStarted are not   *)
(* inductive: that a completed reader may be dropped and a new load begun  *)
(* needs the mutual exclusion of the lock, LockInv, and that an installed  *)
(* output has been started needs to know where each load is, StatusInv.    *)
(* The refinement of LoopingPlayback rests on these and on ReaderInv.      *)
(***************************************************************************)
EXTENDS AssetReader, TLAPS

(* A thread in one of the critical sections holds the lock.                *)
LockInv ==
  /\ \A l \in Loads : InCritical(l) => lock = l
  /\ drawPc \in {"copy", "check", "unlock"} => lock = Draw

(* A reader stays unstarted only inside the critical section of its load,  *)
(* and only a failure to create it leaves an output without one.           *)
StatusInv ==
  /\ \A l \in Loads : status[l] = "unknown" => load[l] \in {"output", "start"}
  /\ \A l \in Loads :
       (load[l] \in {"output", "start"} \/ trackOutput = l) /\ status[l] = "nil" =>
         "reader" \in Faults

(* customInit's promise to the draw loop: at most one load is in flight,   *)
(* and none while another load's reader or output is installed, so that no *)
(* reader is replaced before its last sample (LYAssetReader.m:78-83).       *)
OneReader ==
  \A l \in Loads : load[l] # "idle" =>
    /\ \A m \in Loads \ {l} : load[m] = "idle"
    /\ assetReader \in {None, l} /\ trackOutput \in {None, l}
    /\ load[l] \in {"loading", "waiting", "reader"} =>
         assetReader = None /\ trackOutput = None

IInv == TypeOK /\ LockInv /\ OneReader /\ StatusInv

-----------------------------------------------------------------------------
(* The constants are told apart where the proofs need it.                  *)
LEMMA Distinct == /\ None \notin Loads /\ Draw \notin Loads /\ None # Draw
                  /\ None \notin Samples
                  /\ FrameCount \in Nat /\ FrameCount > 0
  BY ConstantsAssumption DEF Samples

(* Types are kept by every step.                                           *)
LEMMA TypeStep == TypeOK /\ [Next]_vars => TypeOK'
<1> SUFFICES ASSUME TypeOK, [Next]_vars PROVE TypeOK'
  OBVIOUS
<1> USE Distinct DEF TypeOK, LoadStates, ReaderStates, DrawStates, Samples, readerVars, drawVars
<1>1. ASSUME NEW l \in Loads, LoadStep(l) PROVE TypeOK'
  <2>1. CASE TracksLoaded(l)
    BY <2>1 DEF TracksLoaded
  <2>2. CASE TracksFailed(l)
    BY <2>2 DEF TracksFailed
  <2>3. CASE ProcessLock(l)
    BY <2>3 DEF ProcessLock
  <2>4. CASE CreateReader(l)
    BY <2>4 DEF CreateReader
  <2>5. CASE CreateOutput(l)
    BY <2>5 DEF CreateOutput
  <2>6. CASE StartReading(l)
    BY <2>6 DEF StartReading
  <2>7. CASE ProcessUnlock(l)
    BY <2>7 DEF ProcessUnlock
  <2> QED BY <1>1, <2>1, <2>2, <2>3, <2>4, <2>5, <2>6, <2>7 DEF LoadStep
<1>2. ASSUME NEW d \in BOOLEAN, DrawBegin(d) PROVE TypeOK'
  BY <1>2 DEF DrawBegin
<1>3. CASE DrawStep
  <2>1. CASE ReadLock
    BY <2>1 DEF ReadLock
  <2>2. CASE CopyNextSample
    <3>1. CASE trackOutput = None \/ Unstarted(trackOutput)
      BY <2>2, <3>1 DEF CopyNextSample
    <3>2. CASE trackOutput # None /\ NextSample(trackOutput)
      <4>1. pos[trackOutput] \in Nat /\ pos[trackOutput] + 1 \in 1..FrameCount
        BY <3>2 DEF NextSample
      <4>2. sample' \in Samples
        BY <3>2, <4>1 DEF NextSample
      <4>3. pos' \in [Loads -> 0..FrameCount] /\ status' \in [Loads -> ReaderStates]
        BY <3>2, <4>1 DEF NextSample
      <4> QED BY <2>2, <3>2, <4>2, <4>3 DEF CopyNextSample, NextSample
    <3>3. CASE trackOutput # None /\ NoSample(trackOutput)
      BY <2>2, <3>3 DEF CopyNextSample, NoSample
    <3> QED BY <2>2, <3>1, <3>2, <3>3 DEF CopyNextSample
  <2>3. CASE RestartIfCompleted
    BY <2>3 DEF RestartIfCompleted, StartLoad
  <2>4. CASE ReadUnlock
    BY <2>4 DEF ReadUnlock
  <2>5. CASE Encode
    BY <2>5 DEF Encode
  <2> QED BY <1>3, <2>1, <2>2, <2>3, <2>4, <2>5 DEF DrawStep
<1>4. CASE UNCHANGED vars
  BY <1>4 DEF vars
<1> QED BY <1>1, <1>2, <1>3, <1>4 DEF Next

(* A critical section is entered with the lock free and left by freeing it. *)
LEMMA LockStep == TypeOK /\ LockInv /\ [Next]_vars => LockInv'
<1> SUFFICES ASSUME TypeOK, LockInv, [Next]_vars PROVE LockInv'
  OBVIOUS
<1> USE Distinct DEF TypeOK, LockInv, InCritical, readerVars, drawVars
<1>1. ASSUME NEW l \in Loads, LoadStep(l) PROVE LockInv'
  <2>1. CASE TracksLoaded(l) \/ TracksFailed(l)
    BY <2>1 DEF TracksLoaded, TracksFailed
  <2>2. CASE ProcessLock(l)
    BY <2>2 DEF ProcessLock
  <2>3. CASE CreateReader(l) \/ CreateOutput(l) \/ StartReading(l)
    BY <2>3 DEF CreateReader, CreateOutput, StartReading
  <2>4. CASE ProcessUnlock(l)
    BY <2>4 DEF ProcessUnlock
  <2> QED BY <1>1, <2>1, <2>2, <2>3, <2>4 DEF LoadStep
<1>2. ASSUME NEW d \in BOOLEAN, DrawBegin(d) PROVE LockInv'
  BY <1>2 DEF DrawBegin
<1>3. CASE DrawStep
  <2>1. CASE ReadLock
    BY <2>1 DEF ReadLock
  <2>2. CASE CopyNextSample
    BY <2>2 DEF CopyNextSample
  <2>3. CASE RestartIfCompleted
    BY <2>3 DEF RestartIfCompleted, StartLoad
  <2>4. CASE ReadUnlock
    BY <2>4 DEF ReadUnlock
  <2>5. CASE Encode
    BY <2>5 DEF Encode
  <2> QED BY <1>3, <2>1, <2>2, <2>3, <2>4, <2>5 DEF DrawStep
<1>4. CASE UNCHANGED vars
  BY <1>4 DEF vars
<1> QED BY <1>1, <1>2, <1>3, <1>4 DEF Next

(* While the draw thread is inside readBuffer with a reader installed, no   *)
(* load is in flight: a load that has installed its reader holds the lock.  *)
LEMMA DrawAloneWithReader ==
  ASSUME TypeOK, LockInv, OneReader, drawPc \in {"copy", "check", "unlock"},
         assetReader # None \/ trackOutput # None
  PROVE  \A l \in Loads : load[l] = "idle"
BY Distinct DEF TypeOK, LockInv, OneReader, InCritical, LoadStates

(* A reader is replaced only after it was dropped.                          *)
LEMMA OneReaderStep ==
  TypeOK /\ LockInv /\ OneReader /\ [Next]_vars => OneReader'
<1> SUFFICES ASSUME TypeOK, LockInv, OneReader, [Next]_vars PROVE OneReader'
  OBVIOUS
<1> USE Distinct DEF TypeOK, OneReader, readerVars, drawVars
<1>1. ASSUME NEW l \in Loads, LoadStep(l) PROVE OneReader'
  <2>1. CASE TracksLoaded(l)
    BY <2>1 DEF TracksLoaded
  <2>2. CASE TracksFailed(l)
    BY <2>2 DEF TracksFailed
  <2>3. CASE ProcessLock(l)
    BY <2>3 DEF ProcessLock
  <2>4. CASE CreateReader(l)
    BY <2>4 DEF CreateReader
  <2>5. CASE CreateOutput(l)
    BY <2>5 DEF CreateOutput
  <2>6. CASE StartReading(l)
    BY <2>6 DEF StartReading
  <2>7. CASE ProcessUnlock(l)
    BY <2>7 DEF ProcessUnlock
  <2> QED BY <1>1, <2>1, <2>2, <2>3, <2>4, <2>5, <2>6, <2>7 DEF LoadStep
<1>2. ASSUME NEW d \in BOOLEAN, DrawBegin(d) PROVE OneReader'
  BY <1>2 DEF DrawBegin
<1>3. CASE DrawStep
  <2>1. CASE RestartIfCompleted
    <3>1. CASE ReaderCompleted
      <4>1. \A l \in Loads : load[l] = "idle"
        BY <2>1, <3>1, DrawAloneWithReader DEF RestartIfCompleted, ReaderCompleted
      <4> QED BY <2>1, <3>1, <4>1 DEF RestartIfCompleted, StartLoad
    <3>2. CASE ~ReaderCompleted
      BY <2>1, <3>2 DEF RestartIfCompleted
    <3> QED BY <3>1, <3>2
  <2>2. CASE ReadLock \/ CopyNextSample \/ ReadUnlock \/ Encode
    BY <2>2 DEF ReadLock, CopyNextSample, ReadUnlock, Encode
  <2> QED BY <1>3, <2>1, <2>2 DEF DrawStep
<1>4. CASE UNCHANGED vars
  BY <1>4 DEF vars
<1> QED BY <1>1, <1>2, <1>3, <1>4 DEF Next

(* Where a reader that has not been started can be.                         *)
LEMMA StatusStep ==
  TypeOK /\ LockInv /\ OneReader /\ StatusInv /\ [Next]_vars => StatusInv'
<1> SUFFICES ASSUME TypeOK, LockInv, OneReader, StatusInv, [Next]_vars PROVE StatusInv'
  OBVIOUS
<1> USE Distinct DEF TypeOK, StatusInv, readerVars, drawVars
<1>1. ASSUME NEW l \in Loads, LoadStep(l) PROVE StatusInv'
  <2>1. CASE TracksLoaded(l) \/ TracksFailed(l)
    BY <2>1 DEF TracksLoaded, TracksFailed
  <2>2. CASE ProcessLock(l)
    BY <2>2 DEF ProcessLock
  <2>3. CASE CreateReader(l)
    BY <2>3 DEF CreateReader, OneReader
  <2>4. CASE CreateOutput(l)
    BY <2>4 DEF CreateOutput
  <2>5. CASE StartReading(l)
    BY <2>5 DEF StartReading
  <2>6. CASE ProcessUnlock(l)
    BY <2>6 DEF ProcessUnlock
  <2> QED BY <1>1, <2>1, <2>2, <2>3, <2>4, <2>5, <2>6 DEF LoadStep
<1>2. ASSUME NEW d \in BOOLEAN, DrawBegin(d) PROVE StatusInv'
  BY <1>2 DEF DrawBegin
<1>3. CASE DrawStep
  <2>1. CASE CopyNextSample
    <3>1. CASE trackOutput = None \/ Unstarted(trackOutput)
      BY <2>1, <3>1 DEF CopyNextSample
    <3>2. CASE trackOutput # None /\ NextSample(trackOutput)
      BY <2>1, <3>2 DEF CopyNextSample, NextSample
    <3>3. CASE trackOutput # None /\ NoSample(trackOutput)
      BY <2>1, <3>3 DEF CopyNextSample, NoSample
    <3> QED BY <2>1, <3>1, <3>2, <3>3 DEF CopyNextSample
  <2>2. CASE RestartIfCompleted
    BY <2>2 DEF RestartIfCompleted, StartLoad
  <2>3. CASE ReadLock \/ ReadUnlock \/ Encode
    BY <2>3 DEF ReadLock, ReadUnlock, Encode
  <2> QED BY <1>3, <2>1, <2>2, <2>3 DEF DrawStep
<1>4. CASE UNCHANGED vars
  BY <1>4 DEF vars
<1> QED BY <1>1, <1>2, <1>3, <1>4 DEF Next

-----------------------------------------------------------------------------
(* One load is in flight at first, and nothing is locked or installed.    *)
LEMMA InitIInv == Init => IInv
<1> SUFFICES ASSUME Init PROVE IInv
  OBVIOUS
<1> USE Distinct DEF Init
<1>1. TypeOK
  <2>1. PICK first \in Loads :
          load = [l \in Loads |-> IF l = first THEN "loading" ELSE "idle"]
    OBVIOUS
  <2>2. load \in [Loads -> LoadStates]
    BY <2>1 DEF LoadStates
  <2>3. status \in [Loads -> ReaderStates] /\ pos \in [Loads -> 0..FrameCount]
    BY DEF ReaderStates
  <2> QED BY <2>2, <2>3 DEF TypeOK, DrawStates
<1>2. LockInv /\ StatusInv
  BY DEF LockInv, InCritical, StatusInv
<1>3. OneReader
  BY DEF OneReader
<1> QED BY <1>1, <1>2, <1>3 DEF IInv

(* The invariant of the specification.                                      *)
THEOREM Invariance == Spec => []IInv
<1>1. IInv /\ [Next]_vars => IInv'
  BY TypeStep, LockStep, OneReaderStep, StatusStep DEF IInv
<1> QED BY InitIInv, <1>1, PTL DEF Spec

(* Every variable keeps its type, for any number of loads and samples.      *)
THEOREM TypeCorrect == Spec => []TypeOK
<1>1. IInv => TypeOK
  BY DEF IInv
<1> QED BY Invariance, <1>1, PTL

(* At most one load is in flight, and no installed reader is replaced.      *)
THEOREM AtMostOneReader == Spec => []OneReader
<1>1. IInv => OneReader
  BY DEF IInv
<1> QED BY Invariance, <1>1, PTL

(* The draw thread copies only from a reader that has been started, unless  *)
(* the reader could not be created at all.                                  *)
THEOREM CopiesSafely == Spec => []CopiesOnlyStarted
<1>1. IInv => CopiesOnlyStarted
  <2> SUFFICES ASSUME IInv, drawPc = "copy", trackOutput # None, Unstarted(trackOutput)
               PROVE  "reader" \in Faults /\ status[trackOutput] = "nil"
    BY DEF CopiesOnlyStarted
  <2> USE Distinct DEF IInv, TypeOK
  <2>1. \A l \in Loads : load[l] = "idle"
    BY DrawAloneWithReader
  <2>2. status[trackOutput] # "unknown"
    BY <2>1 DEF StatusInv
  <2> QED BY <2>2 DEF StatusInv, Unstarted
<1> QED BY Invariance, <1>1, PTL

-----------------------------------------------------------------------------
(* A draw retains only a sample it has got, and at its end only if it had   *)
(* no descriptor.                                                           *)
OwnedInv ==
  /\ drawPc \in {"wantLock", "copy"} => sample = None /\ ~owned
  /\ drawPc \in {"check", "unlock"} /\ owned => sample # None
  /\ drawPc = "idle" /\ owned => ~descriptor

(* Every step of a draw, and every load beside it, keeps OwnedInv.        *)
LEMMA OwnedStep == TypeOK /\ OwnedInv /\ [Next]_vars => OwnedInv'
<1> SUFFICES ASSUME TypeOK, OwnedInv, [Next]_vars PROVE OwnedInv'
  OBVIOUS
<1> USE Distinct DEF TypeOK, OwnedInv, readerVars, drawVars
<1>1. ASSUME NEW l \in Loads, LoadStep(l) PROVE OwnedInv'
  BY <1>1 DEF LoadStep, TracksLoaded, TracksFailed, ProcessLock, CreateReader, CreateOutput,
              StartReading, ProcessUnlock
<1>2. ASSUME NEW d \in BOOLEAN, DrawBegin(d) PROVE OwnedInv'
  BY <1>2 DEF DrawBegin
<1>3. CASE DrawStep
  <2>1. CASE CopyNextSample
    <3>1. CASE trackOutput = None \/ Unstarted(trackOutput)
      BY <2>1, <3>1 DEF CopyNextSample
    <3>2. CASE trackOutput # None /\ NextSample(trackOutput)
      <4>1. sample' # None
        <5>1. sample' \in Samples
          <6>1. trackOutput \in Loads /\ pos[trackOutput] + 1 \in 1..FrameCount
            BY <3>2 DEF NextSample
          <6> QED BY <3>2, <6>1 DEF NextSample, Samples
        <5> QED BY <5>1
      <4> QED BY <2>1, <3>2, <4>1 DEF CopyNextSample, NextSample
    <3>3. CASE trackOutput # None /\ NoSample(trackOutput)
      BY <2>1, <3>3 DEF CopyNextSample, NoSample
    <3> QED BY <2>1, <3>1, <3>2, <3>3 DEF CopyNextSample
  <2>2. CASE ReadLock \/ RestartIfCompleted \/ ReadUnlock \/ Encode
    BY <2>2 DEF ReadLock, RestartIfCompleted, ReadUnlock, Encode
  <2> QED BY <1>3, <2>1, <2>2 DEF DrawStep
<1>4. CASE UNCHANGED vars
  BY <1>4 DEF vars
<1> QED BY <1>1, <1>2, <1>3, <1>4 DEF Next

(* Only a draw without a render pass descriptor leaks its sample buffer.    *)
THEOREM LeaksOnlyHidden == Spec => ReleasedIfDrawable
<1>1. Init => OwnedInv
  BY DEF Init, OwnedInv
<1>2. Spec => []OwnedInv
  BY <1>1, TypeCorrect, OwnedStep, PTL DEF Spec
<1>3. OwnedInv /\ [Next]_vars => [~leaked /\ leaked' => ~descriptor]_vars
  <2> SUFFICES ASSUME OwnedInv, Next, ~leaked, leaked' PROVE ~descriptor
    BY DEF vars
  <2>1. CASE \E d \in BOOLEAN : DrawBegin(d)
    BY <2>1 DEF DrawBegin, OwnedInv
  <2>2. CASE \E l \in Loads : LoadStep(l)
    BY <2>2 DEF LoadStep, TracksLoaded, TracksFailed, ProcessLock, CreateReader,
                CreateOutput, StartReading, ProcessUnlock, drawVars
  <2>3. CASE DrawStep
    BY <2>3 DEF DrawStep, ReadLock, CopyNextSample, RestartIfCompleted, ReadUnlock,
                Encode, NextSample, NoSample
  <2> QED BY <2>1, <2>2, <2>3 DEF Next
<1> QED BY <1>2, <1>3, PTL DEF Spec, ReleasedIfDrawable
-----------------------------------------------------------------------------
(* The refinement.  An installed reader has its output, but for a moment;  *)
(* it starts at the first sample and is completed at the last.             *)
ReaderInv ==
  /\ assetReader # None =>
       /\ status[assetReader] # "nil"
       /\ trackOutput = assetReader \/ (trackOutput = None /\ load[assetReader] = "output")
  /\ \A l \in Loads :
       /\ status[l] = "unknown" => pos[l] = 0
       /\ status[l] = "completed" => pos[l] = FrameCount
       /\ load[l] \in {"output", "start"} =>
            status[l] = "nil" \/ (status[l] = "unknown" /\ assetReader = l)

(* Nothing is installed or started at first.                               *)
LEMMA InitReader == Init => ReaderInv
<1> SUFFICES ASSUME Init PROVE ReaderInv
  OBVIOUS
<1>1. \A l \in Loads : status[l] = "nil" /\ load[l] \in {"loading", "idle"}
  BY DEF Init
<1> QED BY <1>1 DEF Init, ReaderInv

(* Readers are made, started, read and dropped so that ReaderInv holds.    *)
LEMMA ReaderStep == IInv /\ ReaderInv /\ [Next]_vars => ReaderInv'
<1> SUFFICES ASSUME IInv, ReaderInv, [Next]_vars PROVE ReaderInv'
  OBVIOUS
<1> USE Distinct DEF IInv, TypeOK, ReaderInv, readerVars, drawVars
<1>1. ASSUME NEW l \in Loads, LoadStep(l) PROVE ReaderInv'
  <2>1. CASE TracksLoaded(l) \/ TracksFailed(l) \/ ProcessLock(l) \/ ProcessUnlock(l)
    BY <2>1 DEF TracksLoaded, TracksFailed, ProcessLock, ProcessUnlock
  <2>2. CASE CreateReader(l)
    <3>1. trackOutput = None
      BY <2>2 DEF CreateReader, OneReader
    <3> QED BY <2>2, <3>1 DEF CreateReader, OneReader
  <2>3. CASE CreateOutput(l)
    BY <2>3 DEF CreateOutput, OneReader
  <2>4. CASE StartReading(l)
    BY <2>4 DEF StartReading, OneReader
  <2> QED BY <1>1, <2>1, <2>2, <2>3, <2>4 DEF LoadStep
<1>2. ASSUME NEW d \in BOOLEAN, DrawBegin(d) PROVE ReaderInv'
  BY <1>2 DEF DrawBegin
<1>3. CASE DrawStep
  <2>1. CASE CopyNextSample
    <3>1. CASE trackOutput = None \/ Unstarted(trackOutput)
      BY <2>1, <3>1 DEF CopyNextSample
    <3>2. CASE trackOutput # None /\ NextSample(trackOutput)
      BY <2>1, <3>2 DEF CopyNextSample, NextSample
    <3>3. CASE trackOutput # None /\ NoSample(trackOutput)
      BY <2>1, <3>3 DEF CopyNextSample, NoSample
    <3> QED BY <2>1, <3>1, <3>2, <3>3 DEF CopyNextSample
  <2>2. CASE RestartIfCompleted
    <3>1. CASE ReaderCompleted
      <4>1. \A l \in Loads : load[l] = "idle"
        BY <2>2, <3>1, DrawAloneWithReader DEF RestartIfCompleted, ReaderCompleted
      <4> QED BY <2>2, <3>1, <4>1 DEF RestartIfCompleted, StartLoad
    <3>2. CASE ~ReaderCompleted
      BY <2>2, <3>2 DEF RestartIfCompleted
    <3> QED BY <3>1, <3>2
  <2>3. CASE ReadLock \/ ReadUnlock \/ Encode
    BY <2>3 DEF ReadLock, ReadUnlock, Encode
  <2> QED BY <1>3, <2>1, <2>2, <2>3 DEF DrawStep
<1>4. CASE UNCHANGED vars
  BY <1>4 DEF vars
<1> QED BY <1>1, <1>2, <1>3, <1>4 DEF Next

(* Playback is over: the first case of Phase.                              *)
Over ==
  \/ crashed \/ Stalled
  \/ assetReader # None /\ status[assetReader] = "failed"
  \/ trackOutput # None /\ status[trackOutput] = "nil"

(* What a step may do to playback: it stays over once it is, a reader that *)
(* delivers gives the next sample or none, one that begins is at its first *)
(* sample, and one is dropped after its last.                              *)
Advances ==
  /\ Over => Over'
  /\ Reading /\ Reading' /\ ~Over' =>
       \/ pos'[assetReader'] = pos[assetReader]
       \/ pos[assetReader] < FrameCount /\ pos'[assetReader'] = pos[assetReader] + 1
  /\ ~Reading /\ Reading' /\ ~Over' => pos'[assetReader'] = 0
  /\ Reading /\ ~Reading' /\ ~Over' => pos[assetReader] = FrameCount

(* Such a step is one of LoopingPlayback, or stutters.                     *)
LEMMA AdvancesIsNext ==
  Advances => [Playback!Next]_<<Phase, IF Phase = "playing" THEN pos[assetReader] ELSE 0>>
<1> SUFFICES ASSUME Advances
             PROVE  [Playback!Next]_<<Phase, IF Phase = "playing" THEN pos[assetReader] ELSE 0>>
  OBVIOUS
<1>1. Phase = IF Over THEN "dead" ELSE IF Reading THEN "playing" ELSE "rewinding"
  BY DEF Phase, Over
<1>2. Phase' = IF Over' THEN "dead" ELSE IF Reading' THEN "playing" ELSE "rewinding"
  BY DEF Phase, Over
<1> USE DEF Advances
<1>3. CASE Over
  BY <1>1, <1>2, <1>3
<1>4. CASE ~Over /\ Over'
  BY <1>1, <1>2, <1>4 DEF Playback!Next, Playback!Fail
<1>5. CASE ~Over /\ ~Over' /\ Reading /\ Reading'
  BY <1>1, <1>2, <1>5 DEF Playback!Next, Playback!Deliver
<1>6. CASE ~Over /\ ~Over' /\ ~Reading /\ Reading'
  BY <1>1, <1>2, <1>6 DEF Playback!Next, Playback!StartPass
<1>7. CASE ~Over /\ ~Over' /\ Reading /\ ~Reading'
  BY <1>1, <1>2, <1>7 DEF Playback!Next, Playback!EndPass
<1>8. CASE ~Over /\ ~Over' /\ ~Reading /\ ~Reading'
  BY <1>1, <1>2, <1>8
<1> QED BY <1>3, <1>4, <1>5, <1>6, <1>7, <1>8

(* A step that leaves the readers alone and ends no load changes nothing.  *)
LEMMA LeavesReaders ==
  ASSUME UNCHANGED <<readerVars, crashed>>,
         (\A l \in Loads : load[l] = "idle") => (\A l \in Loads : load'[l] = "idle")
  PROVE  Advances
<1>1. (Reading' <=> Reading) /\ (Over => Over')
  BY DEF Reading, Over, Stalled, readerVars
<1> QED BY <1>1 DEF Advances, readerVars, Reading

(* Every step advances playback.                                           *)
LEMMA AdvanceStep == IInv /\ ReaderInv /\ [Next]_vars => Advances
<1> SUFFICES ASSUME IInv, ReaderInv, [Next]_vars PROVE Advances
  OBVIOUS
<1> USE Distinct DEF IInv, TypeOK
<1>1. ASSUME NEW l \in Loads, LoadStep(l) PROVE Advances
  <2>1. CASE TracksLoaded(l) \/ TracksFailed(l) \/ ProcessLock(l) \/ ProcessUnlock(l)
    <3>1. UNCHANGED <<readerVars, crashed>> /\ load[l] # "idle"
      BY <2>1 DEF TracksLoaded, TracksFailed, ProcessLock, ProcessUnlock
    <3> QED BY <3>1, LeavesReaders
  <2>2. CASE CreateReader(l)
    <3>1. assetReader = None /\ trackOutput = None /\ load[l] # "idle" /\ trackOutput' = None
      BY <2>2 DEF CreateReader, OneReader
    <3>2. ~Reading /\ ~Reading'
      BY <2>2, <3>1 DEF CreateReader, Reading
    <3>3. Over => crashed
      BY <3>1 DEF Over, Stalled
    <3>4. crashed' = crashed
      BY <2>2 DEF CreateReader
    <3> QED BY <3>2, <3>3, <3>4 DEF Advances, Over
  <2>3. CASE CreateOutput(l)
    <3>1. Reading' = Reading /\ UNCHANGED <<assetReader, status, pos>>
      BY <2>3 DEF CreateOutput, Reading
    <3>2. load[l] # "idle" /\ (trackOutput # None => trackOutput = l) /\ (crashed => crashed')
      BY <2>3 DEF CreateOutput, OneReader
    <3>3. Over => Over'
      BY <2>3, <3>1, <3>2 DEF CreateOutput, Over, Stalled
    <3> QED BY <3>1, <3>3 DEF Advances, Reading
  <2>4. CASE StartReading(l)
    <3>1. UNCHANGED <<assetReader, trackOutput, pos, crashed>> /\ load[l] # "idle"
      BY <2>4 DEF StartReading
    <3>2. CASE status[l] = "nil"
      <4>1. UNCHANGED status
        BY <2>4, <3>2 DEF StartReading
      <4> QED BY <3>1, <4>1 DEF Advances, Reading, Over, Stalled
    <3>3. CASE status[l] # "nil"
      <4>1. status[l] = "unknown" /\ assetReader = l /\ trackOutput \in {None, l} /\ pos[l] = 0
        BY <2>4, <3>3 DEF StartReading, ReaderInv
      <4>2. ~Reading /\ (Over => crashed)
        BY <3>1, <4>1 DEF Reading, Over, Stalled
      <4> QED BY <3>1, <4>1, <4>2 DEF Advances, Over
    <3> QED BY <3>2, <3>3
  <2> QED BY <1>1, <2>1, <2>2, <2>3, <2>4 DEF LoadStep
<1>2. ASSUME NEW d \in BOOLEAN, DrawBegin(d) PROVE Advances
  <2>1. UNCHANGED <<readerVars, crashed, load>>
    BY <1>2 DEF DrawBegin
  <2> QED BY <2>1, LeavesReaders
<1>3. CASE DrawStep
  <2>1. CASE CopyNextSample
    <3>1. UNCHANGED <<load, assetReader, trackOutput>> /\ (crashed => crashed')
      BY <2>1 DEF CopyNextSample
    <3>2. CASE trackOutput = None \/ Unstarted(trackOutput)
      <4>1. UNCHANGED <<status, pos>>
        BY <2>1, <3>2 DEF CopyNextSample
      <4> QED BY <3>1, <4>1 DEF Advances, Reading, Over, Stalled
    <3>3. CASE trackOutput # None /\ (NextSample(trackOutput) \/ NoSample(trackOutput))
      <4>1. trackOutput \in Loads /\ assetReader \in {None, trackOutput}
        BY <3>3 DEF ReaderInv
      <4>2. CASE assetReader = None
        <5>1. ~Reading /\ ~Reading'
          BY <3>1, <4>2 DEF Reading
        <5>2. Over => Over'
          BY <3>1, <3>3, <4>1, <4>2, <5>1 DEF Over, Stalled, NextSample, NoSample
        <5> QED BY <5>1, <5>2 DEF Advances
      <4>3. CASE assetReader = trackOutput
        <5>1. CASE NextSample(trackOutput)
          <6>1. /\ Reading /\ Reading' /\ pos[assetReader] < FrameCount
                /\ pos'[assetReader] = pos[assetReader] + 1
            BY <3>1, <4>1, <4>3, <5>1 DEF Reading, NextSample
          <6>2. Over => crashed
            BY <4>1, <4>3, <5>1, <6>1 DEF Over, Stalled, NextSample
          <6> QED BY <3>1, <6>1, <6>2 DEF Advances, Over
        <5>2. CASE NoSample(trackOutput)
          <6>1. pos' = pos /\ (Reading' => Reading)
            BY <3>1, <4>1, <4>3, <5>2 DEF Reading, NoSample
          <6>2. Reading /\ ~Reading' => Over'
            BY <3>1, <4>1, <4>3, <5>2 DEF Reading, NoSample, Over
          <6>3. Over => Over'
            BY <3>1, <4>1, <4>3, <5>2, <6>1 DEF Reading, NoSample, Over, Stalled
          <6> QED BY <3>1, <6>1, <6>2, <6>3 DEF Advances
        <5> QED BY <3>3, <5>1, <5>2
      <4> QED BY <4>1, <4>2, <4>3
    <3> QED BY <2>1, <3>2, <3>3 DEF CopyNextSample
  <2>2. CASE RestartIfCompleted /\ ReaderCompleted
    <3>1. Reading /\ pos[assetReader] = FrameCount /\ assetReader \in Loads /\ assetReader' = None
      BY <2>2 DEF RestartIfCompleted, ReaderCompleted, Reading, ReaderInv
    <3>2. ~Reading' /\ crashed' = crashed
      BY <2>2, <3>1 DEF RestartIfCompleted, Reading
    <3>3. Over => crashed
      BY <2>2, <3>1 DEF Over, Stalled, ReaderCompleted, ReaderInv
    <3> QED BY <3>1, <3>2, <3>3 DEF Advances, Over
  <2>3. CASE RestartIfCompleted /\ ~ReaderCompleted
    BY <2>3, LeavesReaders DEF RestartIfCompleted, readerVars
  <2>4. CASE ReadLock \/ ReadUnlock \/ Encode
    <3>1. UNCHANGED <<readerVars, crashed, load>>
      BY <2>4 DEF ReadLock, ReadUnlock, Encode
    <3> QED BY <3>1, LeavesReaders
  <2> QED BY <1>3, <2>1, <2>2, <2>3, <2>4 DEF DrawStep
<1>4. CASE UNCHANGED vars
  <2>1. UNCHANGED <<readerVars, crashed, load>>
    BY <1>4 DEF vars
  <2> QED BY <2>1, LeavesReaders
<1> QED BY <1>1, <1>2, <1>3, <1>4 DEF Next

(* LYAssetReader keeps its promise to the draw loop, for any number of     *)
(* loads, any track and any faults.                                        *)
THEOREM Implements == Spec => ImplementsPlayback
<1>1. Init => Playback!Init
  <2> SUFFICES ASSUME Init PROVE Phase = "rewinding"
    BY DEF Playback!Init
  <2>1. \E l \in Loads : load[l] = "loading"
    BY DEF Init
  <2> QED BY <2>1 DEF Init, Phase, Stalled, Reading
<1>2. IInv /\ ReaderInv /\ [Next]_vars =>
        [Playback!Next]_<<Phase, IF Phase = "playing" THEN pos[assetReader] ELSE 0>>
  BY AdvanceStep, AdvancesIsNext
<1>3. Spec => []ReaderInv
  BY Invariance, InitReader, ReaderStep, PTL DEF Spec
<1> QED BY <1>1, <1>2, <1>3, Invariance, PTL DEF Spec, ImplementsPlayback, Playback!Spec
=============================================================================
