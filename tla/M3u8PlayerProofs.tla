-------------------------- MODULE M3u8PlayerProofs --------------------------
(***************************************************************************)
(* Proofs about M3u8Player, for files of any length, any decoder delay,    *)
(* frames of any size, any images and any set of faults.  What has been    *)
(* drawn follows from a relation that holds inside a draw: DrawInv says,   *)
(* for each step of getBuffer, how far the screen is behind the decoder.   *)
(* ContextInv is the life of the input, the decoder and the frame.         *)
(***************************************************************************)
EXTENDS M3u8Player, TLAPS

(* The frame is drawn, unless memory or the sizes of the frame forbid it.  *)
Refused == pixelBuffer = NULL /\ (retained = MaxBuffers \/ ~LikeTheFirst)

DrawInv ==
  /\ \A i \in 1..Len(shown) : i <= Out => shown[i] = i
  /\ ~Ended /\ ~crashed =>
       /\ pc \in {"prase", "seek", "alloc", "idle", "release"} => Len(shown) = Out
       /\ pc = "read" /\ decodeFinished = 0 => Len(shown) = Out
       /\ pc = "read" /\ decodeFinished = 1 =>
            Out = Len(shown) + 1 /\ data = Out /\ frameSize \in Sizes
       /\ pc = "convert" => Out = Len(shown) + 1 /\ data = Out /\ frameSize \in Sizes
       /\ pc = "draw" => Out = Len(shown) + 1 /\ (pixelBuffer = Out \/ Refused)
  /\ Ended /\ ~crashed =>
       /\ pc = "convert" => Len(shown) = Out
       /\ pc = "draw" => Len(shown) = Out /\ pixelBuffer \in {NULL, Garbage}
       /\ pc \in {"idle", "read"} => Len(shown) = Out + 1 /\ shown[Out + 1] = Garbage

ContextInv ==
  /\ pc \in {"prase", "seek", "alloc", "release"} => ~Ended
  /\ Ended => formatContext = "nil" /\ (pc = "read" => decodeFinished = 0)
  /\ PraseSuccess /\ ~Ended => formatContext = "open" /\ codecContext = "open"
  /\ pc \notin {"prase", "seek"} /\ ~crashed => PraseSuccess
  /\ pc \in {"idle", "read", "release", "convert", "draw"} /\ ~Ended => avFrame = "live"

-----------------------------------------------------------------------------
(* The bounds are numbers; no frame number is nil or left over.           *)
LEMMA Numbers ==
  /\ MaxPackets \in Nat /\ Delay \in Nat /\ MaxBuffers \in Nat
  /\ NULL \notin Nat /\ Garbage \notin Nat /\ NULL # Garbage
  /\ NULL \notin Sizes /\ NULL \notin Images /\ "mp4" \notin Images
BY PlayerAssumption

(* A file is a sequence of packets of bounded length.                       *)
LEMMA FileType ==
  ASSUME NEW f \in Files
  PROVE  /\ f \in Seq(PacketKinds) /\ Len(f) \in 0..MaxPackets
         /\ \A i \in 1..Len(f) : f[i] \in PacketKinds
<1>1. PICK n \in 0..MaxPackets : f \in [1..n -> PacketKinds]
  BY DEF Files
<1>2. n \in Nat
  BY <1>1, Numbers
<1>3. f \in Seq(PacketKinds) /\ Len(f) = n
  BY <1>1, <1>2
<1> QED BY <1>1, <1>2, <1>3

(* The copies of a planar 4:2:0 frame into a pool made for its size stay    *)
(* within the planes, whether its height is even or odd.                    *)
LEMMA CopiesFit ==
  ASSUME NEW f \in Sizes, f.y = 2 * f.cb, f.cb % 2 = 0
  PROVE  ~Overruns(f, f)
<1> DEFINE h == f.height
           k == f.cb \div 2
           q == (h + 1) \div 2
<1>1. f.height \in Nat /\ f.y \in Nat /\ f.cb \in Nat
  BY PlayerAssumption
<1>2. k \in Nat /\ f.cb = 2 * k /\ f.y = 4 * k
  BY <1>1
<1>3. q \in Nat /\ h \in Nat /\ h <= 2 * q
  BY <1>1
<1>4. k * h \in Nat /\ k * q \in Nat
  BY <1>2, <1>3
<1>5. f.y * f.height = 4 * (k * h) /\ f.cb * f.height = 2 * (k * h)
  BY <1>1, <1>2, <1>3
<1>6. f.y * q = 4 * (k * q)
  BY <1>2, <1>3
<1>7. k * h <= 2 * (k * q)
  <2>1. k * h <= k * (2 * q)
    <3>1. PICK d \in Nat : 2 * q = h + d
      <4>1. 2 * q - h \in Nat /\ 2 * q = h + (2 * q - h)
        BY <1>3
      <4> QED BY <4>1
    <3>2. k * (h + d) = k * h + k * d /\ k * d \in Nat
      BY <1>2, <1>3
    <3> QED BY <3>1, <3>2, <1>4
  <2>2. k * (2 * q) = 2 * (k * q)
    BY <1>2, <1>3
  <2> QED BY <2>1, <2>2
<1> HIDE DEF h, k, q
<1>8. /\ (f.y * f.height) \div 2 = 2 * (k * h)
      /\ (f.cb * f.height) \div 2 = k * h
  BY <1>4, <1>5
<1>9. f.height \in Nat /\ q = (f.height + 1) \div 2
  BY <1>1 DEF q, h
<1> QED BY <1>4, <1>5, <1>6, <1>7, <1>8, <1>9 DEF Overruns

(* No more packets are accepted, or kept, than read.                        *)
FedInv == fed <= pos /\ packets <= pos

IInv == TypeOK /\ FedInv /\ DrawInv /\ ContextInv

(* What a packet does to the decoder.                                       *)
LEMMA DecodeStep ==
  ASSUME TypeOK, FedInv, pos < Len(file), pos' = pos + 1, decodeFinished = 0,
         Decode(file[pos'])
  PROVE  /\ fed' \in 0..Len(file) /\ fed' <= pos'
         /\ data' \in Frames \cup {NULL}
         /\ decodeFinished' \in {0, 1} /\ frameSize' \in Sizes \cup {NULL}
         /\ decodeFinished' = 1 => /\ fed' > Delay /\ fed' = fed + 1
                                   /\ data' = fed' - Delay /\ frameSize' \in Sizes
         /\ decodeFinished' = 0 => fed' = fed \/ (fed' = fed + 1 /\ fed' <= Delay)
<1> USE Numbers DEF TypeOK, FedInv
<1>1. /\ MaxPackets \in Nat /\ Len(file) \in Nat /\ Len(file) <= MaxPackets
      /\ fed \in Nat /\ fed + 1 <= pos' /\ pos' <= Len(file)
  BY FileType
<1>2. CASE file[pos'] = "video"
  <2>1. /\ fed' = fed + 1
        /\ decodeFinished' = IF fed + 1 > Delay THEN 1 ELSE 0
        /\ fed + 1 > Delay => data' = fed + 1 - Delay /\ frameSize' \in Sizes
        /\ ~(fed + 1 > Delay) => data' = NULL /\ frameSize' = frameSize
    BY <1>1, <1>2 DEF Decode
  <2>2. fed' \in 0..Len(file) /\ fed' <= pos'
    BY <1>1, <2>1
  <2>3. fed + 1 > Delay => fed + 1 - Delay \in 1..MaxPackets
    BY <1>1
  <2>4. CASE fed + 1 > Delay
    BY <2>1, <2>2, <2>3, <2>4 DEF Frames
  <2>5. CASE ~(fed + 1 > Delay)
    <3>1. fed + 1 <= Delay
      BY <2>5, <1>1
    <3> QED BY <2>1, <2>2, <2>5, <3>1
  <2> QED BY <2>4, <2>5
<1>3. CASE file[pos'] # "video"
  <2>1. /\ fed' = fed /\ decodeFinished' = 0 /\ frameSize' = frameSize
        /\ data' \in {data, NULL}
    BY <1>3 DEF Decode
  <2> QED BY <1>1, <2>1
<1> QED BY <1>2, <1>3

(* Every step keeps the types, and feeds no more than was read.           *)
LEMMA TypeStep == TypeOK /\ FedInv /\ [Next]_vars => TypeOK' /\ FedInv'
<1> SUFFICES ASSUME TypeOK, FedInv, [Next]_vars PROVE TypeOK' /\ FedInv'
  OBVIOUS
<1> USE Numbers DEF TypeOK, FedInv, contextVars, readVars, bufferVars, Steps, Buffers
<1>0. Len(file) \in 0..MaxPackets
  BY FileType
<1>1. CASE Prase \/ SeekTime \/ AllocFrame
  BY <1>1 DEF Prase, SeekTime, AllocFrame
<1>2. CASE DisplayImageFile \/ DrawImage
  <2>1. fileUrl' \in Images \cup {"mp4", NULL} /\ texture' \in Images \cup {NULL}
    BY <1>2 DEF DisplayImageFile, DrawImage
  <2> QED BY <1>2, <2>1 DEF DisplayImageFile, DrawImage
<1>4. CASE DrawBegin
  BY <1>4 DEF DrawBegin
<1>5. CASE ReadPacket
  <2>1. /\ fed' \in 0..Len(file) /\ fed' <= pos' /\ data' \in Frames \cup {NULL}
        /\ decodeFinished' \in {0, 1} /\ frameSize' \in Sizes \cup {NULL}
    BY <1>5, DecodeStep DEF ReadPacket
  <2>2. pos' \in 0..Len(file) /\ packets' \in 0..Len(file) /\ packets' <= pos'
    BY <1>5, <1>0 DEF ReadPacket
  <2> QED BY <1>5, <2>1, <2>2 DEF ReadPacket
<1>6. CASE ReadDone \/ ReadClosed
  BY <1>6 DEF ReadDone, ReadClosed
<1>7. CASE Release
  BY <1>7, <1>0 DEF Release
<1>8. CASE Convert
  <2>1. pixelBuffer' \in Buffers
    BY <1>8 DEF Convert, ConvertFrame, ConvertFreed
  <2>2. pc' \in Steps /\ crashed' \in BOOLEAN
    BY <1>8 DEF Convert, ConvertFrame, ConvertFreed
  <2>3. pixelBufferPool' \in Sizes \cup {NULL}
    BY <1>8 DEF Convert, ConvertFrame, ConvertFreed
  <2>4. retained' \in 0..MaxBuffers
    BY <1>8 DEF Convert, ConvertFrame, ConvertFreed
  <2> QED BY <1>8, <2>1, <2>2, <2>3, <2>4 DEF Convert
<1>9. CASE DrawTextures
  <2>1. shown' \in Seq(Buffers)
    BY <1>9 DEF DrawTextures
  <2>2. crashed' \in BOOLEAN /\ pc' \in Steps
    BY <1>9 DEF DrawTextures
  <2>3. UNCHANGED <<file, contextVars, avFrame, readVars, pixelBuffer, bufferVars>>
    BY <1>9 DEF DrawTextures
  <2> QED BY <2>1, <2>2, <2>3
<1>10. CASE UNCHANGED vars
  BY <1>10 DEF vars
<1> QED BY <1>1, <1>2, <1>4, <1>5, <1>6, <1>7, <1>8, <1>9, <1>10 DEF Next, Play, GetBuffer

(* How far the screen is behind the decoder, step by step.                  *)
LEMMA DrawStep ==
  TypeOK /\ FedInv /\ DrawInv /\ ContextInv /\ [Next]_vars => DrawInv'
<1> SUFFICES ASSUME TypeOK, FedInv, DrawInv, ContextInv, [Next]_vars
             PROVE  DrawInv'
  OBVIOUS
<1> USE Numbers DEF DrawInv, Out, Ended, contextVars, readVars, bufferVars
<1>0. Len(file) \in Nat /\ fed \in Nat /\ shown \in Seq(Buffers) /\ Len(shown) \in Nat
  BY FileType DEF TypeOK
<1>1. CASE Prase \/ SeekTime \/ AllocFrame
  BY <1>1 DEF Prase, SeekTime, AllocFrame, ContextInv
<1>2. CASE DisplayImageFile \/ DrawImage
  BY <1>2 DEF DisplayImageFile, DrawImage
<1>3. CASE DrawBegin
  BY <1>3 DEF DrawBegin, Next
<1>4. CASE ReadPacket
  <2>1. /\ decodeFinished' = 1 => /\ fed' > Delay /\ fed' = fed + 1
                                 /\ data' = fed' - Delay /\ frameSize' \in Sizes
        /\ decodeFinished' = 0 => fed' = fed \/ (fed' = fed + 1 /\ fed' <= Delay)
        /\ decodeFinished' \in {0, 1}
    BY <1>4, DecodeStep DEF ReadPacket
  <2>2. /\ pc = "read" /\ pc' = "read" /\ decodeFinished = 0 /\ ~Ended
        /\ ~crashed /\ UNCHANGED <<shown, avFrame, crashed>>
    BY <1>4 DEF ReadPacket, ContextInv, Next, vars
  <2>3. Len(shown) = Out /\ \A i \in 1..Len(shown') : shown'[i] = i
    BY <1>0, <2>2
  <2> QED BY <1>0, <2>1, <2>2, <2>3
<1>5. CASE ReadDone \/ ReadClosed \/ Release
  BY <1>5 DEF ReadDone, ReadClosed, Release, ContextInv
<1>6. CASE Convert
  <2>1. CASE ConvertFreed
    BY <1>6, <2>1 DEF Convert, ConvertFreed
  <2>2. CASE ConvertFrame /\ ~crashed /\ ~crashed'
    <3>1. Out = Len(shown) + 1 /\ data = Out /\ frameSize \in Sizes
      BY <1>6, <2>2 DEF Convert, ConvertFrame
    <3>2. pixelBuffer' = data \/ Refused'
      BY <1>0, <2>2, <3>1, <1>6 DEF Convert, ConvertFrame, Refused, LikeTheFirst
    <3> QED BY <1>6, <2>2, <3>1, <3>2 DEF Convert, ConvertFrame
  <2>3. CASE ConvertFrame /\ (crashed \/ crashed')
    BY <1>6, <2>3 DEF Convert, ConvertFrame, Next, vars
  <2> QED BY <1>6, <2>1, <2>2, <2>3 DEF Convert
<1>7. CASE DrawTextures
  <2>0. ~crashed
    BY <1>7 DEF DrawTextures, Next, vars
  <2>1. CASE pixelBuffer = NULL
    BY <1>7, <2>1 DEF DrawTextures
  <2>2. CASE pixelBuffer # NULL /\ ~Ended
    <3>1. shown' = Append(shown, pixelBuffer) /\ pixelBuffer = Len(shown) + 1
          /\ pixelBuffer \in Buffers /\ Out = Len(shown) + 1
      BY <1>7, <2>0, <2>2 DEF DrawTextures, TypeOK, Refused
    <3>2. Len(shown') = Len(shown) + 1 /\ shown'[Len(shown) + 1] = pixelBuffer
      BY <1>0, <3>1
    <3>3. \A i \in 1..Len(shown) : shown'[i] = shown[i] /\ shown[i] = i
      BY <1>0, <3>1
    <3>4. \A i \in 1..Len(shown') : shown'[i] = i
      BY <1>0, <3>1, <3>2, <3>3
    <3> QED BY <1>7, <2>2, <3>1, <3>2, <3>4 DEF DrawTextures
  <2>3. CASE pixelBuffer # NULL /\ Ended
    <3>1. shown' = Append(shown, Garbage) /\ Len(shown) = Out /\ Garbage \in Buffers
      BY <1>7, <2>0, <2>3 DEF DrawTextures, Buffers
    <3>2. Len(shown') = Len(shown) + 1 /\ shown'[Len(shown) + 1] = Garbage
      BY <1>0, <3>1
    <3>3. \A i \in 1..Len(shown) : shown'[i] = shown[i] /\ shown[i] = i
      BY <1>0, <3>1
    <3> QED BY <1>0, <1>7, <2>3, <3>1, <3>2, <3>3 DEF DrawTextures
  <2> QED BY <2>1, <2>2, <2>3
<1>8. CASE UNCHANGED vars
  BY <1>8 DEF vars, Refused, LikeTheFirst
<1> QED BY <1>1, <1>2, <1>3, <1>4, <1>5, <1>6, <1>7, <1>8 DEF Next, Play, GetBuffer

(* The input and the decoder of a successful prase stay open, and the frame *)
(* stays allocated, until the end.                                          *)
LEMMA ContextStep == TypeOK /\ ContextInv /\ [Next]_vars => ContextInv'
<1> SUFFICES ASSUME TypeOK, ContextInv, [Next]_vars PROVE ContextInv'
  OBVIOUS
<1> USE DEF ContextInv, Ended, PraseSuccess, contextVars, readVars, bufferVars
<1>1. CASE Prase
  BY <1>1 DEF Prase
<1>2. CASE SeekTime /\ ~crashed
  BY <1>2 DEF SeekTime
<1>3. CASE AllocFrame \/ DisplayImageFile \/ DrawImage \/ DrawBegin \/ ReadPacket
  BY <1>3 DEF AllocFrame, DisplayImageFile, DrawImage, DrawBegin, ReadPacket
<1>6. CASE ReadDone \/ ReadClosed
  BY <1>6 DEF ReadDone, ReadClosed
<1>4. CASE Release \/ DrawTextures
  BY <1>4 DEF Release, DrawTextures
<1>7. CASE Convert /\ ~crashed
  BY <1>7 DEF Convert
<1>5. CASE UNCHANGED vars
  BY <1>5 DEF vars
<1> QED BY <1>1, <1>2, <1>3, <1>4, <1>5, <1>6, <1>7 DEF Next, Play, GetBuffer

-----------------------------------------------------------------------------
(* The invariant of the player.                                             *)
THEOREM Invariance == Spec => []IInv
<1>1. Init => IInv
  <2> SUFFICES ASSUME Init PROVE IInv
    OBVIOUS
  <2>1. Len(file) \in Nat
    BY FileType, Numbers DEF Init
  <2>2. TypeOK
    <3>1. shown \in Seq(Buffers) /\ data \in Frames \cup {NULL} /\ pixelBuffer \in Buffers
      BY DEF Init, Buffers
    <3>2. pos \in 0..Len(file) /\ packets \in 0..Len(file) /\ fed \in 0..Len(file)
      BY <2>1 DEF Init
    <3>3. retained \in 0..MaxBuffers
      BY Numbers DEF Init
    <3> QED BY <3>1, <3>2, <3>3 DEF Init, TypeOK, Steps
  <2>4. FedInv
    BY DEF Init, FedInv
  <2>3. DrawInv /\ ContextInv
    BY Numbers DEF Init, DrawInv, Out, ContextInv, Ended, PraseSuccess
  <2> QED BY <2>2, <2>3, <2>4 DEF IInv
<1>2. IInv /\ [Next]_vars => IInv'
  BY TypeStep, DrawStep, ContextStep DEF IInv
<1> QED BY <1>1, <1>2, PTL DEF Spec

(* Every variable keeps its type, for files of any length.                  *)
THEOREM TypeCorrect == Spec => []TypeOK
<1>1. IInv => TypeOK
  BY DEF IInv
<1> QED BY Invariance, <1>1, PTL

(* Between two draws every frame the decoder has given has been on the      *)
(* screen, once and in order.                                               *)
THEOREM DrawsAllDecoded == Spec => []DrawsWhatIsDecoded
<1>1. IInv => DrawsWhatIsDecoded
  <2> SUFFICES ASSUME IInv, pc = "idle", ~crashed
               PROVE  /\ \/ Len(shown) = Out
                         \/ Ended /\ Len(shown) = Out + 1 /\ shown[Out + 1] = Garbage
                      /\ \A i \in 1..Out : shown[i] = i
    BY DEF DrawsWhatIsDecoded
  <2>1. file \in Files /\ fed \in 0..Len(file) /\ Len(shown) \in Nat
    BY DEF IInv, TypeOK
  <2>2. Out \in Nat
    BY <2>1, Numbers, FileType DEF Out
  <2>3. \/ Len(shown) = Out
        \/ Ended /\ Len(shown) = Out + 1 /\ shown[Out + 1] = Garbage
    BY DEF IInv, DrawInv
  <2>4. \A i \in 1..Out : i \in 1..Len(shown) /\ i <= Out
    BY <2>1, <2>2, <2>3
  <2> QED BY <2>3, <2>4 DEF IInv, DrawInv
<1> QED BY Invariance, <1>1, PTL

(* A player that parsed its file is sound until the end of the file.        *)
THEOREM SafeBeforeEnd == Spec => []SafeUntilEnd
<1>1. Init => SafeUntilEnd
  BY DEF Init, SafeUntilEnd
<1>2. IInv /\ SafeUntilEnd /\ [Next]_vars => SafeUntilEnd'
  <2> SUFFICES ASSUME IInv, SafeUntilEnd, [Next]_vars PROVE SafeUntilEnd'
    OBVIOUS
  <2> USE DEF SafeUntilEnd, Ended, PraseSuccess, contextVars, readVars, bufferVars
  <2>1. CASE UNCHANGED vars
    BY <2>1 DEF vars, LikeTheFirst
  <2>2. CASE Next
    <3>1. ~crashed
      BY <2>2 DEF Next
    <3>2. CASE Prase \/ AllocFrame \/ DisplayImageFile \/ DrawBegin \/ ReadPacket \/ ReadDone
      BY <3>1, <3>2 DEF Prase, AllocFrame, DisplayImageFile, DrawBegin, ReadPacket, ReadDone
    <3>3. CASE SeekTime \/ ReadClosed \/ Release
      BY <3>1, <3>3 DEF SeekTime, ReadClosed, Release, IInv, ContextInv
    <3>4. CASE DrawImage
      BY <3>1, <3>4 DEF DrawImage
    <3>5. CASE Convert
      <4>1. CASE ConvertFreed
        BY <4>1, <3>5 DEF ConvertFreed, Convert
      <4>2. CASE ConvertFrame
        <5> SUFFICES ASSUME crashed', ~(retained' = MaxBuffers), LikeTheFirst' PROVE FALSE
          BY DEF SafeUntilEnd
        <5>1. Overruns(pixelBufferPool', frameSize) /\ frameSize' = frameSize
          BY <3>1, <4>2, <3>5 DEF ConvertFrame, Convert
        <5>2. /\ frameSize \in Sizes /\ pixelBufferPool' = frameSize
              /\ frameSize.y = 2 * frameSize.cb /\ frameSize.cb % 2 = 0
          BY <5>1 DEF LikeTheFirst
        <5> QED BY <5>1, <5>2, CopiesFit
      <4> QED BY <3>5, <4>1, <4>2 DEF Convert
    <3>6. CASE DrawTextures
      <4>1. CASE Ended
        BY <3>6, <4>1 DEF DrawTextures
      <4>2. CASE ~Ended
        <5>1. Out \in Nat
          BY FileType, Numbers DEF IInv, TypeOK, Out
        <5>2. pixelBuffer = Out \/ Refused
          BY <3>1, <3>6, <4>2 DEF DrawTextures, IInv, DrawInv
        <5>3. UNCHANGED <<retained, frameSize, pixelBufferPool>>
          BY <3>6 DEF DrawTextures
        <5> QED BY <3>1, <3>6, <5>1, <5>2, <5>3, Numbers DEF DrawTextures, Refused, LikeTheFirst
      <4> QED BY <4>1, <4>2
    <3> QED BY <2>2, <3>2, <3>3, <3>4, <3>5, <3>6 DEF Next, Play, GetBuffer
  <2> QED BY <2>1, <2>2
<1> QED BY Invariance, <1>1, <1>2, PTL DEF Spec
=============================================================================
