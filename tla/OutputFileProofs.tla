-------------------------- MODULE OutputFileProofs --------------------------
(***************************************************************************)
(* Proofs about OutputFile, for any number of streams and files, any       *)
(* contents of the files, any limits and any set of faults: the types,     *)
(* that frame_number counts each packet once, what may be said of each     *)
(* stream while the program lives (StateInv), which gives how it ends and  *)
(* when a muxing queue overflows, the order of the packets, and that the   *)
(* muxer is given what MuxedFile says.                                     *)
(***************************************************************************)
EXTENDS OutputFile, SequenceTheorems, TLAPS

(* What the proofs use of the constants.                                   *)
LEMMA Constants ==
  /\ Streams = 1..NbStreams /\ NbStreams \in Nat /\ NbStreams >= 1 /\ Streams \subseteq Nat
  /\ Delay \in Nat /\ MaxSize \in Nat /\ InitialSize \in Nat /\ InitialSize >= 1
  /\ Room \in Nat /\ Room >= InitialSize /\ Room >= MaxSize
  /\ \A s \in Streams : FileOf[s] \in Files /\ MaxFrames[s] \in Nat
BY OutputAssumption DEF Streams, Encoded, Room

(* What an input file may hold.                                            *)
LEMMA Contents ==
  ASSUME NEW i \in Inputs, NEW f \in Files
  PROVE  i \in [Files -> Seq(Streams \cup {NoFrame})] /\ Len(i[f]) \in Nat
<1>1. i \in [Files -> Seq(Streams \cup {NoFrame})]
  BY OutputAssumption
<1> QED BY <1>1

(* The lengths of sequences that are longer, or shorter, by one.           *)
LEMMA AppendFacts ==
  ASSUME NEW q \in Seq(Nat), NEW t \in Nat
  PROVE  Append(q, t) \in Seq(Nat) /\ Len(Append(q, t)) = Len(q) + 1
OBVIOUS

LEMMA HeadFacts ==
  ASSUME NEW q \in Seq(Nat), q # <<>>
  PROVE  /\ Head(q) \in Nat /\ Tail(q) \in Seq(Nat)
         /\ Len(Tail(q)) = Len(q) - 1 /\ Len(q) > 0
BY HeadTailProperties, EmptySeq

-----------------------------------------------------------------------------
(* Types.                                                                  *)

MuxType ==
  /\ finished \in [Streams -> SUBSET {"encoder", "muxer"}]
  /\ frame_number \in [Streams -> Nat]
  /\ \A s \in Streams : frame_number[s] <= MaxFrames[s]
  /\ muxing_queue \in [Streams -> Seq(Nat)] /\ size \in [Streams -> Nat]
  /\ \A s \in Streams : Len(muxing_queue[s]) <= size[s] /\ size[s] <= Room /\ size[s] >= InitialSize
  /\ written \in [Streams -> Seq(Nat)]
  /\ main_return_code \in {0, 1}

(* What av_interleaved_write_frame leaves.                                 *)
LEMMA MuxStep ==
  ASSUME MuxType, NEW s \in Streams, NEW t \in Nat, NEW where, Mux(s, t, where)
  PROVE  /\ written' = [written EXCEPT ![s] = Append(@, t)] /\ main' = where
         /\ written' \in [Streams -> Seq(Nat)]
         /\ finished' \in [Streams -> SUBSET {"encoder", "muxer"}]
         /\ \/ main_return_code' = 1
            \/ main_return_code' = main_return_code /\ finished' = finished
<1>1. written' \in [Streams -> Seq(Nat)]
  BY DEF Mux, MuxType
<1>2. finished' \in [Streams -> SUBSET {"encoder", "muxer"}]
  BY DEF Mux, MuxType
<1> QED BY <1>1, <1>2 DEF Mux

(* A stream's muxing queue grows within its limit, or overflows.           *)
LEMMA EnqueueStep ==
  ASSUME MuxType, NEW s \in Streams, NEW t \in Nat, NEW where, Enqueue(s, t, where)
  PROVE  \/ /\ main' = "overflow" /\ back' = main
            /\ UNCHANGED <<muxing_queue, size>>
            /\ Len(muxing_queue[s]) >= Room
         \/ /\ main' = where /\ back' = back
            /\ muxing_queue' = [muxing_queue EXCEPT ![s] = Append(@, t)]
            /\ muxing_queue' \in [Streams -> Seq(Nat)] /\ size' \in [Streams -> Nat]
            /\ \A o \in Streams :
                 Len(muxing_queue'[o]) <= size'[o] /\ size'[o] <= Room /\ size'[o] >= InitialSize
<1> DEFINE isFull == Len(muxing_queue[s]) = size[s]
<1>0. /\ size[s] \in Nat /\ size[s] <= Room /\ size[s] >= InitialSize /\ NewSize(s) \in Nat
      /\ muxing_queue[s] \in Seq(Nat) /\ Len(muxing_queue[s]) \in Nat
      /\ Len(muxing_queue[s]) <= size[s]
      /\ NewSize(s) <= MaxSize \/ NewSize(s) = 2 * size[s]
  <2>1. /\ size[s] \in Nat /\ size[s] <= Room /\ size[s] >= InitialSize
        /\ muxing_queue[s] \in Seq(Nat) /\ Len(muxing_queue[s]) <= size[s]
    BY DEF MuxType
  <2>2. NewSize(s) \in Nat /\ (NewSize(s) <= MaxSize \/ NewSize(s) = 2 * size[s])
    BY <2>1, Constants DEF NewSize
  <2> QED BY <2>1, <2>2
<1>1. CASE isFull /\ NewSize(s) <= size[s]
  <2>1. MaxSize <= size[s]
    BY <1>0, <1>1, Constants DEF NewSize
  <2>2. Len(muxing_queue[s]) >= Room
    BY <1>0, <1>1, <2>1, Constants DEF Room
  <2>3. main' = "overflow" /\ back' = main /\ UNCHANGED <<muxing_queue, size>>
    BY <1>0, <1>1 DEF Enqueue
  <2> QED BY <2>2, <2>3
<1>2. CASE isFull => NewSize(s) > size[s]
  <2>1. /\ main' = where /\ back' = back
        /\ muxing_queue' = [muxing_queue EXCEPT ![s] = Append(@, t)]
        /\ size' = [size EXCEPT ![s] = IF isFull THEN NewSize(s) ELSE @]
    BY <1>0, <1>2 DEF Enqueue
  <2>2. Append(muxing_queue[s], t) \in Seq(Nat)
        /\ Len(Append(muxing_queue[s], t)) = Len(muxing_queue[s]) + 1
    BY <1>0, AppendFacts
  <2>3. NewSize(s) <= Room
    BY <1>0, Constants DEF NewSize
  <2>4. LET n == IF isFull THEN NewSize(s) ELSE size[s]
        IN n \in Nat /\ Len(muxing_queue[s]) + 1 <= n /\ n <= Room /\ n >= InitialSize
    BY <1>0, <1>2, <2>3, Constants
  <2>5. muxing_queue' \in [Streams -> Seq(Nat)] /\ size' \in [Streams -> Nat]
    BY <2>1, <2>2, <2>4 DEF MuxType
  <2>6. ASSUME NEW o \in Streams
        PROVE  Len(muxing_queue'[o]) <= size'[o] /\ size'[o] <= Room /\ size'[o] >= InitialSize
    BY <2>1, <2>2, <2>4 DEF MuxType
  <2> QED BY <2>1, <2>5, <2>6
<1> QED BY <1>0, <1>1, <1>2

(* write_packet: the packet is dropped, given to the muxer, kept, or kept  *)
(* by no queue.                                                            *)
Dropped(s, t, where) ==
  /\ Counted(s) /\ frame_number[s] >= MaxFrames[s]
  /\ main' = where /\ UNCHANGED <<muxVars, back>>

Muxed(s, t, where) ==
  /\ header_written /\ main' = where
  /\ written' = [written EXCEPT ![s] = Append(@, t)]
  /\ UNCHANGED <<muxing_queue, size, back>>
  /\ main_return_code' = 1 \/ (main_return_code' = main_return_code /\ finished' = finished)

Queued(s, t, where) ==
  /\ ~header_written /\ main' = where
  /\ muxing_queue' = [muxing_queue EXCEPT ![s] = Append(@, t)]
  /\ UNCHANGED <<written, back, finished, main_return_code>>

Overflowed(s, t, where) ==
  /\ ~header_written /\ main' = "overflow" /\ back' = main
  /\ UNCHANGED <<written, muxing_queue, size, finished, main_return_code>>
  /\ Len(muxing_queue[s]) >= Room

LEMMA WriteStep ==
  ASSUME MuxType, NEW s \in Streams, NEW t \in Nat, NEW where, WritePacket(s, t, where)
  PROVE  /\ MuxType'
         /\ \/ Dropped(s, t, where)
            \/ /\ Muxed(s, t, where) \/ Queued(s, t, where) \/ Overflowed(s, t, where)
               /\ frame_number' = [frame_number EXCEPT ![s] = IF Counted(s) THEN @ + 1 ELSE @]
<1>1. CASE Counted(s) /\ frame_number[s] >= MaxFrames[s]
  <2>1. Dropped(s, t, where)
    BY <1>1 DEF WritePacket, Dropped
  <2>2. MuxType'
    BY <1>1 DEF WritePacket, muxVars, MuxType
  <2> QED BY <2>1, <2>2
<1>2. CASE ~(Counted(s) /\ frame_number[s] >= MaxFrames[s])
  <2>1. frame_number' = [frame_number EXCEPT ![s] = IF Counted(s) THEN @ + 1 ELSE @]
    BY <1>2 DEF WritePacket
  <2>2. /\ frame_number' \in [Streams -> Nat]
        /\ \A o \in Streams : frame_number'[o] <= MaxFrames[o]
    <3>1. /\ frame_number[s] \in Nat /\ MaxFrames[s] \in Nat /\ frame_number[s] <= MaxFrames[s]
          /\ Counted(s) => ~(frame_number[s] >= MaxFrames[s])
      BY <1>2, Constants DEF MuxType
    <3>2. LET n == IF Counted(s) THEN frame_number[s] + 1 ELSE frame_number[s]
          IN n \in Nat /\ n <= MaxFrames[s]
      <4>1. CASE Counted(s)
        BY <3>1, <4>1
      <4>2. CASE ~Counted(s)
        BY <3>1, <4>2
      <4> QED BY <4>1, <4>2
    <3> QED BY <2>1, <3>2 DEF MuxType
  <2>3. CASE header_written
    <3>1. Mux(s, t, where) /\ UNCHANGED <<muxing_queue, size, back>>
      BY <1>2, <2>3 DEF WritePacket
    <3>2. Muxed(s, t, where)
      BY <2>3, <3>1, MuxStep DEF Muxed
    <3>3. MuxType'
      <4>1. main_return_code' \in {0, 1}
        BY <3>1, MuxStep DEF MuxType
      <4> QED BY <2>2, <3>1, <4>1, MuxStep DEF MuxType
    <3> QED BY <2>1, <3>2, <3>3
  <2>4. CASE ~header_written
    <3>1. Enqueue(s, t, where) /\ UNCHANGED <<written, finished, main_return_code>>
      BY <1>2, <2>4 DEF WritePacket
    <3>2. CASE /\ main' = "overflow" /\ back' = main
               /\ UNCHANGED <<muxing_queue, size>>
               /\ Len(muxing_queue[s]) >= Room
      BY <2>1, <2>2, <2>4, <3>1, <3>2 DEF Overflowed, MuxType
    <3>3. CASE /\ main' = where /\ back' = back
               /\ muxing_queue' = [muxing_queue EXCEPT ![s] = Append(@, t)]
               /\ muxing_queue' \in [Streams -> Seq(Nat)] /\ size' \in [Streams -> Nat]
               /\ \A o \in Streams :
                    Len(muxing_queue'[o]) <= size'[o] /\ size'[o] <= Room /\ size'[o] >= InitialSize
      BY <2>1, <2>2, <2>4, <3>1, <3>3 DEF Queued, MuxType
    <3> QED BY <3>1, <3>2, <3>3, EnqueueStep
  <2> QED BY <2>3, <2>4
<1> QED BY <1>1, <1>2

(* What opening an encoder does.                                           *)
LEMMA InitStep ==
  ASSUME initialized \in [Streams -> BOOLEAN], header_written \in BOOLEAN,
         NEW s \in Streams, NEW where \in Places, InitOutputStream(s, where)
  PROVE  /\ initialized' \in [Streams -> BOOLEAN] /\ header_written' \in BOOLEAN
         /\ main' \in {where, "mux", "failed"} /\ back' \in {where, back}
         /\ main' = "mux" /\ where # "mux" => back' = where
         /\ main' # "failed" =>
              /\ initialized' = [initialized EXCEPT ![s] = TRUE]
              /\ \/ header_written' = TRUE /\ main' = "mux" /\ back' = where
                    /\ \A o \in Streams : initialized'[o]
                 \/ header_written' = header_written /\ main' = where /\ back' = back
                    /\ \E o \in Streams : ~initialized'[o]
<1>1. CASE initialized' = [initialized EXCEPT ![s] = TRUE] /\ \A o \in Streams \ {s} : initialized[o]
  <2>1. \A o \in Streams : initialized'[o]
    BY <1>1
  <2>2. \/ header_written' = TRUE /\ main' = "mux" /\ back' = where
        \/ main' = "failed" /\ UNCHANGED <<header_written, back>>
    BY <1>1 DEF InitOutputStream
  <2> QED BY <1>1, <2>1, <2>2
<1>2. CASE initialized' = [initialized EXCEPT ![s] = TRUE] /\ ~\A o \in Streams \ {s} : initialized[o]
  <2>1. \E o \in Streams : ~initialized'[o]
    BY <1>2
  <2>2. main' \in {where, "failed"} /\ UNCHANGED <<header_written, back>>
    BY <1>2 DEF InitOutputStream
  <2> QED BY <1>2, <2>1, <2>2
<1>3. CASE main' = "failed" /\ UNCHANGED <<initialized, header_written, back>>
  BY <1>3
<1> QED BY <1>1, <1>2, <1>3 DEF InitOutputStream

InputType ==
  /\ input \in Inputs
  /\ input \in [Files -> Seq(Streams \cup {NoFrame})]
  /\ pos \in [Files -> Nat] /\ \A f \in Files : pos[f] <= Len(input[f])
  /\ eagain \in [Files -> BOOLEAN] /\ eof_reached \in [Files -> BOOLEAN]

EncodeType ==
  /\ graph \in [Streams -> {"none", "known", "open", "closed"}]
  /\ held \in [Streams -> Seq(Nat)]
  /\ initialized \in [Streams -> BOOLEAN] /\ unavailable \in [Streams -> BOOLEAN]

(* An encoder holds one frame too many only while its packet is received.  *)
HeldInv ==
  \A s \in Streams : Len(held[s]) <= IF main = "receive" /\ s = cur THEN Delay + 1 ELSE Delay

PlaceType ==
  /\ header_written \in BOOLEAN /\ trailer \in BOOLEAN
  /\ main \in Places /\ cur \in Streams /\ back \in Places
  /\ main = "receive" /\ cur \in Video => frame_number[cur] < MaxFrames[cur]
  /\ main = "mux" => back \in {"step", "frame", "drain"}

Types == InputType /\ EncodeType /\ HeldInv /\ MuxType /\ PlaceType

LEMMA TypesSuffice == Types => TypeOK
<1> SUFFICES ASSUME Types PROVE TypeOK
  OBVIOUS
<1>1. \A s \in Streams : held[s] \in Seq(Nat) /\ Len(held[s]) \in Nat
  BY DEF Types, EncodeType
<1>2. ASSUME NEW s \in Streams PROVE Len(held[s]) <= Delay + 1
  <2>1. Len(held[s]) \in Nat /\ Delay \in Nat
    BY <1>1, Constants
  <2>2. Len(held[s]) <= IF main = "receive" /\ s = cur THEN Delay + 1 ELSE Delay
    BY DEF Types, HeldInv
  <2> QED BY <2>1, <2>2
<1> QED BY <1>2 DEF Types, InputType, EncodeType, MuxType, PlaceType, TypeOK

LEMMA InitTypes == Init => Types
<1> SUFFICES ASSUME Init PROVE Types
  OBVIOUS
<1>1. InputType
  <2>1. \A f \in Files : Len(input[f]) \in Nat /\ pos[f] = 0
    BY Contents DEF Init
  <2>2. input \in [Files -> Seq(Streams \cup {NoFrame})]
    BY OutputAssumption DEF Init
  <2> QED BY <2>1, <2>2 DEF Init, InputType
<1>2. EncodeType /\ HeldInv
  BY Constants DEF Init, EncodeType, HeldInv
<1>3. MuxType
  BY Constants DEF Init, MuxType
<1>4. PlaceType
  <2>1. cur \in Streams
    BY Constants DEF Init
  <2> QED BY <2>1 DEF Init, PlaceType, Places
<1> QED BY <1>1, <1>2, <1>3, <1>4 DEF Types

(* What a step that leaves some of the variables alone keeps.              *)
LEMMA TypesKept ==
  ASSUME Types
  PROVE  /\ UNCHANGED inputVars => InputType'
         /\ UNCHANGED encodeVars => EncodeType'
         /\ UNCHANGED muxVars => MuxType'
         /\ held' = held /\ (main = "receive" => main' = "receive" /\ cur' = cur) => HeldInv'
<1>1. UNCHANGED inputVars => InputType'
  BY DEF Types, InputType, inputVars
<1>2. UNCHANGED encodeVars => EncodeType'
  BY DEF Types, EncodeType, encodeVars
<1>3. UNCHANGED muxVars => MuxType'
  BY DEF Types, MuxType, muxVars
<1>4. ASSUME held' = held, main = "receive" => main' = "receive" /\ cur' = cur
      PROVE  HeldInv'
  <2>1. \A s \in Streams : held[s] \in Seq(Nat) /\ Len(held[s]) \in Nat
    BY DEF Types, EncodeType
  <2> QED BY <1>4, <2>1, Constants DEF Types, HeldInv
<1> QED BY <1>1, <1>2, <1>3, <1>4
LEMMA TypesAtHand ==
  ASSUME Types
  PROVE  /\ cur \in Streams /\ FileOf[cur] \in Files /\ File = FileOf[cur]
         /\ pos[File] \in Nat /\ Len(input[File]) \in Nat /\ pos[File] <= Len(input[File])
         /\ \A s \in Streams : held[s] \in Seq(Nat) /\ Len(held[s]) \in Nat
         /\ Delay \in Nat
<1>1. cur \in Streams /\ FileOf[cur] \in Files /\ Delay \in Nat
  BY Constants DEF Types, PlaceType
<1>2. pos[File] \in Nat /\ pos[File] <= Len(input[File])
  BY <1>1 DEF Types, InputType, File
<1>3. Len(input[File]) \in Nat
  BY <1>1 DEF Types, InputType, File
<1>4. \A s \in Streams : held[s] \in Seq(Nat) /\ Len(held[s]) \in Nat
  BY DEF Types, EncodeType
<1> QED BY <1>1, <1>2, <1>3, <1>4 DEF File

(* The steps of the loop and of transcode_step.                            *)
LEMMA TypesLoop ==
  ASSUME Types,
         TranscodeInit \/ Choose \/ LeaveLoop \/ Stop \/ Configure \/ FilterEnd \/ WantInput
  PROVE  Types'
<1> USE DEF inputVars, encodeVars, muxVars, fileVars, LoopUnchanged
<1>1. CASE TranscodeInit
  <2>1. InputType' /\ HeldInv' /\ MuxType'
    BY <1>1, TypesKept DEF TranscodeInit
  <2>2. initialized' \in [Streams -> BOOLEAN]
    <3>1. CASE initialized' = [s \in Streams |-> s \in Copied]
      <4>1. \A s \in Streams : (s \in Copied) \in BOOLEAN
        OBVIOUS
      <4> QED BY <3>1, <4>1, SMT
    <3>2. CASE initialized' = initialized
      BY <3>2 DEF Types, EncodeType
    <3> QED BY <1>1, <3>1, <3>2 DEF TranscodeInit
  <2>3. EncodeType'
    BY <1>1, <2>2 DEF TranscodeInit, Types, EncodeType
  <2>4. header_written' \in BOOLEAN
    <3>1. CASE header_written' = (Copied = Streams)
      BY <3>1, Zenon
    <3> QED BY <1>1, <3>1 DEF TranscodeInit, Types, PlaceType
  <2>5. PlaceType'
    BY <1>1, <2>4 DEF TranscodeInit, Types, PlaceType, Places
  <2> QED BY <2>1, <2>3, <2>5 DEF Types
<1>2. CASE Choose
  <2>1. HeldInv' /\ MuxType'
    BY <1>2, TypesKept DEF Choose
  <2>2. InputType'
    BY <1>2 DEF Choose, ResetEagain, Types, InputType
  <2>3. EncodeType'
    BY <1>2 DEF Choose, ResetEagain, Types, EncodeType
  <2>4. PlaceType'
    BY <1>2 DEF Choose, Types, PlaceType, Places
  <2> QED BY <2>1, <2>2, <2>3, <2>4 DEF Types
<1>3. CASE LeaveLoop
  <2>1. InputType' /\ EncodeType' /\ HeldInv'
    BY <1>3, TypesKept DEF LeaveLoop
  <2>2. MuxType'
    BY <1>3 DEF LeaveLoop, CloseAll, Types, MuxType
  <2>3. PlaceType'
    BY <1>3 DEF LeaveLoop, Types, PlaceType, Places
  <2> QED BY <2>1, <2>2, <2>3 DEF Types
<1>4. CASE Stop
  <2>1. InputType' /\ EncodeType' /\ HeldInv' /\ MuxType'
    BY <1>4, TypesKept DEF Stop
  <2>2. PlaceType'
    BY <1>4 DEF Stop, Types, PlaceType, Places
  <2> QED BY <2>1, <2>2 DEF Types
<1>5. CASE Configure
  <2>1. InputType' /\ HeldInv' /\ MuxType'
    BY <1>5, TypesKept DEF Configure
  <2>2. EncodeType'
    BY <1>5 DEF Configure, Types, EncodeType
  <2>3. PlaceType'
    BY <1>5 DEF Configure, Types, PlaceType, Places
  <2> QED BY <2>1, <2>2, <2>3 DEF Types
<1>6. CASE FilterEnd
  <2>1. InputType' /\ EncodeType' /\ HeldInv'
    BY <1>6, TypesKept DEF FilterEnd
  <2>2. MuxType'
    BY <1>6 DEF FilterEnd, Types, MuxType
  <2>3. PlaceType'
    BY <1>6 DEF FilterEnd, Types, PlaceType, Places
  <2> QED BY <2>1, <2>2, <2>3 DEF Types
<1>7. CASE WantInput
  <2>1. InputType' /\ HeldInv' /\ MuxType'
    BY <1>7, TypesKept DEF WantInput
  <2>2. EncodeType'
    BY <1>7 DEF WantInput, Types, EncodeType
  <2>3. PlaceType'
    BY <1>7 DEF WantInput, Types, PlaceType, Places
  <2> QED BY <2>1, <2>2, <2>3 DEF Types
<1> QED BY <1>1, <1>2, <1>3, <1>4, <1>5, <1>6, <1>7

(* The flush of the muxing queues, and the steps that open an encoder.     *)
LEMMA TypesMux ==
  ASSUME Types, FlushMuxingQueues
  PROVE  Types'
<1>1. UNCHANGED <<inputVars, encodeVars, fileVars, cur, back>> /\ main = "mux"
  BY DEF FlushMuxingQueues
<1>2. CASE main' = back /\ UNCHANGED muxVars
  <2>1. MuxType' /\ InputType' /\ EncodeType' /\ HeldInv'
    BY <1>1, <1>2, TypesKept DEF encodeVars
  <2>2. PlaceType'
    BY <1>1, <1>2 DEF muxVars, fileVars, Types, PlaceType, Places
  <2> QED BY <2>1, <2>2 DEF Types
<1>3. ASSUME NEW s \in Streams, muxing_queue[s] # <<>>,
             muxing_queue' = [muxing_queue EXCEPT ![s] = Tail(@)],
             Mux(s, Head(muxing_queue[s]), "mux"), UNCHANGED <<frame_number, size>>
      PROVE  Types'
  <2>1. muxing_queue[s] \in Seq(Nat)
    BY DEF Types, MuxType
  <2>2. /\ Head(muxing_queue[s]) \in Nat /\ Tail(muxing_queue[s]) \in Seq(Nat)
        /\ Len(Tail(muxing_queue[s])) = Len(muxing_queue[s]) - 1
    BY <1>3, <2>1, HeadFacts
  <2>3. /\ muxing_queue' \in [Streams -> Seq(Nat)]
        /\ \A o \in Streams : Len(muxing_queue'[o]) <= size[o]
    <3>1. Len(muxing_queue[s]) \in Nat /\ Len(muxing_queue[s]) <= size[s] /\ size[s] \in Nat
      BY <2>1 DEF Types, MuxType
    <3>2. Len(Tail(muxing_queue[s])) <= size[s]
      BY <2>2, <3>1
    <3> QED BY <1>3, <2>2, <3>2 DEF Types, MuxType
  <2>4. /\ main' = "mux" /\ written' \in [Streams -> Seq(Nat)]
        /\ finished' \in [Streams -> SUBSET {"encoder", "muxer"}]
        /\ main_return_code' = 1 \/ main_return_code' = main_return_code
    BY <1>3, <2>2, MuxStep DEF Types
  <2>5. MuxType'
    BY <1>3, <2>3, <2>4 DEF Types, MuxType
  <2>6. InputType' /\ EncodeType' /\ HeldInv'
    BY <1>1, <2>4, TypesKept DEF encodeVars
  <2>7. PlaceType'
    BY <1>1, <2>4 DEF fileVars, Types, PlaceType, Places
  <2> QED BY <2>5, <2>6, <2>7 DEF Types
<1> QED BY <1>2, <1>3 DEF FlushMuxingQueues, First, Waiting

LEMMA TypesOpen ==
  ASSUME Types, InitInStep \/ InitForFrame \/ FlushUninitialized
  PROVE  Types'
<1> USE DEF inputVars, encodeVars, muxVars, fileVars
<1>1. ASSUME NEW where \in {"step", "frame", "drain"}, InitOutputStream(cur, where),
             main \notin {"receive", "mux"},
             UNCHANGED <<inputVars, held, unavailable, trailer, cur>>,
             graph' \in [Streams -> {"none", "known", "open", "closed"}], MuxType'
      PROVE  Types'
  <2>1. initialized \in [Streams -> BOOLEAN] /\ header_written \in BOOLEAN /\ cur \in Streams
    BY DEF Types, EncodeType, PlaceType
  <2>2. where \in Places
    BY <1>1 DEF Places
  <2>3. /\ initialized' \in [Streams -> BOOLEAN] /\ header_written' \in BOOLEAN
        /\ main' \in {where, "mux", "failed"} /\ back' \in {where, back}
        /\ main' = "mux" => back' = where
    BY <1>1, <2>1, <2>2, InitStep
  <2>4. InputType' /\ HeldInv'
    BY <1>1, TypesKept
  <2>5. EncodeType'
    BY <1>1, <2>3 DEF Types, EncodeType
  <2>6. PlaceType'
    BY <1>1, <2>3 DEF Types, PlaceType, Places
  <2> QED BY <1>1, <2>4, <2>5, <2>6 DEF Types
<1>2. CASE InitInStep \/ InitForFrame
  <2>1. MuxType' /\ graph' \in [Streams -> {"none", "known", "open", "closed"}]
    BY <1>2, TypesKept DEF InitInStep, InitForFrame, Types, EncodeType
  <2> QED BY <1>1, <1>2, <2>1 DEF InitInStep, InitForFrame
<1>3. CASE FlushUninitialized
  <2>1. CASE /\ graph' = [graph EXCEPT ![cur] = "closed"]
             /\ finished' = [finished EXCEPT ![cur] = {"encoder", "muxer"}]
             /\ InitOutputStream(cur, "drain")
    <3>1. MuxType'
      BY <1>3, <2>1 DEF FlushUninitialized, Types, MuxType
    <3>2. graph' \in [Streams -> {"none", "known", "open", "closed"}]
      BY <2>1 DEF Types, EncodeType
    <3> QED BY <1>1, <1>3, <2>1, <3>1, <3>2 DEF FlushUninitialized
  <2>2. CASE main' = "failed" /\ UNCHANGED <<graph, finished, initialized, header_written, back>>
    <3>1. InputType' /\ EncodeType' /\ HeldInv' /\ MuxType'
      BY <1>3, <2>2, TypesKept DEF FlushUninitialized
    <3>2. PlaceType'
      BY <1>3, <2>2 DEF FlushUninitialized, Types, PlaceType, Places
    <3> QED BY <3>1, <3>2 DEF Types
  <2> QED BY <1>3, <2>1, <2>2 DEF FlushUninitialized
<1> QED BY <1>2, <1>3
(* process_input.                                                          *)
LEMMA TypesRead ==
  ASSUME Types, NEW s \in Streams \cup {NoFrame}, Read(s)
  PROVE  /\ InputType' /\ pos'[File] = pos[File] + 1 /\ pos[File] + 1 \in Nat
         /\ unavailable' \in [Streams -> BOOLEAN]
         /\ main = "input" /\ UNCHANGED <<held, initialized, fileVars>>
<1>1. pos'[File] = pos[File] + 1 /\ pos[File] + 1 \in Nat /\ pos[File] + 1 <= Len(input[File])
  BY TypesAtHand DEF Read, Types, InputType
<1>2. pos' \in [Files -> Nat] /\ \A f \in Files : pos'[f] <= Len(input[f])
  BY <1>1, TypesAtHand DEF Read, Types, InputType
<1>3. eagain' \in [Files -> BOOLEAN] /\ unavailable' \in [Streams -> BOOLEAN]
  BY DEF Read, ResetEagain
<1>4. InputType'
  BY <1>2, <1>3 DEF Read, Types, InputType
<1> QED BY <1>1, <1>3, <1>4 DEF Read

LEMMA TypesInput ==
  ASSUME Types, InputAgain \/ ReadPacket
  PROVE  Types'
<1> USE DEF inputVars, encodeVars, muxVars, fileVars, LoopUnchanged
<1>1. CASE InputAgain
  <2>1. HeldInv' /\ MuxType'
    BY <1>1, TypesKept DEF InputAgain
  <2>2. InputType'
    BY <1>1 DEF InputAgain, Types, InputType
  <2>3. EncodeType'
    BY <1>1 DEF InputAgain, Types, EncodeType
  <2>4. PlaceType'
    BY <1>1 DEF InputAgain, Types, PlaceType, Places
  <2> QED BY <2>1, <2>2, <2>3, <2>4 DEF Types
<1>2. ASSUME NEW s \in Streams \cup {NoFrame}, Read(s),
             MuxType', graph' \in [Streams -> {"none", "known", "open", "closed"}],
             main' \in {"loop", "frame", "overflow", "failed"}, back' \in {back, main}, cur' \in Streams
      PROVE  Types'
  <2>1. /\ InputType' /\ unavailable' \in [Streams -> BOOLEAN]
        /\ main = "input" /\ UNCHANGED <<held, initialized, fileVars>>
    BY <1>2, TypesRead
  <2>2. HeldInv'
    BY <2>1, TypesKept
  <2>3. EncodeType'
    BY <1>2, <2>1 DEF Types, EncodeType
  <2>4. PlaceType'
    BY <1>2, <2>1 DEF Types, PlaceType, Places
  <2> QED BY <1>2, <2>1, <2>2, <2>3, <2>4 DEF Types
<1>3. graph \in [Streams -> {"none", "known", "open", "closed"}] /\ cur \in Streams
  BY DEF Types, EncodeType, PlaceType
<1>4. CASE ReadNothing
  <2>1. MuxType'
    BY <1>4, TypesKept DEF ReadNothing
  <2> QED BY <1>2, <1>3, <1>4, <2>1 DEF ReadNothing
<1>5. ASSUME NEW s \in Streams, CopyPacket(s) PROVE Types'
  <2>1. Read(s) /\ UNCHANGED <<graph, cur>>
    BY <1>5 DEF CopyPacket
  <2>2. pos[File] + 1 \in Nat
    BY <2>1, TypesRead
  <2>3. MuxType' /\ main' \in {"loop", "overflow"} /\ back' \in {back, main}
    <3>1. CASE WritePacket(s, pos[File] + 1, "loop")
      BY <2>2, <3>1, WriteStep DEF Dropped, Muxed, Queued, Overflowed, Types
    <3>2. CASE main' = "loop" /\ UNCHANGED <<muxVars, back>>
      BY <3>2, TypesKept
    <3> QED BY <1>5, <3>1, <3>2 DEF CopyPacket
  <2> QED BY <1>2, <1>3, <2>1, <2>3
<1>6. ASSUME NEW s \in Streams, DecodePacket(s) PROVE Types'
  <2>1. Read(s) /\ cur' = s /\ UNCHANGED <<muxVars, back>>
    BY <1>6 DEF DecodePacket
  <2>2. MuxType'
    BY <2>1, TypesKept
  <2>3. /\ main' \in {"frame", "failed"}
        /\ graph' \in [Streams -> {"none", "known", "open", "closed"}]
    BY <1>3, <1>6 DEF DecodePacket, SendFrame
  <2> QED BY <1>2, <2>1, <2>2, <2>3
<1>7. CASE ReadEof
  <2>1. main = "input" /\ main' \in {"loop", "failed"} /\ HeldInv'
    BY <1>7, TypesKept DEF ReadEof, SendEof
  <2>2. InputType'
    BY <1>7 DEF ReadEof, Types, InputType
  <2>3. graph' \in [Streams -> {"none", "known", "open", "closed"}]
    BY <1>3, <1>7 DEF ReadEof, SendEof
  <2>4. unavailable' \in [Streams -> BOOLEAN]
    <3>1. (unavailable[cur] \/ eagain[File]) \in BOOLEAN
      OBVIOUS
    <3>2. unavailable' = [unavailable EXCEPT ![cur] = unavailable[cur] \/ eagain[File]]
      BY <1>7 DEF ReadEof
    <3> QED BY <3>1, <3>2 DEF Types, EncodeType
  <2>5. EncodeType'
    BY <1>7, <2>3, <2>4 DEF ReadEof, Types, EncodeType
  <2>6. MuxType'
    BY <1>7 DEF ReadEof, Types, MuxType
  <2>7. PlaceType'
    BY <1>7, <2>1 DEF ReadEof, Types, PlaceType, Places
  <2> QED BY <2>1, <2>2, <2>5, <2>6, <2>7 DEF Types
<1> QED BY <1>1, <1>4, <1>5, <1>6, <1>7 DEF ReadPacket

(* The encoders.                                                           *)
LEMMA TypesOutput ==
  ASSUME Types, OutputPacket, held[cur] # <<>>, main \in {"receive", "drain"},
         UNCHANGED <<inputVars, graph, initialized, unavailable, fileVars, cur>>
  PROVE  Types'
<1>1. held[cur] \in Seq(Nat) /\ cur \in Streams /\ Len(held[cur]) \in Nat /\ Delay \in Nat
  BY TypesAtHand
<1>2. /\ Head(held[cur]) \in Nat /\ Tail(held[cur]) \in Seq(Nat)
      /\ Len(Tail(held[cur])) = Len(held[cur]) - 1
  BY <1>1, HeadFacts
<1>3. WritePacket(cur, Head(held[cur]), main) /\ held' = [held EXCEPT ![cur] = Tail(@)]
  BY DEF OutputPacket
<1>4. /\ MuxType' /\ main' \in {main, "overflow"} /\ back' \in {back, main}
      /\ cur \in Video => frame_number'[cur] = frame_number[cur]
  <2>1. MuxType' /\ main' \in {main, "overflow"} /\ back' \in {back, main}
    BY <1>1, <1>2, <1>3, WriteStep DEF Dropped, Muxed, Queued, Overflowed, Types
  <2>2. ASSUME cur \in Video PROVE frame_number'[cur] = frame_number[cur]
    BY <1>3, <2>2 DEF WritePacket, Counted, Types, MuxType, PlaceType
  <2> QED BY <2>1, <2>2
<1>5. EncodeType'
  BY <1>2, <1>3 DEF encodeVars, Types, EncodeType
<1>6. HeldInv'
  <2> SUFFICES ASSUME NEW s \in Streams PROVE Len(held'[s]) <= Delay
    BY <1>1, <1>5 DEF HeldInv, EncodeType
  <2>1. CASE s = cur
    <3>1. Len(held[cur]) <= Delay + 1
      BY <1>1 DEF Types, HeldInv
    <3>2. held'[s] = Tail(held[cur])
      BY <1>3, <2>1 DEF Types, EncodeType
    <3> QED BY <1>1, <1>2, <3>1, <3>2
  <2>2. CASE s # cur
    BY <1>3, <2>2 DEF Types, EncodeType, HeldInv
  <2> QED BY <2>1, <2>2
<1>7. InputType'
  BY TypesKept
<1>8. PlaceType'
  BY <1>4 DEF fileVars, Types, PlaceType, Places
<1> QED BY <1>4, <1>5, <1>6, <1>7, <1>8 DEF Types
LEMMA TypesEncode ==
  ASSUME Types, DropFrame \/ EncodeFrame \/ ReceivePacket \/ FrameDone
  PROVE  Types'
<1> USE DEF inputVars, encodeVars, muxVars, fileVars, LoopUnchanged
<1>1. CASE DropFrame
  <2>1. InputType' /\ EncodeType' /\ HeldInv' /\ MuxType'
    BY <1>1, TypesKept DEF DropFrame
  <2>2. PlaceType'
    BY <1>1 DEF DropFrame, Types, PlaceType, Places
  <2> QED BY <2>1, <2>2 DEF Types
<1>2. CASE EncodeFrame
  <2>1. InputType' /\ MuxType'
    BY <1>2, TypesKept DEF EncodeFrame
  <2>2. CASE held' = [held EXCEPT ![cur] = Append(@, pos[File])] /\ main' = "receive"
    <3>1. /\ held[cur] \in Seq(Nat) /\ pos[File] \in Nat /\ cur \in Streams /\ Delay \in Nat
          /\ Len(held[cur]) \in Nat
      BY TypesAtHand
    <3>2. /\ Append(held[cur], pos[File]) \in Seq(Nat)
          /\ Len(Append(held[cur], pos[File])) = Len(held[cur]) + 1
      BY <3>1, AppendFacts
    <3>3. EncodeType'
      BY <1>2, <2>2, <3>2 DEF EncodeFrame, Types, EncodeType
    <3>4. HeldInv'
      <4>1. Len(held[cur]) <= Delay
        BY <1>2, <3>1 DEF EncodeFrame, Types, HeldInv
      <4>2. Len(held'[cur]) <= Delay + 1
        BY <2>2, <3>1, <3>2, <4>1 DEF Types, EncodeType
      <4>3. \A s \in Streams : s # cur => Len(held'[s]) <= Delay
        BY <1>2, <2>2 DEF Types, EncodeType, HeldInv
      <4>4. cur' = cur /\ main' = "receive"
        BY <1>2, <2>2 DEF EncodeFrame
      <4> QED BY <4>2, <4>3, <4>4 DEF HeldInv
    <3>5. PlaceType'
      BY <1>2, <2>2 DEF EncodeFrame, Types, PlaceType, Places
    <3> QED BY <2>1, <3>3, <3>4, <3>5 DEF Types
  <2>3. CASE main' = "failed" /\ UNCHANGED held
    <3>1. EncodeType' /\ HeldInv'
      BY <1>2, <2>3, TypesKept DEF EncodeFrame
    <3>2. PlaceType'
      BY <1>2, <2>3 DEF EncodeFrame, Types, PlaceType, Places
    <3> QED BY <2>1, <3>1, <3>2 DEF Types
  <2> QED BY <1>2, <2>2, <2>3 DEF EncodeFrame
<1>3. CASE ReceivePacket
  <2>1. held[cur] # <<>>
    <3>1. Len(held[cur]) > 0
      BY <1>3, TypesAtHand DEF ReceivePacket
    <3> QED BY <3>1
  <2> QED BY <1>3, <2>1, TypesOutput DEF ReceivePacket
<1>4. CASE FrameDone
  <2>1. InputType' /\ EncodeType'
    BY <1>4, TypesKept DEF FrameDone
  <2>2. HeldInv'
    <3>1. Len(held[cur]) <= Delay /\ held' = held /\ cur' = cur /\ main' = "loop"
      BY <1>4 DEF FrameDone
    <3> QED BY <3>1 DEF Types, HeldInv
  <2>3. MuxType'
    <3>1. /\ frame_number[cur] \in Nat /\ MaxFrames[cur] \in Nat /\ cur \in Streams
          /\ Counted(cur) \/ frame_number[cur] < MaxFrames[cur]
      BY <1>4, Constants DEF FrameDone, Counted, Types, PlaceType, MuxType
    <3>2. LET n == IF Counted(cur) THEN frame_number[cur] ELSE frame_number[cur] + 1
          IN n \in Nat /\ n <= MaxFrames[cur]
      BY <3>1 DEF Types, MuxType
    <3>3. /\ frame_number' \in [Streams -> Nat]
          /\ \A s \in Streams : frame_number'[s] <= MaxFrames[s]
      BY <1>4, <3>2 DEF FrameDone, Types, MuxType
    <3> QED BY <1>4, <3>3 DEF FrameDone, Types, MuxType
  <2>4. PlaceType'
    BY <1>4 DEF FrameDone, Types, PlaceType, Places
  <2> QED BY <2>1, <2>2, <2>3, <2>4 DEF Types
<1> QED BY <1>1, <1>2, <1>3, <1>4

(* The end of transcode.                                                   *)
LEMMA TypesEnd ==
  ASSUME Types,
         CloseFilters \/ FlushCopied \/ FlushInitialized \/ DrainPacket \/ Drained \/ WriteTrailer
  PROVE  Types'
<1> USE DEF inputVars, encodeVars, muxVars, fileVars, LoopUnchanged
<1>1. CASE CloseFilters
  <2>1. InputType' /\ MuxType' /\ HeldInv' /\ main' \in {"flush", "failed"} /\ cur' = 1
    BY <1>1, TypesKept DEF CloseFilters, SendEof
  <2>2. EncodeType'
    BY <1>1 DEF CloseFilters, SendEof, Types, EncodeType
  <2>3. cur' \in Streams
    BY <2>1, Constants
  <2>4. PlaceType'
    BY <1>1, <2>1, <2>3 DEF CloseFilters, Types, PlaceType, Places
  <2> QED BY <2>1, <2>2, <2>4 DEF Types
<1>2. CASE FlushCopied \/ Drained
  <2>1. NextStream /\ InputType' /\ EncodeType' /\ MuxType' /\ HeldInv'
    BY <1>2, TypesKept DEF FlushCopied, Drained
  <2>2. cur' \in Streams /\ main' \in {"flush", "trailer"}
    BY <2>1, Constants, TypesAtHand DEF NextStream
  <2>3. PlaceType'
    BY <1>2, <2>2 DEF FlushCopied, Drained, Types, PlaceType, Places
  <2> QED BY <2>1, <2>3 DEF Types
<1>3. CASE FlushInitialized \/ WriteTrailer
  <2>1. InputType' /\ EncodeType' /\ MuxType' /\ HeldInv'
    BY <1>3, TypesKept DEF FlushInitialized, WriteTrailer
  <2>2. PlaceType'
    BY <1>3 DEF FlushInitialized, WriteTrailer, Types, PlaceType, Places
  <2> QED BY <2>1, <2>2 DEF Types
<1>4. CASE DrainPacket
  <2>1. CASE OutputPacket
    BY <1>4, <2>1, TypesOutput DEF DrainPacket
  <2>2. CASE held' = [held EXCEPT ![cur] = Tail(@)] /\ UNCHANGED <<muxVars, main, back>>
    <3>1. held[cur] \in Seq(Nat) /\ cur \in Streams /\ Len(held[cur]) \in Nat /\ Delay \in Nat
      BY TypesAtHand
    <3>2. Tail(held[cur]) \in Seq(Nat) /\ Len(Tail(held[cur])) = Len(held[cur]) - 1
      BY <1>4, <3>1, HeadFacts DEF DrainPacket
    <3>3. EncodeType'
      BY <1>4, <2>2, <3>2 DEF DrainPacket, Types, EncodeType
    <3>4. HeldInv'
      <4>1. Len(held'[cur]) <= Delay
        BY <1>4, <2>2, <3>1, <3>2 DEF DrainPacket, Types, EncodeType, HeldInv
      <4>2. \A s \in Streams : s # cur => Len(held'[s]) <= Delay
        BY <2>2 DEF Types, EncodeType, HeldInv
      <4>3. main' # "receive"
        BY <1>4, <2>2 DEF DrainPacket
      <4> QED BY <4>1, <4>2, <4>3 DEF HeldInv
    <3>5. InputType' /\ MuxType'
      BY <1>4, <2>2, TypesKept DEF DrainPacket
    <3>6. PlaceType'
      BY <1>4, <2>2 DEF DrainPacket, Types, PlaceType, Places
    <3> QED BY <3>3, <3>4, <3>5, <3>6 DEF Types
  <2>3. CASE main' = "failed" /\ UNCHANGED <<held, muxVars, back>>
    <3>1. InputType' /\ EncodeType' /\ HeldInv' /\ MuxType'
      BY <1>4, <2>3, TypesKept DEF DrainPacket
    <3>2. PlaceType'
      BY <1>4, <2>3 DEF DrainPacket, Types, PlaceType, Places
    <3> QED BY <3>1, <3>2 DEF Types
  <2> QED BY <1>4, <2>1, <2>2, <2>3 DEF DrainPacket
<1> QED BY <1>1, <1>2, <1>3, <1>4

LEMMA TypesStep == Types /\ [Next]_vars => Types'
<1>1. ASSUME Types, UNCHANGED vars PROVE Types'
  <2>1. InputType' /\ EncodeType' /\ HeldInv' /\ MuxType'
    BY <1>1, TypesKept DEF vars, encodeVars
  <2>2. PlaceType'
    BY <1>1 DEF vars, fileVars, muxVars, Types, PlaceType
  <2> QED BY <2>1, <2>2 DEF Types
<1> QED
  BY <1>1, TypesLoop, TypesMux, TypesOpen, TypesInput, TypesEncode, TypesEnd
  DEF Next, Step, Terminated

(* Every variable keeps its type, an encoder holds no more than one frame  *)
(* more than it is allowed, and a muxing queue no more packets than it has *)
(* been allocated for, which is never above its limit.                     *)
THEOREM TypeCorrect == Spec => []TypeOK
<1>1. Init => Types
  BY InitTypes
<1>2. Types /\ [Next]_vars => Types'
  BY TypesStep
<1>3. Types => TypeOK
  BY TypesSuffice
<1> QED BY <1>1, <1>2, <1>3, PTL DEF Spec
-----------------------------------------------------------------------------
(* frame_number and the packets.                                           *)

(* Nothing comes after the end, an overflow or a failure.                  *)
LEMMA AliveBefore == [Next]_vars /\ Alive' => Alive
BY DEF Alive, vars, Next, Step, ReadPacket, Read, Stop, Terminated, TranscodeInit, FlushMuxingQueues,
       Choose, LeaveLoop, Configure, InitInStep, FilterEnd, WantInput, InputAgain, ReadNothing,
       CopyPacket, DecodePacket, ReadEof, InitForFrame, DropFrame, EncodeFrame, ReceivePacket,
       FrameDone, CloseFilters, FlushCopied, FlushUninitialized, FlushInitialized, DrainPacket,
       Drained, WriteTrailer

(* The steps that touch neither a packet nor frame_number.                 *)
packetVars == <<frame_number, written, muxing_queue>>

LEMMA CountKept == CountedOnce /\ Alive /\ UNCHANGED packetVars => CountedOnce'
BY DEF CountedOnce, Alive, Given, packetVars

LEMMA CountWrite ==
  ASSUME Types, CountedOnce, Alive, NEW s \in Streams, NEW t \in Nat, NEW where,
         WritePacket(s, t, where)
  PROVE  CountedOnce'
<1> SUFFICES ASSUME Alive', NEW o \in Streams, Counted(o)
             PROVE  frame_number'[o] = Len(written'[o]) + Len(muxing_queue'[o])
  BY DEF CountedOnce, Counted, Given
<1>1. frame_number[o] = Len(written[o]) + Len(muxing_queue[o])
  BY DEF CountedOnce, Given
<1>2. /\ frame_number \in [Streams -> Nat]
      /\ written \in [Streams -> Seq(Nat)] /\ muxing_queue \in [Streams -> Seq(Nat)]
  BY DEF Types, MuxType
<1>3. CASE Dropped(s, t, where)
  BY <1>1, <1>3 DEF Dropped, muxVars
<1>4. CASE /\ Muxed(s, t, where) \/ Queued(s, t, where)
           /\ frame_number' = [frame_number EXCEPT ![s] = IF Counted(s) THEN @ + 1 ELSE @]
  <2>1. \/ /\ written' = [written EXCEPT ![s] = Append(@, t)]
           /\ muxing_queue' = muxing_queue
        \/ /\ muxing_queue' = [muxing_queue EXCEPT ![s] = Append(@, t)]
           /\ written' = written
    BY <1>4 DEF Muxed, Queued
  <2>2. CASE o = s
    <3>1. frame_number' = [frame_number EXCEPT ![s] = @ + 1]
      BY <1>4, <2>2
    <3>2. CASE written' = [written EXCEPT ![s] = Append(@, t)] /\ muxing_queue' = muxing_queue
      BY <1>1, <1>2, <2>2, <3>1, <3>2
    <3>3. CASE muxing_queue' = [muxing_queue EXCEPT ![s] = Append(@, t)] /\ written' = written
      BY <1>1, <1>2, <2>2, <3>1, <3>3
    <3> QED BY <2>1, <3>2, <3>3
  <2>3. CASE o # s
    <3>1. frame_number'[o] = frame_number[o]
      BY <1>2, <1>4, <2>3
    <3>2. written'[o] = written[o] /\ muxing_queue'[o] = muxing_queue[o]
      BY <1>2, <2>1, <2>3
    <3> QED BY <1>1, <3>1, <3>2
  <2> QED BY <2>2, <2>3
<1>5. ~Overflowed(s, t, where)
  BY DEF Overflowed, Alive
<1> QED BY <1>3, <1>4, <1>5, WriteStep DEF Types

LEMMA CountFlush == Types /\ CountedOnce /\ FlushMuxingQueues => CountedOnce'
<1> SUFFICES ASSUME Types, CountedOnce, FlushMuxingQueues PROVE CountedOnce'
  OBVIOUS
<1>1. Alive
  BY DEF FlushMuxingQueues, Alive
<1>2. CASE UNCHANGED muxVars
  BY <1>1, <1>2, CountKept DEF muxVars, packetVars
<1>3. ASSUME NEW s \in Streams, muxing_queue[s] # <<>>,
             muxing_queue' = [muxing_queue EXCEPT ![s] = Tail(@)],
             Mux(s, Head(muxing_queue[s]), "mux"), UNCHANGED frame_number
      PROVE  CountedOnce'
  <2> SUFFICES ASSUME NEW o \in Streams
               PROVE  Len(written'[o]) + Len(muxing_queue'[o]) = Len(written[o]) + Len(muxing_queue[o])
    BY <1>1, <1>3 DEF CountedOnce, Counted, Given
  <2>1. written \in [Streams -> Seq(Nat)] /\ muxing_queue \in [Streams -> Seq(Nat)]
    BY DEF Types, MuxType
  <2>2. written' = [written EXCEPT ![s] = Append(@, Head(muxing_queue[s]))]
    BY <1>3 DEF Mux
  <2>3. CASE o = s
    <3>1. /\ muxing_queue[o] \in Seq(Nat) /\ muxing_queue[o] # <<>> /\ written[o] \in Seq(Nat)
          /\ written'[o] = Append(written[o], Head(muxing_queue[o]))
          /\ muxing_queue'[o] = Tail(muxing_queue[o])
      BY <1>3, <2>1, <2>2, <2>3
    <3>2. Head(muxing_queue[o]) \in Nat
      BY <3>1, HeadFacts
    <3>3. ASSUME NEW w \in Seq(Nat), NEW q \in Seq(Nat), NEW x \in Nat, q # <<>>
          PROVE  Len(Append(w, x)) + Len(Tail(q)) = Len(w) + Len(q)
      <4>1. Len(Append(w, x)) = Len(w) + 1 /\ Len(Tail(q)) = Len(q) - 1
        BY <3>3, AppendFacts, HeadFacts
      <4>2. Len(w) \in Nat /\ Len(q) \in Nat
        OBVIOUS
      <4>3. \A n, k \in Nat : (n + 1) + (k - 1) = n + k
        OBVIOUS
      <4>4. (Len(w) + 1) + (Len(q) - 1) = Len(w) + Len(q)
        BY <4>2, <4>3, Zenon
      <4> QED BY <4>1, <4>4, Zenon
    <3> QED BY <3>1, <3>2, <3>3
  <2>4. CASE o # s
    BY <1>3, <2>1, <2>2, <2>4
  <2> QED BY <2>3, <2>4
<1> QED BY <1>2, <1>3 DEF FlushMuxingQueues, First, Waiting

LEMMA CountStep == Types /\ CountedOnce /\ [Next]_vars => CountedOnce'
<1> SUFFICES ASSUME Types, CountedOnce, [Next]_vars, Alive' PROVE CountedOnce'
  BY DEF CountedOnce
<1>0. Alive
  BY AliveBefore
<1>1. CASE FlushMuxingQueues
  BY <1>1, CountFlush
<1>2. ASSUME NEW s \in Streams, CopyPacket(s) PROVE CountedOnce'
  <2>1. pos[File] + 1 \in Nat
    BY TypesAtHand
  <2>2. CASE WritePacket(s, pos[File] + 1, "loop")
    BY <1>0, <2>1, <2>2, CountWrite
  <2>3. CASE UNCHANGED muxVars
    BY <1>0, <2>3, CountKept DEF muxVars, packetVars
  <2> QED BY <1>2, <2>2, <2>3 DEF CopyPacket
<1>3. CASE ReceivePacket \/ DrainPacket
  <2>1. CASE OutputPacket
    <3>1. held[cur] \in Seq(Nat) /\ Len(held[cur]) \in Nat /\ Delay \in Nat /\ cur \in Streams
      BY TypesAtHand
    <3>2. held[cur] # <<>>
      <4>1. CASE ReceivePacket
        <5>1. Len(held[cur]) > 0
          BY <3>1, <4>1 DEF ReceivePacket
        <5> QED BY <3>1, <5>1, EmptySeq
      <4>2. CASE DrainPacket
        BY <4>2 DEF DrainPacket
      <4> QED BY <1>3, <4>1, <4>2
    <3>3. Head(held[cur]) \in Nat
      BY <3>1, <3>2, HeadFacts
    <3> QED BY <1>0, <2>1, <3>1, <3>3, CountWrite DEF OutputPacket
  <2>2. CASE UNCHANGED muxVars
    BY <1>0, <2>2, CountKept DEF muxVars, packetVars
  <2> QED BY <1>0, <1>3, <2>1, <2>2 DEF ReceivePacket, DrainPacket
<1>4. CASE FrameDone
  <2>1. UNCHANGED <<written, muxing_queue>> /\ \A s \in Streams : Counted(s) => frame_number'[s] = frame_number[s]
    BY <1>4, TypesAtHand DEF FrameDone, Types, MuxType
  <2> QED BY <1>0, <2>1 DEF CountedOnce, Given, Counted
<1>5. CASE UNCHANGED packetVars
  BY <1>0, <1>5, CountKept
<1>6. CASE \/ TranscodeInit \/ Choose \/ LeaveLoop \/ Stop \/ Configure \/ InitInStep \/ FilterEnd
           \/ WantInput \/ InputAgain \/ ReadNothing \/ (\E s \in Streams : DecodePacket(s)) \/ ReadEof
           \/ InitForFrame \/ DropFrame \/ EncodeFrame \/ CloseFilters \/ FlushCopied
           \/ FlushUninitialized \/ FlushInitialized \/ Drained \/ WriteTrailer \/ UNCHANGED vars
  <2>1. UNCHANGED packetVars
    BY <1>6 DEF packetVars, vars, muxVars, LoopUnchanged, TranscodeInit, Choose, LeaveLoop, Stop,
                Configure, InitInStep, FilterEnd, WantInput, InputAgain, ReadNothing, DecodePacket,
                ReadEof, InitForFrame, DropFrame, EncodeFrame, CloseFilters, FlushCopied,
                FlushUninitialized, FlushInitialized, Drained, WriteTrailer
  <2> QED BY <1>5, <2>1
<1> QED BY <1>1, <1>2, <1>3, <1>4, <1>6 DEF Next, Step, ReadPacket, Terminated

(* frame_number counts each packet of a stream once, whether or not it has *)
(* been through its muxing queue (write_packet is called twice for it).    *)
THEOREM CountedOnceCorrect == Spec => []CountedOnce
<1>1. Init => Types /\ CountedOnce
  <2>1. Init => CountedOnce
    BY DEF Init, CountedOnce, Given
  <2> QED BY <2>1, InitTypes
<1>2. (Types /\ CountedOnce) /\ [Next]_vars => (Types /\ CountedOnce)'
  BY TypesStep, CountStep
<1> QED BY <1>1, <1>2, PTL DEF Spec

-----------------------------------------------------------------------------
(* The streams, while the program lives: the inductive invariant.          *)

(* A frame of stream s has been decoded and is on its way to the encoder.  *)
OnItsWay(s) == cur = s /\ (main = "frame" \/ (main = "mux" /\ back = "frame"))

(* The loop of transcode has not been left.                                *)
Looping ==
  main \in {"init", "loop", "step", "input", "frame", "receive"} \/ (main = "mux" /\ back # "drain")

Flushing == main \in {"flush", "drain"} \/ (main = "mux" /\ back = "drain")
Draining == main = "drain" \/ (main = "mux" /\ back = "drain")

(* A stream that is copied is open from the start and has no encoder.  An  *)
(* encoded stream that is not open has nothing anywhere, and has seen      *)
(* nothing but the frame for which it is being opened.                     *)
StreamInv(s) ==
  /\ s \in Copied => /\ graph[s] = "none" /\ held[s] = <<>>
                     /\ main \in {"init", "end"} \/ initialized[s]
  /\ s \in Encoded /\ graph[s] \in {"none", "known"} => ~initialized[s]
  /\ s \in Encoded /\ ~initialized[s] =>
       /\ muxing_queue[s] = <<>> /\ held[s] = <<>>
       /\ OnItsWay(s) \/ (Seen(s) = {} /\ graph[s] # "open")

WholeFile(s) == pos[FileOf[s]] = Len(input[FileOf[s]])

(* While the loop lasts a filter graph is closed, or a stream finished     *)
(* without a muxer's failure, only at the end of the input file.           *)
FinishedInv(s) ==
  /\ Looping /\ graph[s] \in {"known", "closed"} => WholeFile(s)
  /\ Looping /\ main_return_code = 0 /\ finished[s] # {} => WholeFile(s) /\ ~OnItsWay(s)
  /\ main_return_code = 0 /\ s \in Encoded /\ "muxer" \in finished[s] => held[s] = <<>>

(* The header is written with the last stream, and no packet waits from    *)
(* then on, once the muxing queues have been flushed.                      *)
HeaderInv ==
  /\ header_written <=> \A s \in Streams : initialized[s]
  /\ main = "mux" => header_written
  /\ header_written /\ main # "mux" => \A s \in Streams : muxing_queue[s] = <<>>

(* What is known of the stream the main thread is at.  A packet is read    *)
(* before the header only for a stream that is not open.                   *)
PlaceInv ==
  /\ main = "init" =>
       /\ \A s \in Streams : ~initialized[s] /\ muxing_queue[s] = <<>>
       /\ \A f \in Files : pos[f] = 0
  /\ OnItsWay(cur) => cur \in Encoded /\ graph[cur] = "open"
  /\ main = "receive" => cur \in Encoded /\ initialized[cur]
  /\ trailer => main = "end"
  /\ main = "input" => graph[cur] \in {"none", "open"}
  /\ main \in {"step", "input"} /\ ~header_written /\ graph[cur] \in {"none", "open"} =>
       ~initialized[cur]

(* At the end the streams are opened and their encoders drained in turn.   *)
FlushInv ==
  /\ Draining => cur \in Encoded /\ initialized[cur]
  /\ Flushing => \A s \in Streams : s < cur => initialized[s] /\ held[s] = <<>>
  /\ main = "trailer" => \A s \in Streams : initialized[s] /\ held[s] = <<>>

(* A frame of a stream that is open comes before the header only while     *)
(* another stream of the file is waited for; or it is the first frame, and *)
(* has opened its stream.                                                  *)
FirstInv ==
  main \in {"frame", "receive"} /\ ~header_written =>
    \/ \E o \in Encoded \ {cur} : ~initialized[o] /\ FileOf[o] = FileOf[cur]
    \/ Len(muxing_queue[cur]) + Len(held[cur]) <= IF main = "frame" THEN 0 ELSE 1

StateInv ==
  /\ \A s \in Streams : StreamInv(s) /\ FinishedInv(s)
  /\ HeaderInv /\ PlaceInv /\ FlushInv /\ FirstInv

AliveInv == Alive => StateInv

Variables ==
  /\ cur \in Streams /\ main \in Places /\ back \in Places
  /\ graph \in [Streams -> {"none", "known", "open", "closed"}]
  /\ initialized \in [Streams -> BOOLEAN] /\ header_written \in BOOLEAN
  /\ finished \in [Streams -> SUBSET {"encoder", "muxer"}]
  /\ muxing_queue \in [Streams -> Seq(Nat)] /\ written \in [Streams -> Seq(Nat)]
  /\ held \in [Streams -> Seq(Nat)]
  /\ main = "mux" => back \in {"step", "frame", "drain"}

LEMMA VariablesTyped == (Types => Variables) /\ (Types' => Variables')
BY DEF Types, EncodeType, MuxType, PlaceType, Variables

(* Streams are numbered, and are copied or encoded.                        *)
LEMMA StreamFacts ==
  /\ Streams \subseteq Nat /\ Encoded \subseteq Streams /\ Copied \subseteq Streams
  /\ \A s \in Streams : s \in Copied \/ s \in Encoded
  /\ \A s \in Encoded : s \notin Copied
BY OutputAssumption, Constants DEF Encoded

(* What was seen of a file does not change while nothing is read.          *)
LEMMA SeenKept ==
  ASSUME UNCHANGED <<input, pos>>
  PROVE  \A s \in Streams : Seen(s)' = Seen(s) /\ (WholeFile(s)' <=> WholeFile(s))
BY DEF Seen, WholeFile

(* A packet is read: no other stream sees it, and of no stream of that     *)
(* file had the whole been read.                                           *)
LEMMA SeenRead ==
  ASSUME Types, NEW s \in Streams \cup {NoFrame}, Read(s)
  PROVE  /\ \A o \in Streams : Seen(o)' = Seen(o) \cup (IF o = s THEN {pos[File] + 1} ELSE {})
         /\ s \in Streams => FileOf[s] = File
         /\ \A o \in Streams : /\ FileOf[o] = File => ~WholeFile(o)
                               /\ FileOf[o] # File => (WholeFile(o)' <=> WholeFile(o))
         /\ \A o \in Streams : \A k \in Seen(o) : FileOf[o] = File => k < pos[File] + 1
<1>0. /\ cur \in Streams /\ File \in Files /\ pos[File] \in Nat /\ Len(input[File]) \in Nat
      /\ pos \in [Files -> Nat] /\ input \in Inputs /\ input' = input
      /\ pos[File] < Len(input[File]) /\ input[File][pos[File] + 1] = s
      /\ pos' = [pos EXCEPT ![File] = @ + 1]
      /\ \A o \in Streams : FileOf[o] \in Files
  BY TypesAtHand, Constants DEF Read, Types, InputType
<1>1. s \in Streams => FileOf[s] = File
  <2>1. pos[File] + 1 \in 1..Len(input[File])
    BY <1>0
  <2> QED BY <1>0, <2>1, OutputAssumption
<1>2. ASSUME NEW o \in Streams
      PROVE  Seen(o)' = Seen(o) \cup (IF o = s THEN {pos[File] + 1} ELSE {})
  <2>1. CASE FileOf[o] = File
    BY <1>0, <2>1 DEF Seen
  <2>2. CASE FileOf[o] # File
    BY <1>0, <1>1, <2>2 DEF Seen
  <2> QED BY <2>1, <2>2
<1>3. ASSUME NEW o \in Streams
      PROVE  /\ FileOf[o] = File => ~WholeFile(o)
             /\ FileOf[o] # File => (WholeFile(o)' <=> WholeFile(o))
  BY <1>0 DEF WholeFile
<1>4. \A o \in Streams : \A k \in Seen(o) : FileOf[o] = File => k < pos[File] + 1
  BY <1>0 DEF Seen
<1> QED BY <1>1, <1>2, <1>3, <1>4

LEMMA InitState == Init => StateInv
<1> SUFFICES ASSUME Init PROVE StateInv
  OBVIOUS
<1> USE DEF Init
<1>0. /\ cur \in Streams /\ main = "init" /\ ~OnItsWay(cur)
      /\ \A s \in Streams : /\ graph[s] = "none" /\ ~initialized[s] /\ held[s] = <<>>
                            /\ muxing_queue[s] = <<>> /\ finished[s] = {} /\ Seen(s) = {}
  BY Constants DEF OnItsWay, Seen
<1>1. \A s \in Streams : StreamInv(s) /\ FinishedInv(s)
  BY <1>0 DEF StreamInv, FinishedInv
<1>2. HeaderInv /\ PlaceInv /\ FlushInv /\ FirstInv
  BY <1>0, Constants DEF HeaderInv, PlaceInv, FlushInv, FirstInv, Flushing, Draining
<1> QED BY <1>1, <1>2 DEF StateInv

(* A step of the loop or of transcode_step that reads nothing, writes      *)
(* nothing and initializes no stream.                                      *)
LEMMA StateLoop ==
  ASSUME Types, StateInv,
         Choose \/ LeaveLoop \/ Stop \/ Configure \/ FilterEnd \/ WantInput \/ InputAgain
  PROVE  StateInv'
<1>0. Variables /\ Variables'
  BY VariablesTyped, TypesLoop, TypesInput
<1>1. /\ UNCHANGED <<input, pos, held, initialized, header_written, muxing_queue, main_return_code,
                     trailer, back>>
      /\ main \in {"loop", "step", "input"} /\ main' \in {"loop", "step", "input", "closing"}
      /\ \A s \in Streams : Seen(s)' = Seen(s) /\ (WholeFile(s)' <=> WholeFile(s))
  BY SeenKept DEF Choose, LeaveLoop, Stop, Configure, FilterEnd, WantInput, InputAgain,
                  LoopUnchanged, inputVars, encodeVars, muxVars, fileVars
<1>2. \A s \in Streams : ~OnItsWay(s) /\ ~OnItsWay(s)'
  BY <1>1 DEF OnItsWay
<1>3. \A s \in Streams : \/ graph'[s] = graph[s]
                         \/ graph[s] = "known" /\ graph'[s] = "closed" /\ main' = "step"
  BY <1>0 DEF Choose, LeaveLoop, Stop, Configure, FilterEnd, WantInput, InputAgain,
                  LoopUnchanged, inputVars, encodeVars, muxVars, fileVars, Variables
<1>4. \A s \in Streams : \/ finished'[s] = finished[s]
                         \/ main' = "closing" /\ finished'[s] = finished[s] \cup {"encoder"}
                         \/ s = cur /\ graph[s] = "closed" /\ finished'[s] = finished[s] \cup {"encoder"}
  <2>1. CASE LeaveLoop
    BY <1>0, <2>1 DEF LeaveLoop, CloseAll, Variables
  <2>2. CASE FilterEnd
    BY <1>0, <2>2 DEF FilterEnd, Variables
  <2>3. CASE Choose \/ Stop \/ Configure \/ WantInput \/ InputAgain
    BY <2>3 DEF Choose, Stop, Configure, WantInput, InputAgain, LoopUnchanged, muxVars
  <2> QED BY <2>1, <2>2, <2>3
<1>5. ASSUME NEW s \in Streams PROVE StreamInv(s)'
  BY <1>0, <1>1, <1>2, <1>3, <1>5 DEF StateInv, StreamInv, Variables
<1>6. ASSUME NEW s \in Streams PROVE FinishedInv(s)'
  BY <1>0, <1>1, <1>2, <1>3, <1>4 DEF StateInv, FinishedInv, Looping, Variables
<1>7. HeaderInv'
  BY <1>1 DEF StateInv, HeaderInv
<1>8. PlaceInv'
  <2>1. main' \in {"step", "input"} /\ ~header_written /\ graph'[cur'] \in {"none", "open"} => ~initialized[cur']
    BY <1>0, <1>1 DEF StateInv, PlaceInv, HeaderInv, Choose, ChooseOutput, First, LeaveLoop, Stop,
                  Configure, FilterEnd, WantInput, InputAgain, LoopUnchanged, inputVars, encodeVars, muxVars, fileVars, Variables
  <2>2. main' = "input" => graph'[cur'] \in {"none", "open"}
    BY <1>1 DEF Choose, LeaveLoop, Stop, Configure, FilterEnd, WantInput, InputAgain,
                encodeVars, LoopUnchanged, muxVars, fileVars
  <2> QED BY <1>0, <1>1, <1>2, <2>1, <2>2 DEF StateInv, PlaceInv, Variables
<1>9. FlushInv' /\ FirstInv'
  BY <1>1 DEF FlushInv, FirstInv, Flushing, Draining
<1> QED BY <1>5, <1>6, <1>7, <1>8, <1>9 DEF StateInv

LEMMA StateInit == Types /\ StateInv /\ TranscodeInit => StateInv'
<1> SUFFICES ASSUME Types, StateInv, TranscodeInit PROVE StateInv'
  OBVIOUS
<1>0. Variables /\ Variables'
  BY VariablesTyped, TypesLoop
<1>1. /\ UNCHANGED <<input, pos, held, muxing_queue, main_return_code, trailer, back, graph, finished, cur>>
      /\ main = "init" /\ main' \in {"loop", "end"}
      /\ \A s \in Streams : Seen(s)' = Seen(s) /\ (WholeFile(s)' <=> WholeFile(s))
      /\ \A s \in Streams : ~OnItsWay(s) /\ ~OnItsWay(s)' /\ ~initialized[s] /\ muxing_queue[s] = <<>>
  BY SeenKept DEF TranscodeInit, inputVars, muxVars, OnItsWay, StateInv, PlaceInv
<1>2. \/ /\ main' = "end" /\ UNCHANGED <<initialized, header_written>>
      \/ /\ main' = "loop" /\ (header_written' <=> Copied = Streams)
         /\ \A s \in Streams : initialized'[s] <=> s \in Copied
  BY DEF TranscodeInit
<1>3. ASSUME NEW s \in Streams PROVE StreamInv(s)'
  BY <1>1, <1>2, <1>3, StreamFacts DEF StateInv, StreamInv
<1>4. ASSUME NEW s \in Streams PROVE FinishedInv(s)'
  BY <1>1, <1>4 DEF StateInv, FinishedInv, Looping
<1>5. HeaderInv'
  <2>1. Copied = Streams <=> \A s \in Streams : s \in Copied
    BY StreamFacts
  <2>2. header_written' <=> \A s \in Streams : initialized'[s]
    <3>1. CASE UNCHANGED <<initialized, header_written>>
      BY <3>1 DEF StateInv, HeaderInv
    <3> QED BY <1>2, <2>1, <3>1
  <2> QED BY <1>1, <1>2, <2>2 DEF HeaderInv
<1>6. PlaceInv' /\ FlushInv' /\ FirstInv'
  BY <1>0, <1>1, <1>2 DEF StateInv, PlaceInv, FlushInv, FirstInv, Flushing, Draining, Variables
<1> QED BY <1>3, <1>4, <1>5, <1>6 DEF StateInv

(* The steps that open an encoder.                                         *)
LEMMA StateOpen ==
  ASSUME Types, StateInv, InitInStep \/ InitForFrame \/ FlushUninitialized, main' # "failed"
  PROVE  StateInv'
<1>0. Variables /\ Variables'
  BY VariablesTyped, TypesOpen
<1>1. /\ UNCHANGED <<input, pos, held, muxing_queue, main_return_code, trailer, cur>>
      /\ \A s \in Streams : Seen(s)' = Seen(s) /\ (WholeFile(s)' <=> WholeFile(s))
  BY SeenKept DEF InitInStep, InitForFrame, FlushUninitialized, inputVars, muxVars
<1>2. /\ \A s \in Streams : s # cur => graph'[s] = graph[s] /\ finished'[s] = finished[s]
      /\ \/ InitInStep /\ graph' = graph /\ finished' = finished /\ graph[cur] = "closed"
         \/ InitForFrame /\ graph' = graph /\ finished' = finished
         \/ FlushUninitialized /\ graph[cur] = "known" /\ graph'[cur] = "closed"
  <2>1. CASE InitInStep
    <3>1. ~initialized[cur] /\ main = "step" /\ graph[cur] \in {"open", "closed"}
          /\ graph' = graph /\ finished' = finished
      BY <2>1 DEF InitInStep, muxVars
    <3>2. graph[cur] # "open"
      BY <1>0, <3>1, StreamFacts DEF StateInv, StreamInv, OnItsWay, Variables
    <3> QED BY <2>1, <3>1, <3>2
  <2>3. CASE InitForFrame
    BY <2>3 DEF InitForFrame, muxVars
  <2>2. CASE FlushUninitialized
    BY <1>0, <2>2 DEF FlushUninitialized, Variables
  <2> QED BY <2>1, <2>2, <2>3
<1>3. PICK where \in {"step", "frame", "drain"} :
        /\ where = "step" <=> InitInStep
        /\ where = "frame" <=> InitForFrame
        /\ where = "drain" <=> FlushUninitialized
        /\ main = IF where = "drain" THEN "flush" ELSE where
        /\ InitOutputStream(cur, where)
  <2>1. CASE InitInStep
    BY <2>1 DEF InitInStep, InitForFrame, FlushUninitialized
  <2>2. CASE InitForFrame
    BY <2>2 DEF InitInStep, InitForFrame, FlushUninitialized
  <2>3. CASE FlushUninitialized
    BY <2>3 DEF InitInStep, InitForFrame, FlushUninitialized
  <2> QED BY <2>1, <2>2, <2>3
<1>4. /\ initialized' = [initialized EXCEPT ![cur] = TRUE]
      /\ \/ header_written' = TRUE /\ main' = "mux" /\ back' = where
            /\ \A o \in Streams : initialized'[o]
         \/ header_written' = header_written /\ main' = where /\ back' = back
            /\ \E o \in Streams : ~initialized'[o]
  <2>1. where \in Places /\ cur \in Streams /\ initialized \in [Streams -> BOOLEAN] /\ header_written \in BOOLEAN
    BY <1>0 DEF Variables, Places
  <2> QED BY <1>3, <2>1, InitStep
<1>5. /\ cur \in Encoded /\ initialized'[cur] /\ graph'[cur] \notin {"none", "known"}
      /\ \A s \in Streams : s # cur => initialized'[s] = initialized[s]
      /\ ~\A s \in Streams : initialized[s]
  <2>1. cur \in Encoded /\ graph'[cur] \notin {"none", "known"} /\ ~initialized[cur]
    BY <1>0, <1>2, <1>3, StreamFacts
       DEF Variables, StateInv, StreamInv, PlaceInv, OnItsWay, InitForFrame, InitInStep
  <2> QED BY <1>0, <1>4, <2>1 DEF Variables
<1>6. \A s \in Streams : OnItsWay(s)' <=> OnItsWay(s)
  BY <1>1, <1>3, <1>4 DEF OnItsWay
<1>7. ASSUME NEW s \in Streams PROVE StreamInv(s)'
  <2>1. CASE s = cur
    BY <1>5, <2>1, StreamFacts DEF StreamInv
  <2>2. CASE s # cur
    <3>1. main \notin {"init", "end"} /\ StreamInv(s)
      BY <1>3 DEF StateInv
    <3> QED BY <1>1, <1>2, <1>5, <1>6, <2>2, <3>1 DEF StreamInv
  <2> QED BY <2>1, <2>2
<1>8. ASSUME NEW s \in Streams PROVE FinishedInv(s)'
  <2>1. CASE where = "drain"
    <3>1. ~Looping'
      BY <1>3, <1>4, <2>1 DEF Looping
    <3>2. held'[cur] = <<>>
      <4>1. graph[cur] = "known" /\ cur \in Streams
        BY <1>0, <1>2, <1>3, <2>1 DEF Variables
      <4> QED BY <1>1, <1>5, <4>1 DEF StateInv, StreamInv
    <3>3. s # cur => FinishedInv(s) /\ finished'[s] = finished[s]
      BY <1>2 DEF StateInv
    <3> QED BY <1>1, <3>1, <3>2, <3>3 DEF FinishedInv
  <2>2. CASE where # "drain"
    <3>1. graph' = graph /\ finished' = finished
      BY <1>2, <1>3, <2>2
    <3>2. Looping
      BY <1>3, <2>2 DEF Looping
    <3>3. FinishedInv(s)
      BY DEF StateInv
    <3> QED BY <1>1, <1>6, <3>1, <3>2, <3>3 DEF FinishedInv
  <2> QED BY <2>1, <2>2
<1>9. HeaderInv'
  BY <1>0, <1>1, <1>4, <1>5 DEF StateInv, HeaderInv, Variables
<1>10. PlaceInv'
  <2>1. OnItsWay(cur)' => cur' \in Encoded /\ graph'[cur'] = "open"
    <3> SUFFICES ASSUME OnItsWay(cur)' PROVE cur \in Encoded /\ graph'[cur] = "open"
      BY <1>1
    <3>1. main = "frame" /\ InitForFrame
      BY <1>3, <1>4 DEF OnItsWay
    <3>2. cur \in Encoded /\ graph[cur] = "open"
      BY <3>1 DEF StateInv, PlaceInv, OnItsWay
    <3> QED BY <1>2, <1>3, <3>1, <3>2
  <2>2. main' \in {"step", "input"} => graph'[cur'] = "closed" /\ main' # "input"
    BY <1>1, <1>2, <1>3, <1>4 DEF InitForFrame, FlushUninitialized
  <2>3. trailer' => FALSE
    BY <1>1, <1>3 DEF StateInv, PlaceInv
  <2>4. main' \notin {"init", "receive"}
    BY <1>3, <1>4
  <2> QED BY <2>1, <2>2, <2>3, <2>4 DEF PlaceInv
<1>11. FlushInv'
  <2>1. Flushing' => main = "flush"
    BY <1>3, <1>4 DEF Flushing
  <2>2. \A s \in Streams : initialized[s] => initialized'[s]
    BY <1>0, <1>4 DEF Variables
  <2> QED BY <1>1, <1>3, <1>4, <1>5, <2>1, <2>2 DEF StateInv, FlushInv, Draining, Flushing
<1>12. FirstInv'
  <2>1. main' \in {"frame", "receive"} /\ ~header_written' => main = "frame" /\ main' = "frame" /\ ~header_written
    BY <1>3, <1>4
  <2> QED BY <1>1, <1>5, <2>1, StreamFacts DEF StateInv, FirstInv
<1> QED BY <1>7, <1>8, <1>9, <1>10, <1>11, <1>12 DEF StateInv

(* The muxing queues are flushed.                                          *)
LEMMA StateFlush == Types /\ StateInv /\ FlushMuxingQueues => StateInv'
<1> SUFFICES ASSUME Types, StateInv, FlushMuxingQueues PROVE StateInv'
  OBVIOUS
<1>0. Variables /\ Variables'
  BY VariablesTyped, TypesMux
<1>1. /\ UNCHANGED <<input, pos, held, initialized, header_written, graph, trailer, cur, back>>
      /\ main = "mux" /\ header_written
      /\ \A s \in Streams : initialized[s]
      /\ \A s \in Streams : Seen(s)' = Seen(s) /\ (WholeFile(s)' <=> WholeFile(s))
  BY SeenKept DEF FlushMuxingQueues, inputVars, encodeVars, fileVars, StateInv, HeaderInv
<1>2. /\ main' = "mux" \/ (main' = back /\ muxing_queue' = muxing_queue /\ Waiting = {})
      /\ main_return_code' = 1 \/ (main_return_code' = main_return_code /\ finished' = finished)
  BY DEF FlushMuxingQueues, Mux, muxVars
<1>3. /\ \A s \in Streams : OnItsWay(s)' <=> OnItsWay(s)
      /\ (Looping' <=> Looping) /\ (Draining' <=> Draining) /\ (Flushing' <=> Draining')
      /\ back \in {"step", "frame", "drain"}
  BY <1>0, <1>1, <1>2 DEF OnItsWay, Looping, Draining, Flushing, Variables
<1>4. ASSUME NEW s \in Streams PROVE StreamInv(s)'
  BY <1>1, <1>2, <1>4 DEF StateInv, StreamInv
<1>5. ASSUME NEW s \in Streams PROVE FinishedInv(s)'
  BY <1>1, <1>2, <1>3, <1>5 DEF StateInv, FinishedInv
<1>6. HeaderInv'
  <2>1. main' # "mux" => \A s \in Streams : muxing_queue'[s] = <<>>
    BY <1>2 DEF Waiting
  <2> QED BY <1>1, <2>1 DEF HeaderInv
<1>7. PlaceInv'
  <2>1. OnItsWay(cur)' => cur \in Encoded /\ graph[cur] = "open"
    BY <1>1, <1>2, <1>3 DEF StateInv, PlaceInv, OnItsWay
  <2> QED BY <1>1, <1>2, <1>3, <2>1 DEF StateInv, PlaceInv
<1>8. FlushInv'
  BY <1>1, <1>2, <1>3 DEF StateInv, FlushInv, Flushing, Draining
<1>9. FirstInv'
  BY <1>1 DEF FirstInv
<1> QED BY <1>4, <1>5, <1>6, <1>7, <1>8, <1>9 DEF StateInv

(* What write_packet does to the variables StateInv speaks of.             *)
LEMMA WriteEffects ==
  ASSUME Types, NEW s \in Streams, NEW t \in Nat, NEW where, WritePacket(s, t, where),
         main' # "overflow"
  PROVE  /\ main' = where /\ back' = back
         /\ main_return_code' = 1 \/ (main_return_code' = main_return_code /\ finished' = finished)
         /\ \A o \in Streams : o # s \/ header_written => muxing_queue'[o] = muxing_queue[o]
         /\ muxing_queue'[s] \in {muxing_queue[s], Append(muxing_queue[s], t)}
         /\ Len(muxing_queue[s]) \in Nat /\ Len(muxing_queue'[s]) \in Nat
         /\ Len(muxing_queue'[s]) <= Len(muxing_queue[s]) + 1
<1>0. muxing_queue \in [Streams -> Seq(Nat)] /\ MuxType
  BY DEF Types, MuxType
<1>1. CASE Dropped(s, t, where)
  BY <1>0, <1>1 DEF Dropped, muxVars
<1>2. CASE Muxed(s, t, where)
  BY <1>0, <1>2 DEF Muxed
<1>3. CASE Queued(s, t, where)
  <2>1. /\ Append(muxing_queue[s], t) \in Seq(Nat)
        /\ Len(Append(muxing_queue[s], t)) = Len(muxing_queue[s]) + 1 /\ Len(muxing_queue[s]) \in Nat
    BY <1>0, AppendFacts
  <2> QED BY <1>0, <1>3, <2>1 DEF Queued
<1>4. ~Overflowed(s, t, where)
  BY DEF Overflowed
<1> QED BY <1>0, <1>1, <1>2, <1>3, <1>4, WriteStep

(* process_input reads a packet or finds the end.                          *)
LEMMA StateRead == Types /\ StateInv /\ ReadPacket /\ Alive' => StateInv'
<1> SUFFICES ASSUME Types, StateInv, ReadPacket, Alive' PROVE StateInv'
  OBVIOUS
<1>0. Variables /\ Variables'
  BY VariablesTyped, TypesInput
<1>1. /\ main = "input" /\ UNCHANGED <<input, held, initialized, header_written, trailer>>
      /\ main' \notin {"overflow", "failed"}
      /\ \A s \in Streams : ~OnItsWay(s)
      /\ ~header_written => cur \in Encoded /\ ~initialized[cur]
  <2>1. main = "input" /\ UNCHANGED <<input, held, initialized, header_written, trailer>>
    BY DEF ReadPacket, ReadNothing, CopyPacket, DecodePacket, Read, ReadEof, fileVars
  <2>2. ~header_written => ~initialized[cur]
    BY <2>1 DEF StateInv, PlaceInv
  <2>3. ~initialized[cur] => cur \in Encoded
    BY <1>0, <2>1, StreamFacts DEF Variables, StateInv, StreamInv
  <2> QED BY <2>1, <2>2, <2>3 DEF OnItsWay, Alive
<1>2. ASSUME NEW s \in Streams \cup {NoFrame}, Read(s),
             \/ main' = "loop" /\ UNCHANGED graph /\ s \notin Encoded
             \/ /\ main' = "frame" /\ s \in Encoded /\ cur' = s
                /\ graph' = [graph EXCEPT ![s] = "open"] /\ muxing_queue' = muxing_queue,
             main_return_code' = 1 \/ (main_return_code' = main_return_code /\ finished' = finished),
             \A o \in Streams : o \in Encoded \/ header_written => muxing_queue'[o] = muxing_queue[o]
      PROVE  StateInv'
  <2>1. /\ \A o \in Streams : Seen(o)' = Seen(o) \cup (IF o = s THEN {pos[File] + 1} ELSE {})
        /\ s \in Streams => FileOf[s] = File
        /\ \A o \in Streams : /\ FileOf[o] = File => ~WholeFile(o)
                              /\ FileOf[o] # File => (WholeFile(o)' <=> WholeFile(o))
    BY <1>2, SeenRead
  <2>2. \A o \in Streams : OnItsWay(o)' <=> o = s /\ s \in Encoded
    BY <1>1, <1>2 DEF OnItsWay
  <2>3. \A o \in Streams : graph'[o] = IF o = s /\ s \in Encoded THEN "open" ELSE graph[o]
    BY <1>0, <1>2 DEF Variables
  <2>4. ASSUME NEW o \in Streams PROVE StreamInv(o)'
    <3>1. CASE o = s
      BY <1>0, <1>1, <1>2, <2>1, <2>2, <2>3, <3>1, StreamFacts DEF StateInv, StreamInv
    <3>2. CASE o # s
      BY <1>0, <1>1, <1>2, <2>1, <2>2, <2>3, <3>2, StreamFacts DEF StateInv, StreamInv
    <3> QED BY <3>1, <3>2
  <2>5. ASSUME NEW o \in Streams PROVE FinishedInv(o)'
    <3>1. Looping
      BY <1>1 DEF Looping
    <3>2. FinishedInv(o)
      BY DEF StateInv
    <3> QED BY <1>1, <1>2, <2>1, <2>2, <2>3, <3>1, <3>2, StreamFacts DEF FinishedInv
  <2>6. HeaderInv'
    BY <1>1, <1>2 DEF StateInv, HeaderInv
  <2>7. PlaceInv'
    <3>1. OnItsWay(cur)' => cur' \in Encoded /\ graph'[cur'] = "open"
      BY <1>2, <2>3, StreamFacts DEF OnItsWay
    <3> QED BY <1>1, <1>2, <3>1 DEF StateInv, PlaceInv
  <2>8. FlushInv'
    BY <1>2 DEF FlushInv, Flushing, Draining
  <2>9. FirstInv'
    <3> SUFFICES ASSUME main' = "frame", ~header_written
                 PROVE  \/ \E o \in Encoded \ {cur'} : ~initialized[o] /\ FileOf[o] = FileOf[cur']
                        \/ Len(muxing_queue[cur']) + Len(held[cur']) <= 0
      BY <1>1, <1>2 DEF FirstInv
    <3>1. cur' = s /\ s \in Encoded
      BY <1>2
    <3>2. CASE s = cur
      <4>1. muxing_queue[s] = <<>> /\ held[s] = <<>>
        BY <1>1, <3>1, <3>2, StreamFacts DEF StateInv, StreamInv
      <4>2. Len(<<>>) = 0
        OBVIOUS
      <4> QED BY <3>1, <4>1, <4>2
    <3>3. CASE s # cur
      BY <1>1, <2>1, <3>1, <3>3, StreamFacts DEF File
    <3> QED BY <3>2, <3>3
  <2> QED BY <2>4, <2>5, <2>6, <2>7, <2>8, <2>9 DEF StateInv
<1>3. CASE ReadNothing
  <2>1. NoFrame \notin Encoded
    BY StreamFacts, Constants DEF NoFrame
  <2> QED BY <1>2, <1>3, <2>1 DEF ReadNothing, muxVars
<1>4. ASSUME NEW s \in Streams, CopyPacket(s) PROVE StateInv'
  <2>1. Read(s) /\ s \notin Encoded /\ graph' = graph
    BY <1>4, StreamFacts DEF CopyPacket
  <2>2. CASE WritePacket(s, pos[File] + 1, "loop")
    <3>1. pos[File] + 1 \in Nat
      BY TypesAtHand
    <3>2. /\ main' = "loop"
          /\ main_return_code' = 1 \/ (main_return_code' = main_return_code /\ finished' = finished)
          /\ \A o \in Streams : o # s \/ header_written => muxing_queue'[o] = muxing_queue[o]
      BY <1>1, <2>2, <3>1, WriteEffects
    <3> QED BY <1>2, <2>1, <3>2
  <2>3. CASE main' = "loop" /\ UNCHANGED <<muxVars, back>>
    BY <1>2, <2>1, <2>3 DEF muxVars
  <2> QED BY <1>4, <2>2, <2>3 DEF CopyPacket
<1>5. ASSUME NEW s \in Streams, DecodePacket(s) PROVE StateInv'
  <2>1. /\ Read(s) /\ s \in Encoded /\ cur' = s /\ UNCHANGED muxVars
        /\ graph' = [graph EXCEPT ![s] = "open"] /\ main' = "frame"
    BY <1>1, <1>5 DEF DecodePacket, SendFrame
  <2> QED BY <1>2, <2>1 DEF muxVars
<1>6. CASE ReadEof
  <2>1. /\ main' = "loop" /\ UNCHANGED <<pos, muxing_queue, main_return_code, cur, back>>
        /\ pos[File] = Len(input[File])
        /\ \A s \in Streams : graph'[s] = IF s \in Encoded /\ FileOf[s] = File
                                THEN IF graph[s] = "none" THEN "known" ELSE "closed" ELSE graph[s]
        /\ \A s \in Streams : finished'[s] = IF s \in Copied /\ FileOf[s] = File
                                THEN {"encoder", "muxer"} ELSE finished[s]
    BY <1>1, <1>6, StreamFacts DEF ReadEof, SendEof
  <2>2. /\ \A s \in Streams : Seen(s)' = Seen(s) /\ (WholeFile(s)' <=> WholeFile(s)) /\ ~OnItsWay(s)'
        /\ \A s \in Streams : FileOf[s] = File => WholeFile(s)
        /\ Looping
    BY <1>1, <2>1, SeenKept DEF OnItsWay, Looping, WholeFile
  <2>3. ASSUME NEW s \in Streams PROVE StreamInv(s)'
    BY <1>1, <2>1, <2>2, StreamFacts DEF StateInv, StreamInv
  <2>4. ASSUME NEW s \in Streams PROVE FinishedInv(s)'
    <3>1. FinishedInv(s)
      BY DEF StateInv
    <3> QED BY <1>1, <2>1, <2>2, <3>1, StreamFacts DEF FinishedInv
  <2>5. HeaderInv' /\ FlushInv' /\ FirstInv'
    BY <1>1, <2>1 DEF StateInv, HeaderInv, FlushInv, FirstInv, Flushing, Draining
  <2>6. PlaceInv'
    BY <1>0, <1>1, <2>1, <2>2 DEF StateInv, PlaceInv, OnItsWay
  <2> QED BY <2>3, <2>4, <2>5, <2>6 DEF StateInv
<1> QED BY <1>3, <1>4, <1>5, <1>6 DEF ReadPacket

(* The encoder takes a frame, which is dropped, or gives a packet.         *)
LEMMA StateFrame == Types /\ StateInv /\ (DropFrame \/ FrameDone) => StateInv'
<1> SUFFICES ASSUME Types, StateInv, DropFrame \/ FrameDone PROVE StateInv'
  OBVIOUS
<1>0. Variables /\ Variables'
  BY VariablesTyped, TypesEncode
<1>1. /\ UNCHANGED <<input, pos, graph, held, initialized, header_written, trailer, cur, back,
                     muxing_queue, main_return_code, finished>>
      /\ main \in {"frame", "receive"} /\ main' = "loop" /\ initialized[cur] /\ cur \in Streams
      /\ \A s \in Streams : Seen(s)' = Seen(s) /\ (WholeFile(s)' <=> WholeFile(s)) /\ ~OnItsWay(s)'
      /\ \A s \in Streams : OnItsWay(s) => s = cur
      /\ Looping
  BY <1>0, SeenKept DEF DropFrame, FrameDone, LoopUnchanged, inputVars, encodeVars, muxVars, fileVars,
       OnItsWay, Looping, StateInv, PlaceInv, Variables
<1>2. ASSUME NEW s \in Streams PROVE StreamInv(s)'
  BY <1>1, <1>2 DEF StateInv, StreamInv
<1>3. ASSUME NEW s \in Streams PROVE FinishedInv(s)'
  BY <1>1, <1>3 DEF StateInv, FinishedInv
<1>4. HeaderInv' /\ PlaceInv' /\ FlushInv' /\ FirstInv'
  BY <1>1 DEF StateInv, HeaderInv, PlaceInv, FlushInv, FirstInv, Flushing, Draining
<1> QED BY <1>2, <1>3, <1>4 DEF StateInv

LEMMA StateEncode == Types /\ StateInv /\ EncodeFrame /\ main' # "failed" => StateInv'
<1> SUFFICES ASSUME Types, StateInv, EncodeFrame, main' # "failed" PROVE StateInv'
  OBVIOUS
<1>0. Variables /\ Variables'
  BY VariablesTyped, TypesEncode
<1>1. /\ UNCHANGED <<input, pos, graph, initialized, header_written, trailer, cur, back,
                     muxing_queue, main_return_code, finished>>
      /\ main = "frame" /\ main' = "receive" /\ initialized[cur] /\ cur \in Streams /\ finished[cur] = {}
      /\ held' = [held EXCEPT ![cur] = Append(@, pos[File])]
      /\ \A s \in Streams : Seen(s)' = Seen(s) /\ (WholeFile(s)' <=> WholeFile(s)) /\ ~OnItsWay(s)'
      /\ OnItsWay(cur) /\ cur \in Encoded
      /\ Looping /\ Looping'
  BY <1>0, SeenKept DEF EncodeFrame, LoopUnchanged, inputVars, encodeVars, muxVars, fileVars,
       OnItsWay, Looping, StateInv, PlaceInv, Variables
<1>2. /\ \A s \in Streams : s # cur => held'[s] = held[s]
      /\ Len(held'[cur]) = Len(held[cur]) + 1
      /\ Len(held[cur]) \in Nat /\ Len(muxing_queue[cur]) \in Nat
  <2>1. held[cur] \in Seq(Nat) /\ pos[File] \in Nat
    BY TypesAtHand
  <2>2. held'[cur] = Append(held[cur], pos[File])
    BY <1>0, <1>1 DEF Variables
  <2> QED BY <1>0, <1>1, <2>1, <2>2, AppendFacts DEF Variables
<1>3. ASSUME NEW s \in Streams PROVE StreamInv(s)'
  BY <1>1, <1>2, <1>3, StreamFacts DEF StateInv, StreamInv, OnItsWay
<1>4. ASSUME NEW s \in Streams PROVE FinishedInv(s)'
  BY <1>1, <1>2, <1>4 DEF StateInv, FinishedInv, OnItsWay
<1>5. HeaderInv' /\ PlaceInv' /\ FlushInv'
  BY <1>1 DEF StateInv, HeaderInv, PlaceInv, FlushInv, Flushing, Draining
<1>6. FirstInv'
  <2>3. \A m, h \in Nat : m + h <= 0 => m + (h + 1) <= 1
    OBVIOUS
  <2>1. Len(muxing_queue[cur]) + Len(held[cur]) <= 0 => Len(muxing_queue[cur]) + Len(held'[cur]) <= 1
    BY <1>2, <2>3, Zenon
  <2>2. \/ header_written
        \/ \E o \in Encoded \ {cur} : ~initialized[o] /\ FileOf[o] = FileOf[cur]
        \/ Len(muxing_queue[cur]) + Len(held[cur]) <= 0
    BY <1>1 DEF StateInv, FirstInv
  <2> QED BY <1>1, <2>1, <2>2 DEF FirstInv
<1> QED BY <1>3, <1>4, <1>5, <1>6 DEF StateInv

LEMMA StateReceive == Types /\ StateInv /\ ReceivePacket /\ main' # "overflow" => StateInv'
<1> SUFFICES ASSUME Types, StateInv, ReceivePacket, main' # "overflow" PROVE StateInv'
  OBVIOUS
<1>0. Variables /\ Variables'
  BY VariablesTyped, TypesEncode
<1>1. /\ UNCHANGED <<input, pos, graph, initialized, header_written, trailer, cur>>
      /\ main = "receive" /\ initialized[cur] /\ cur \in Streams /\ cur \in Encoded
      /\ held' = [held EXCEPT ![cur] = Tail(@)]
      /\ \A s \in Streams : Seen(s)' = Seen(s) /\ (WholeFile(s)' <=> WholeFile(s)) /\ ~OnItsWay(s)
      /\ Looping
  BY <1>0, SeenKept DEF ReceivePacket, OutputPacket, inputVars, fileVars,
       OnItsWay, Looping, StateInv, PlaceInv, Variables
<1>2. held[cur] \in Seq(Nat) /\ held[cur] # <<>> /\ Head(held[cur]) \in Nat
      /\ Len(Tail(held[cur])) = Len(held[cur]) - 1 /\ Len(held[cur]) \in Nat
  <2>1. held[cur] \in Seq(Nat) /\ Len(held[cur]) > Delay /\ Delay \in Nat
    BY TypesAtHand DEF ReceivePacket
  <2> QED BY <2>1, HeadFacts
<1>3. /\ \A s \in Streams : s # cur => held'[s] = held[s]
      /\ held'[cur] = Tail(held[cur])
  BY <1>0, <1>1 DEF Variables
<1>4. /\ main' = main /\ back' = back
      /\ main_return_code' = 1 \/ (main_return_code' = main_return_code /\ finished' = finished)
      /\ \A o \in Streams : o # cur \/ header_written => muxing_queue'[o] = muxing_queue[o]
      /\ Len(muxing_queue[cur]) \in Nat /\ Len(muxing_queue'[cur]) \in Nat
      /\ Len(muxing_queue'[cur]) <= Len(muxing_queue[cur]) + 1
  BY <1>1, <1>2, WriteEffects DEF ReceivePacket, OutputPacket
<1>5. \A s \in Streams : ~OnItsWay(s)'
  BY <1>1, <1>4 DEF OnItsWay
<1>6. ASSUME NEW s \in Streams PROVE StreamInv(s)'
  BY <1>1, <1>3, <1>4, <1>5, <1>6, StreamFacts DEF StateInv, StreamInv
<1>7. ASSUME NEW s \in Streams PROVE FinishedInv(s)'
  BY <1>1, <1>2, <1>3, <1>4, <1>5, <1>7 DEF StateInv, FinishedInv
<1>8. HeaderInv' /\ PlaceInv' /\ FlushInv'
  <2>1. HeaderInv' /\ FlushInv'
    BY <1>1, <1>3, <1>4 DEF StateInv, HeaderInv, FlushInv, Flushing, Draining
  <2>2. PlaceInv'
    BY <1>1, <1>4, <1>5 DEF StateInv, PlaceInv
  <2> QED BY <2>1, <2>2
<1>9. FirstInv'
  <2>1. Len(held'[cur]) = Len(held[cur]) - 1
    BY <1>2, <1>3
  <2>2. \A m, n, h \in Nat : n <= m + 1 /\ m + h <= 1 => n + (h - 1) <= 1
    OBVIOUS
  <2>3. Len(muxing_queue[cur]) + Len(held[cur]) <= 1 => Len(muxing_queue'[cur]) + Len(held'[cur]) <= 1
    BY <1>2, <1>4, <2>1, <2>2
  <2>4. \/ header_written
        \/ \E o \in Encoded \ {cur} : ~initialized[o] /\ FileOf[o] = FileOf[cur]
        \/ Len(muxing_queue[cur]) + Len(held[cur]) <= 1
    BY <1>1 DEF StateInv, FirstInv
  <2> QED BY <1>1, <1>4, <2>3, <2>4 DEF FirstInv
<1> QED BY <1>6, <1>7, <1>8, <1>9 DEF StateInv

(* The end of transcode.                                                   *)
LEMMA StateClose == Types /\ StateInv /\ CloseFilters /\ main' # "failed" => StateInv'
<1> SUFFICES ASSUME Types, StateInv, CloseFilters, main' # "failed" PROVE StateInv'
  OBVIOUS
<1>0. Variables /\ Variables'
  BY VariablesTyped, TypesEnd
<1>1. /\ UNCHANGED <<input, pos, held, initialized, header_written, trailer, back,
                     muxing_queue, main_return_code, finished>>
      /\ main = "closing" /\ main' = "flush" /\ cur' = 1
      /\ \A s \in Streams : graph'[s] = IF s \in Encoded /\ ~eof_reached[FileOf[s]]
                              THEN IF graph[s] = "none" THEN "known" ELSE "closed" ELSE graph[s]
      /\ \A s \in Streams : Seen(s)' = Seen(s) /\ (WholeFile(s)' <=> WholeFile(s))
      /\ \A s \in Streams : ~OnItsWay(s) /\ ~OnItsWay(s)'
  BY SeenKept DEF CloseFilters, SendEof, LoopUnchanged, inputVars, muxVars, fileVars, OnItsWay
<1>2. ASSUME NEW s \in Streams PROVE StreamInv(s)'
  BY <1>0, <1>1, <1>2, StreamFacts DEF StateInv, StreamInv, Variables
<1>3. ASSUME NEW s \in Streams PROVE FinishedInv(s)'
  BY <1>1, <1>3 DEF StateInv, FinishedInv, Looping
<1>4. HeaderInv' /\ PlaceInv' /\ FirstInv'
  BY <1>1 DEF StateInv, HeaderInv, PlaceInv, FirstInv, OnItsWay
<1>5. FlushInv'
  <2>1. \A s \in Streams : ~(s < 1)
    BY Constants
  <2> QED BY <1>1, <2>1 DEF FlushInv, Draining
<1> QED BY <1>2, <1>3, <1>4, <1>5 DEF StateInv

(* The next stream is come to, or the trailer, once the stream is open and *)
(* its encoder empty.                                                      *)
LEMMA StateNext ==
  ASSUME Types, StateInv, FlushCopied \/ Drained
  PROVE  StateInv'
<1>0. Variables /\ Variables'
  BY VariablesTyped, TypesEnd
<1>1. /\ UNCHANGED <<input, pos, graph, held, initialized, header_written, trailer, back,
                     muxing_queue, main_return_code, finished>>
      /\ main \in {"flush", "drain"} /\ main' \in {"flush", "trailer"}
      /\ \A s \in Streams : Seen(s)' = Seen(s) /\ (WholeFile(s)' <=> WholeFile(s))
      /\ \A s \in Streams : ~OnItsWay(s) /\ ~OnItsWay(s)'
  BY SeenKept DEF FlushCopied, Drained, NextStream, LoopUnchanged, inputVars, encodeVars, muxVars,
                  fileVars, OnItsWay
<1>2. cur \in Streams /\ initialized[cur] /\ held[cur] = <<>>
  BY <1>0, <1>1 DEF FlushCopied, Drained, StateInv, StreamInv, FlushInv, Draining, Variables
<1>3. ASSUME NEW s \in Streams PROVE StreamInv(s)'
  BY <1>1, <1>3 DEF StateInv, StreamInv
<1>4. ASSUME NEW s \in Streams PROVE FinishedInv(s)'
  BY <1>1, <1>4 DEF StateInv, FinishedInv, Looping
<1>5. HeaderInv' /\ PlaceInv' /\ FirstInv'
  BY <1>1 DEF StateInv, HeaderInv, PlaceInv, FirstInv, OnItsWay
<1>6. FlushInv'
  <2>1. \A s \in Streams : s < cur => initialized[s] /\ held[s] = <<>>
    BY <1>1 DEF StateInv, FlushInv, Flushing
  <2>2. NextStream /\ ~Draining'
    BY <1>1 DEF FlushCopied, Drained, Draining
  <2>3. CASE cur = NbStreams
    <3>1. main' = "trailer" /\ \A s \in Streams : s < cur \/ s = cur
      BY <1>2, <2>2, <2>3, Constants DEF NextStream
    <3> QED BY <1>1, <1>2, <2>1, <3>1 DEF FlushInv, Flushing, Draining
  <2>4. CASE cur # NbStreams
    <3>1. cur' = cur + 1 /\ main' = "flush" /\ \A s \in Streams : s < cur + 1 => s < cur \/ s = cur
      BY <1>2, <2>2, <2>4, Constants DEF NextStream
    <3> QED BY <1>1, <1>2, <2>1, <2>2, <3>1 DEF FlushInv
  <2> QED BY <2>3, <2>4
<1> QED BY <1>3, <1>4, <1>5, <1>6 DEF StateInv

LEMMA StateTrailer == Types /\ StateInv /\ (FlushInitialized \/ WriteTrailer) => StateInv'
<1> SUFFICES ASSUME Types, StateInv, FlushInitialized \/ WriteTrailer PROVE StateInv'
  OBVIOUS
<1>0. Variables /\ Variables'
  BY VariablesTyped, TypesEnd
<1>1. /\ UNCHANGED <<input, pos, graph, held, initialized, header_written, back, cur,
                     muxing_queue, main_return_code, finished>>
      /\ \/ main = "flush" /\ main' = "drain" /\ trailer' = trailer /\ cur \in Encoded /\ initialized[cur]
         \/ main = "trailer" /\ main' = "end"
      /\ \A s \in Streams : Seen(s)' = Seen(s) /\ (WholeFile(s)' <=> WholeFile(s))
      /\ \A s \in Streams : ~OnItsWay(s) /\ ~OnItsWay(s)'
  BY SeenKept DEF FlushInitialized, WriteTrailer, LoopUnchanged, inputVars, encodeVars, muxVars,
                  fileVars, OnItsWay
<1>3. ASSUME NEW s \in Streams PROVE StreamInv(s)'
  BY <1>1, <1>3 DEF StateInv, StreamInv
<1>4. ASSUME NEW s \in Streams PROVE FinishedInv(s)'
  BY <1>1, <1>4 DEF StateInv, FinishedInv, Looping
<1>5. HeaderInv' /\ FirstInv'
  BY <1>1 DEF StateInv, HeaderInv, FirstInv
<1>6. PlaceInv'
  BY <1>0, <1>1 DEF StateInv, PlaceInv, Variables
<1>7. FlushInv'
  BY <1>1 DEF StateInv, FlushInv, Flushing, Draining
<1> QED BY <1>3, <1>4, <1>5, <1>6, <1>7 DEF StateInv

LEMMA StateDrain == Types /\ StateInv /\ DrainPacket /\ Alive' => StateInv'
<1> SUFFICES ASSUME Types, StateInv, DrainPacket, Alive' PROVE StateInv'
  OBVIOUS
<1>0. Variables /\ Variables'
  BY VariablesTyped, TypesEnd
<1>1. /\ UNCHANGED <<input, pos, graph, initialized, header_written, trailer, cur>>
      /\ main = "drain" /\ main' \notin {"failed", "overflow"} /\ cur \in Encoded /\ initialized[cur]
      /\ \A s \in Streams : Seen(s)' = Seen(s) /\ (WholeFile(s)' <=> WholeFile(s)) /\ ~OnItsWay(s)
      /\ held' = [held EXCEPT ![cur] = Tail(@)]
  BY SeenKept DEF DrainPacket, OutputPacket, inputVars, fileVars, OnItsWay, Alive, StateInv, FlushInv,
                  Draining
<1>2. /\ held[cur] \in Seq(Nat) /\ held[cur] # <<>> /\ Head(held[cur]) \in Nat
      /\ \A s \in Streams : s # cur => held'[s] = held[s]
  <2>1. held[cur] \in Seq(Nat) /\ held[cur] # <<>>
    BY TypesAtHand DEF DrainPacket
  <2> QED BY <1>0, <1>1, <2>1, HeadFacts DEF Variables
<1>3. /\ main' = main /\ back' = back
      /\ main_return_code' = 1 \/ (main_return_code' = main_return_code /\ finished' = finished)
      /\ \A o \in Streams : o # cur \/ header_written => muxing_queue'[o] = muxing_queue[o]
      /\ "muxer" \notin finished[cur] \/ (main_return_code' = main_return_code /\ main_return_code = 1)
  <2>1. CASE "muxer" \notin finished[cur] /\ OutputPacket
    <3>1. cur \in Streams
      BY <1>1, StreamFacts
    <3>2. WritePacket(cur, Head(held[cur]), main) /\ main' # "overflow"
      BY <1>1, <2>1 DEF OutputPacket
    <3> QED BY <1>2, <2>1, <3>1, <3>2, WriteEffects
  <2>2. CASE "muxer" \in finished[cur] /\ UNCHANGED <<muxVars, main, back>>
    <3>1. main_return_code = 1
      <4>1. main_return_code \in {0, 1}
        BY DEF Types, MuxType
      <4> QED BY <1>1, <1>2, <2>2, <4>1, StreamFacts DEF StateInv, FinishedInv
    <3> QED BY <2>2, <3>1 DEF muxVars
  <2> QED BY <1>1, <2>1, <2>2 DEF DrainPacket
<1>4. ASSUME NEW s \in Streams PROVE StreamInv(s)'
  BY <1>0, <1>1, <1>2, <1>3, <1>4, StreamFacts DEF StateInv, StreamInv, OnItsWay
<1>5. ASSUME NEW s \in Streams PROVE FinishedInv(s)'
  BY <1>1, <1>2, <1>3, <1>5 DEF StateInv, FinishedInv, Looping
<1>6. HeaderInv' /\ FirstInv'
  BY <1>1, <1>3 DEF StateInv, HeaderInv, FirstInv
<1>7. PlaceInv'
  BY <1>1, <1>3 DEF StateInv, PlaceInv, OnItsWay
<1>8. FlushInv'
  <2>1. \A s \in Streams : s < cur => s # cur
    BY <1>0 DEF Variables, Streams
  <2> QED BY <1>1, <1>2, <1>3, <2>1 DEF StateInv, FlushInv, Flushing, Draining
<1> QED BY <1>4, <1>5, <1>6, <1>7, <1>8 DEF StateInv

LEMMA StateStutter == StateInv /\ UNCHANGED vars => StateInv'
<1> SUFFICES ASSUME StateInv, UNCHANGED vars PROVE StateInv'
  OBVIOUS
<1>1. UNCHANGED <<input, pos, graph, held, initialized, finished, muxing_queue, main_return_code,
                  header_written, trailer, main, cur, back>>
  BY DEF vars, inputVars, encodeVars, muxVars, fileVars
<1>2. ASSUME NEW s \in Streams PROVE StreamInv(s)' /\ FinishedInv(s)'
  BY <1>1, <1>2 DEF StateInv, StreamInv, FinishedInv, OnItsWay, Looping, Seen, WholeFile
<1>3. HeaderInv' /\ PlaceInv' /\ FlushInv' /\ FirstInv'
  BY <1>1 DEF StateInv, HeaderInv, PlaceInv, FlushInv, FirstInv, OnItsWay, Flushing, Draining
<1> QED BY <1>2, <1>3 DEF StateInv

LEMMA StateStep == Types /\ AliveInv /\ [Next]_vars => AliveInv'
<1> SUFFICES ASSUME Types, AliveInv, [Next]_vars, Alive' PROVE StateInv'
  BY DEF AliveInv
<1>1. StateInv /\ main' \notin {"overflow", "failed"}
  BY AliveBefore DEF AliveInv, Alive
<1> QED
  BY <1>1, StateStutter, StateInit, StateFlush, StateLoop, StateOpen, StateRead, StateFrame,
     StateEncode, StateReceive, StateClose, StateNext, StateTrailer, StateDrain
  DEF Next, Step, Terminated

-----------------------------------------------------------------------------
(* The end, and an overflow.                                               *)

LEMMA EndStep == Types /\ AliveInv /\ EndsComplete /\ [Next]_vars => EndsComplete'
<1> SUFFICES ASSUME Types, AliveInv, EndsComplete, [Next]_vars, main' = "end" PROVE EndsComplete'
  BY DEF EndsComplete
<1>0. Alive
  BY AliveBefore DEF Alive
<1>1. CASE TranscodeInit
  <2>1. UNCHANGED <<pos, header_written>> /\ main = "init"
    BY <1>1 DEF TranscodeInit, inputVars
  <2>2. \A f \in Files : pos[f] = 0
    BY <1>0, <2>1 DEF AliveInv, StateInv, PlaceInv
  <2>3. ~header_written
    BY <1>0, <2>1, Constants DEF AliveInv, StateInv, PlaceInv, HeaderInv
  <2> QED BY <2>1, <2>2, <2>3 DEF EndsComplete
<1>2. CASE WriteTrailer
  <2>1. main = "trailer" /\ trailer' = header_written /\ UNCHANGED <<held, muxing_queue>>
    BY <1>2 DEF WriteTrailer, encodeVars, muxVars
  <2>2. \A s \in Streams : initialized[s] /\ held[s] = <<>>
    BY <1>0, <2>1 DEF AliveInv, StateInv, FlushInv
  <2>3. header_written /\ \A s \in Streams : muxing_queue[s] = <<>>
    BY <1>0, <2>1, <2>2 DEF AliveInv, StateInv, HeaderInv
  <2> QED BY <2>1, <2>2, <2>3 DEF EndsComplete
<1>3. CASE UNCHANGED vars
  BY <1>3 DEF vars, inputVars, encodeVars, muxVars, fileVars, EndsComplete
<1>4. ~(FlushMuxingQueues \/ Choose \/ LeaveLoop \/ Stop \/ Configure \/ FilterEnd \/ WantInput
        \/ InputAgain \/ ReadNothing \/ (\E s \in Streams : DecodePacket(s)) \/ ReadEof
        \/ DropFrame \/ EncodeFrame \/ FrameDone \/ CloseFilters \/ FlushCopied \/ FlushInitialized
        \/ Drained)
  BY DEF FlushMuxingQueues, Mux, Choose, LeaveLoop, Stop, Configure, FilterEnd, WantInput, InputAgain,
         ReadNothing, DecodePacket, SendFrame, ReadEof, SendEof, DropFrame, EncodeFrame, FrameDone,
         CloseFilters, FlushCopied, FlushInitialized, Drained, NextStream, Types, PlaceType
<1>5. ~(InitInStep \/ InitForFrame \/ FlushUninitialized)
  BY DEF InitInStep, InitForFrame, FlushUninitialized, InitOutputStream
<1>6. ~((\E s \in Streams : CopyPacket(s)) \/ ReceivePacket \/ DrainPacket)
  BY DEF CopyPacket, Read, ReceivePacket, DrainPacket, OutputPacket, WritePacket, Mux, Enqueue
<1> QED BY <1>1, <1>2, <1>3, <1>4, <1>5, <1>6 DEF Next, Step, ReadPacket, Terminated

(* A program that comes to its end has written a whole file, or nothing of *)
(* what it was to read: no packet stays in a muxing queue or an encoder.   *)
THEOREM EndsCompleteCorrect == Spec => []EndsComplete
<1>1. Init => Types /\ AliveInv /\ EndsComplete
  <2>1. Init => EndsComplete
    BY DEF Init, EndsComplete
  <2> QED BY <2>1, InitTypes, InitState DEF AliveInv
<1>2. (Types /\ AliveInv /\ EndsComplete) /\ [Next]_vars => (Types /\ AliveInv /\ EndsComplete)'
  BY TypesStep, StateStep, EndStep
<1> QED BY <1>1, <1>2, PTL DEF Spec

(* A stream that is not open has been given nothing.                       *)
LEMMA ClosedUnseen ==
  ASSUME StateInv, NEW s \in Streams, ~initialized[s], main \in {"input", "receive", "drain"}
  PROVE  s \in Encoded /\ Seen(s) = {}
BY StreamFacts DEF StateInv, StreamInv, OnItsWay

(* A packet that has no room in its muxing queue.                          *)
LEMMA OverflowCase ==
  ASSUME MuxType, NEW s \in Streams, NEW t \in Nat, NEW where, where # "overflow",
         WritePacket(s, t, where), main' = "overflow"
  PROVE  ~header_written /\ back' = main /\ Len(muxing_queue'[s]) >= Room
BY WriteStep DEF Dropped, Muxed, Queued, Overflowed

LEMMA OverflowStep ==
  Types /\ AliveInv /\ OverflowsOnlyIfApart /\ [Next]_vars => OverflowsOnlyIfApart'
<1> SUFFICES ASSUME Types, AliveInv, OverflowsOnlyIfApart, [Next]_vars, main' = "overflow"
             PROVE  OverflowsOnlyIfApart'
  BY DEF OverflowsOnlyIfApart
<1>1. CASE UNCHANGED vars
  BY <1>1 DEF vars, inputVars, muxVars, OverflowsOnlyIfApart, Seen
<1>0. CASE main \in {"end", "overflow", "failed"}
  <2>1. UNCHANGED vars
    BY <1>0 DEF vars, Next, Step, ReadPacket, Read, Stop, Terminated, TranscodeInit, FlushMuxingQueues,
       Choose, LeaveLoop, Configure, InitInStep, FilterEnd, WantInput, InputAgain, ReadNothing,
       CopyPacket, DecodePacket, ReadEof, InitForFrame, DropFrame, EncodeFrame, ReceivePacket,
       FrameDone, CloseFilters, FlushCopied, FlushUninitialized, FlushInitialized, DrainPacket,
       Drained, WriteTrailer
  <2> QED BY <1>1, <2>1
<1>2. ASSUME NEW s \in Streams, CopyPacket(s) PROVE OverflowsOnlyIfApart'
  <2>1. main = "input" /\ Read(s) /\ s \in Copied /\ StateInv
    BY <1>2 DEF CopyPacket, Read, AliveInv, Alive
  <2>2. WritePacket(s, pos[File] + 1, "loop") /\ pos[File] + 1 \in Nat
    BY <1>2, TypesAtHand DEF CopyPacket
  <2>3. ~header_written /\ back' = main /\ Len(muxing_queue'[s]) >= Room
    BY <2>2, OverflowCase DEF Types
  <2>4. cur \in Streams /\ ~initialized[cur] /\ cur \in Encoded /\ Seen(cur) = {}
    <3>1. cur \in Streams /\ ~initialized[cur]
      BY <2>1, <2>3 DEF Types, PlaceType, StateInv, PlaceInv
    <3> QED BY <2>1, <3>1, ClosedUnseen
  <2>5. Seen(cur)' = {} /\ FileOf[cur] = FileOf[s]
    <3>1. FileOf[s] = File /\ s # cur
      BY <2>1, <2>4, SeenRead, StreamFacts
    <3>2. \A o \in Streams : Seen(o)' = Seen(o) \cup (IF o = s THEN {pos[File] + 1} ELSE {})
      BY <2>1, SeenRead
    <3>3. cur' = cur
      BY <1>2 DEF CopyPacket
    <3> QED BY <2>4, <3>1, <3>2, <3>3 DEF File
  <2>6. cur' = cur
    BY <1>2 DEF CopyPacket
  <2> QED BY <2>3, <2>4, <2>5, <2>6 DEF OverflowsOnlyIfApart, Seen
<1>3. CASE ReceivePacket
  <2>1. main = "receive" /\ StateInv /\ UNCHANGED <<input, pos>> /\ cur \in Streams /\ cur \in Encoded
    BY <1>3, TypesAtHand DEF ReceivePacket, AliveInv, Alive, inputVars, StateInv, PlaceInv
  <2>2. held[cur] \in Seq(Nat) /\ Len(held[cur]) >= 1 /\ Len(held[cur]) \in Nat /\ Head(held[cur]) \in Nat
    <3>1. held[cur] \in Seq(Nat) /\ Len(held[cur]) > Delay /\ Delay \in Nat /\ Len(held[cur]) \in Nat
      BY <1>3, TypesAtHand DEF ReceivePacket
    <3> QED BY <3>1, HeadFacts
  <2>3. ~header_written /\ back' = main /\ Len(muxing_queue'[cur]) >= Room
    BY <1>3, <2>1, <2>2, OverflowCase DEF ReceivePacket, OutputPacket, Types
  <2>4. Len(muxing_queue[cur]) >= 1 /\ Len(muxing_queue[cur]) \in Nat
    <3>1. muxing_queue'[cur] = muxing_queue[cur]
      BY <1>3, <2>1, <2>2, WriteStep
         DEF ReceivePacket, OutputPacket, Types, Dropped, Muxed, Queued, Overflowed, muxVars
    <3>2. Len(muxing_queue[cur]) \in Nat
      BY <2>1 DEF Types, MuxType
    <3> QED BY <2>3, <3>1, <3>2, Constants
  <2>5. PICK o \in Encoded \ {cur} : ~initialized[o] /\ FileOf[o] = FileOf[cur]
    <3>1. \A m, h \in Nat : m >= 1 /\ h >= 1 => ~(m + h <= 1)
      OBVIOUS
    <3>2. ~(Len(muxing_queue[cur]) + Len(held[cur]) <= 1)
      BY <2>2, <2>4, <3>1, Zenon
    <3> QED BY <2>1, <2>3, <3>2 DEF StateInv, FirstInv
  <2>6. o \in Streams /\ o \in Encoded /\ Seen(o) = {}
    BY <2>1, <2>5, ClosedUnseen, StreamFacts
  <2>7. Seen(o)' = {}
    BY <2>1, <2>6, SeenKept
  <2> QED BY <2>1, <2>3, <2>5, <2>6, <2>7 DEF OverflowsOnlyIfApart, Seen
<1>4. CASE DrainPacket
  <2>1. main = "drain" /\ StateInv /\ UNCHANGED <<input, pos>> /\ cur \in Streams /\ OutputPacket
    BY <1>4, TypesAtHand DEF DrainPacket, AliveInv, Alive, inputVars
  <2>2. Head(held[cur]) \in Nat
    BY <1>4, TypesAtHand, HeadFacts DEF DrainPacket
  <2>3. ~header_written /\ back' = main /\ Len(muxing_queue'[cur]) >= Room
    BY <2>1, <2>2, OverflowCase DEF OutputPacket, Types
  <2>4. PICK o \in Streams : ~initialized[o]
    BY <2>1, <2>3 DEF StateInv, HeaderInv
  <2>5. o \in Encoded /\ Seen(o)' = {}
    BY <2>1, <2>4, ClosedUnseen, SeenKept
  <2> QED BY <2>1, <2>3, <2>5 DEF OverflowsOnlyIfApart, Seen
<1>5. ~(TranscodeInit \/ FlushMuxingQueues \/ Choose \/ LeaveLoop \/ Stop \/ Configure \/ FilterEnd
        \/ WantInput \/ InputAgain \/ ReadNothing \/ (\E s \in Streams : DecodePacket(s)) \/ ReadEof
        \/ DropFrame \/ EncodeFrame \/ FrameDone \/ CloseFilters \/ FlushCopied \/ FlushInitialized
        \/ Drained \/ WriteTrailer) \/ main = "overflow"
  BY DEF TranscodeInit, FlushMuxingQueues, Mux, Choose, LeaveLoop, Stop, Configure, FilterEnd, WantInput,
         InputAgain, ReadNothing, DecodePacket, SendFrame, ReadEof, SendEof, DropFrame, EncodeFrame,
         FrameDone, CloseFilters, FlushCopied, FlushInitialized, Drained, NextStream, WriteTrailer,
         Types, PlaceType
<1>6. ~(InitInStep \/ InitForFrame \/ FlushUninitialized)
  BY DEF InitInStep, InitForFrame, FlushUninitialized, InitOutputStream
<1> QED BY <1>0, <1>1, <1>2, <1>3, <1>4, <1>5, <1>6 DEF Next, Step, ReadPacket, Terminated

(* A muxing queue overflows, at its limit, only for a stream that has had  *)
(* no frame yet and, before the encoders are drained, is read from the     *)
(* same file: choose_output does not let two files drift apart so far.     *)
THEOREM OverflowsOnlyIfApartCorrect == Spec => []OverflowsOnlyIfApart
<1>1. Init => Types /\ AliveInv /\ OverflowsOnlyIfApart
  <2>1. Init => OverflowsOnlyIfApart
    BY DEF Init, OverflowsOnlyIfApart
  <2> QED BY <2>1, InitTypes, InitState DEF AliveInv
<1>2. (Types /\ AliveInv /\ OverflowsOnlyIfApart) /\ [Next]_vars
        => (Types /\ AliveInv /\ OverflowsOnlyIfApart)'
  BY TypesStep, StateStep, OverflowStep
<1> QED BY <1>1, <1>2, PTL DEF Spec

-----------------------------------------------------------------------------
(* The order of the packets.                                               *)

Ordered(q) == \A i, j \in 1..Len(q) : i < j => q[i] < q[j]

(* A sequence is in order if its two parts are, and the one comes before   *)
(* the other.                                                              *)
LEMMA OrderedConcat ==
  ASSUME NEW p \in Seq(Nat), NEW q \in Seq(Nat)
  PROVE  Ordered(p \o q) <=>
           Ordered(p) /\ Ordered(q) /\ \A x \in Range(p), y \in Range(q) : x < y
<1> DEFINE r == p \o q
<1>0. /\ r \in Seq(Nat) /\ Len(r) = Len(p) + Len(q) /\ Len(p) \in Nat /\ Len(q) \in Nat
      /\ \A i \in 1..Len(r) : r[i] = IF i <= Len(p) THEN p[i] ELSE q[i - Len(p)]
      /\ Range(p) = {p[i] : i \in 1..Len(p)} /\ Range(q) = {q[i] : i \in 1..Len(q)}
  <2>1. /\ r \in Seq(Nat) /\ Len(r) = Len(p) + Len(q)
        /\ \A i \in 1..Len(p) + Len(q) : r[i] = IF i <= Len(p) THEN p[i] ELSE q[i - Len(p)]
    BY ConcatProperties
  <2>2. Range(p) = {p[i] : i \in 1..Len(p)} /\ Range(q) = {q[i] : i \in 1..Len(q)}
    BY RangeEquality
  <2>3. Len(p) \in Nat /\ Len(q) \in Nat
    OBVIOUS
  <2>4. \A i \in 1..Len(r) : r[i] = IF i <= Len(p) THEN p[i] ELSE q[i - Len(p)]
    BY <2>1
  <2> HIDE DEF r
  <2> QED BY <2>1, <2>2, <2>3, <2>4, Zenon
<1>1. ASSUME Ordered(r) PROVE Ordered(p)
  <2> SUFFICES ASSUME NEW i \in 1..Len(p), NEW j \in 1..Len(p), i < j PROVE p[i] < p[j]
    BY DEF Ordered
  <2>1. i \in 1..Len(r) /\ j \in 1..Len(r) /\ r[i] = p[i] /\ r[j] = p[j]
    BY <1>0
  <2> QED BY <1>1, <2>1 DEF Ordered
<1>2. ASSUME Ordered(r) PROVE Ordered(q)
  <2> SUFFICES ASSUME NEW i \in 1..Len(q), NEW j \in 1..Len(q), i < j PROVE q[i] < q[j]
    BY DEF Ordered
  <2>1. /\ i + Len(p) \in 1..Len(r) /\ j + Len(p) \in 1..Len(r) /\ i + Len(p) < j + Len(p)
        /\ r[i + Len(p)] = q[i] /\ r[j + Len(p)] = q[j]
    BY <1>0
  <2> QED BY <1>2, <2>1 DEF Ordered
<1>3. ASSUME Ordered(r), NEW i \in 1..Len(p), NEW j \in 1..Len(q) PROVE p[i] < q[j]
  <2>1. /\ i \in 1..Len(r) /\ j + Len(p) \in 1..Len(r) /\ i < j + Len(p)
        /\ r[i] = p[i] /\ r[j + Len(p)] = q[j]
    BY <1>0
  <2> QED BY <1>3, <2>1 DEF Ordered
<1>4. ASSUME Ordered(p), Ordered(q), \A x \in Range(p), y \in Range(q) : x < y
      PROVE  Ordered(r)
  <2> SUFFICES ASSUME NEW i \in 1..Len(r), NEW j \in 1..Len(r), i < j PROVE r[i] < r[j]
    BY DEF Ordered
  <2>1. CASE j <= Len(p)
    BY <1>0, <1>4, <2>1 DEF Ordered
  <2>2. CASE i <= Len(p) /\ ~(j <= Len(p))
    <3>1. r[i] = p[i] /\ i \in 1..Len(p) /\ r[j] = q[j - Len(p)] /\ j - Len(p) \in 1..Len(q)
      BY <1>0, <2>2
    <3>2. p[i] \in Range(p) /\ q[j - Len(p)] \in Range(q)
      BY <1>0, <3>1
    <3> QED BY <1>4, <3>1, <3>2
  <2>3. CASE ~(i <= Len(p))
    <3>1. /\ r[i] = q[i - Len(p)] /\ i - Len(p) \in 1..Len(q)
          /\ r[j] = q[j - Len(p)] /\ j - Len(p) \in 1..Len(q) /\ i - Len(p) < j - Len(p)
      BY <1>0, <2>3
    <3> QED BY <1>4, <3>1 DEF Ordered
  <2> QED BY <1>0, <2>1, <2>2, <2>3
<1> QED BY <1>0, <1>1, <1>2, <1>3, <1>4

LEMMA PrefixFacts ==
  ASSUME NEW p \in Seq(Nat), NEW q \in Seq(Nat), Ordered(p \o q)
  PROVE  Ordered(p) /\ Range(p) \subseteq Range(p \o q)
<1>1. Range(p \o q) = Range(p) \cup Range(q)
  BY RangeConcatenation
<1>2. Ordered(p)
  BY OrderedConcat
<1> QED BY <1>1, <1>2

LEMMA OneFacts ==
  ASSUME NEW x \in Nat
  PROVE  <<x>> \in Seq(Nat) /\ <<x>> # <<>> /\ Ordered(<<x>>) /\ Range(<<x>>) = {x}
<1>1. <<x>> \in Seq(Nat) /\ Len(<<x>>) = 1 /\ <<x>>[1] = x
  OBVIOUS
<1>2. Range(<<x>>) = {<<x>>[i] : i \in 1..1}
  BY <1>1, RangeEquality
<1> QED BY <1>1, <1>2 DEF Ordered

(* The head of a queue that follows another is moved to the end of that.   *)
LEMMA MoveHead ==
  ASSUME NEW p \in Seq(Nat), NEW q \in Seq(Nat), q # <<>>
  PROVE  /\ Append(p, Head(q)) \o Tail(q) = p \o q
         /\ q = <<Head(q)>> \o Tail(q)
<1>1. /\ Head(q) \in Nat /\ Tail(q) \in Seq(Nat) /\ Len(Tail(q)) = Len(q) - 1 /\ Len(q) \in Nat \ {0}
      /\ \A i \in 1..Len(Tail(q)) : Tail(q)[i] = q[i + 1]
  BY HeadTailProperties, EmptySeq
<1>2. <<Head(q)>> \in Seq(Nat) /\ Len(<<Head(q)>>) = 1 /\ <<Head(q)>>[1] = q[1]
  BY <1>1
<1>3. q = <<Head(q)>> \o Tail(q)
  <2> DEFINE r == <<Head(q)>> \o Tail(q)
  <2>1. /\ r \in Seq(Nat) /\ Len(r) = 1 + Len(Tail(q))
        /\ \A i \in 1..1 + Len(Tail(q)) : r[i] = IF i <= 1 THEN <<Head(q)>>[i] ELSE Tail(q)[i - 1]
    BY <1>1, <1>2, ConcatProperties
  <2>2. Len(r) = Len(q)
    BY <1>1, <2>1
  <2>3. \A i \in 1..Len(q) : q[i] = r[i]
    BY <1>1, <1>2, <2>1, <2>2
  <2> QED BY <2>1, <2>2, <2>3, SeqEqual
<1>4. Append(p, Head(q)) = p \o <<Head(q)>>
  BY <1>1, AppendIsConcat
<1>5. Append(p, Head(q)) \o Tail(q) = p \o (<<Head(q)>> \o Tail(q))
  <2>1. (p \o <<Head(q)>>) \o Tail(q) = p \o (<<Head(q)>> \o Tail(q))
    BY <1>1, <1>2, ConcatAssociative
  <2> QED BY <1>4, <2>1
<1> QED BY <1>3, <1>5

(* An element less, at the end or within: the rest stays in order.         *)
LEMMA DropFacts ==
  ASSUME NEW p \in Seq(Nat), NEW q \in Seq(Nat), q # <<>>, Ordered(p \o q)
  PROVE  /\ p \o Tail(q) \in Seq(Nat) /\ Ordered(p \o Tail(q)) /\ Range(p \o Tail(q)) \subseteq Range(p \o q)
         /\ Ordered(p) /\ Range(p) \subseteq Range(p \o q)
<1>1. Tail(q) \in Seq(Nat) /\ Head(q) \in Nat /\ q = <<Head(q)>> \o Tail(q) /\ <<Head(q)>> \in Seq(Nat)
  BY MoveHead, HeadTailProperties, OneFacts
<1>2. Ordered(Tail(q)) /\ Range(q) = Range(<<Head(q)>>) \cup Range(Tail(q))
  <2>1. Ordered(<<Head(q)>> \o Tail(q))
    BY <1>1, OrderedConcat
  <2>2. Ordered(Tail(q))
    BY <1>1, <2>1, OrderedConcat
  <2>3. Range(<<Head(q)>> \o Tail(q)) = Range(<<Head(q)>>) \cup Range(Tail(q))
    BY <1>1, RangeConcatenation
  <2> QED BY <1>1, <2>2, <2>3
<1>3. /\ Range(p \o q) = Range(p) \cup Range(q)
      /\ Range(p \o Tail(q)) = Range(p) \cup Range(Tail(q))
  <2>1. Range(p \o q) = Range(p) \cup Range(q)
    BY RangeConcatenation
  <2>2. Range(p \o Tail(q)) = Range(p) \cup Range(Tail(q))
    <3>1. Tail(q) \in Seq(Nat)
      BY <1>1
    <3> QED BY <3>1, RangeConcatenation, Zenon
  <2> QED BY <2>1, <2>2
<1>4. Ordered(p) /\ \A x \in Range(p), y \in Range(q) : x < y
  BY OrderedConcat
<1>5. Ordered(p \o Tail(q))
  BY <1>1, <1>2, <1>4, OrderedConcat
<1>6. p \o Tail(q) \in Seq(Nat)
  BY <1>1, ConcatProperties
<1> QED BY <1>2, <1>3, <1>4, <1>5, <1>6

KeptInOrder(s) ==
  /\ Ordered(Kept(s)) /\ Range(Kept(s)) \subseteq Seen(s)
  /\ main_return_code = 0 /\ frame_number[s] < MaxFrames[s] => Seen(s) \subseteq Range(Kept(s))

OrderInv == Alive => \A s \in Streams : KeptInOrder(s)

(* The parts of Kept(s).                                                   *)
KeptParts(s) ==
  /\ written[s] \in Seq(Nat) /\ muxing_queue[s] \in Seq(Nat) /\ held[s] \in Seq(Nat)
  /\ InFlight(s) \in Seq(Nat) /\ Kept(s) \in Seq(Nat)
  /\ InFlight(s) = IF OnItsWay(s) THEN <<pos[FileOf[s]]>> ELSE <<>>

LEMMA KeptTyped == Types => \A s \in Streams : KeptParts(s)
<1> SUFFICES ASSUME Types, NEW s \in Streams PROVE KeptParts(s)
  OBVIOUS
<1>1. written[s] \in Seq(Nat) /\ muxing_queue[s] \in Seq(Nat) /\ held[s] \in Seq(Nat)
      /\ pos[FileOf[s]] \in Nat
  BY Constants DEF Types, InputType, EncodeType, MuxType
<1>2. /\ InFlight(s) \in Seq(Nat)
      /\ InFlight(s) = IF OnItsWay(s) THEN <<pos[FileOf[s]]>> ELSE <<>>
  BY <1>1 DEF InFlight, OnItsWay
<1>3. written[s] \o muxing_queue[s] \in Seq(Nat)
  BY <1>1, ConcatProperties
<1>4. written[s] \o muxing_queue[s] \o held[s] \in Seq(Nat)
  BY <1>1, <1>3, ConcatProperties
<1>5. Kept(s) \in Seq(Nat)
  BY <1>2, <1>4, ConcatProperties DEF Kept
<1> QED BY <1>1, <1>2, <1>5 DEF KeptParts

LEMMA OrderSuffices == Types /\ OrderInv => PacketsInOrder
<1> SUFFICES ASSUME Types, OrderInv, Alive, NEW s \in Streams
             PROVE  /\ \A i, j \in 1..Len(Kept(s)) : i < j => Kept(s)[i] < Kept(s)[j]
                    /\ \A i \in 1..Len(Kept(s)) : Kept(s)[i] \in Seen(s)
                    /\ main_return_code = 0 /\ frame_number[s] < MaxFrames[s] =>
                         \A k \in Seen(s) : \E i \in 1..Len(Kept(s)) : Kept(s)[i] = k
  BY DEF PacketsInOrder
<1>1. Kept(s) \in Seq(Nat)
  BY KeptTyped DEF KeptParts
<1>2. Range(Kept(s)) = {Kept(s)[i] : i \in 1..Len(Kept(s))}
  BY <1>1, RangeEquality
<1> QED BY <1>2 DEF OrderInv, KeptInOrder, Ordered

-----------------------------------------------------------------------------
(* How a step may change what is kept of a stream.                         *)

Progress(s) ==
  main_return_code' = 0 /\ frame_number'[s] < MaxFrames[s] =>
    main_return_code = 0 /\ frame_number[s] < MaxFrames[s]

LEMMA KeepsAll ==
  ASSUME NEW s \in Streams, KeptInOrder(s), Progress(s), Kept(s)' = Kept(s), Seen(s)' = Seen(s)
  PROVE  KeptInOrder(s)'
BY DEF KeptInOrder, Progress

LEMMA KeepsNew ==
  ASSUME NEW s \in Streams, NEW k \in Nat, KeptInOrder(s), Progress(s), Kept(s) \in Seq(Nat),
         Kept(s)' = Kept(s) \o <<k>>, Seen(s)' = Seen(s) \cup {k}, \A j \in Seen(s) : j < k
  PROVE  KeptInOrder(s)'
<1>1. Ordered(<<k>>) /\ Range(<<k>>) = {k} /\ <<k>> \in Seq(Nat)
  BY OneFacts
<1>2. Range(Kept(s) \o <<k>>) = Range(Kept(s)) \cup {k}
  <2>1. Range(Kept(s) \o <<k>>) = Range(Kept(s)) \cup Range(<<k>>)
    BY <1>1, RangeConcatenation
  <2> QED BY <1>1, <2>1
<1>3. \A x \in Range(Kept(s)), y \in Range(<<k>>) : x < y
  BY <1>1 DEF KeptInOrder
<1>4. Ordered(Kept(s) \o <<k>>)
  BY <1>1, <1>3, OrderedConcat DEF KeptInOrder
<1> QED BY <1>2, <1>4 DEF KeptInOrder, Progress

LEMMA KeepsLess ==
  ASSUME NEW s \in Streams, KeptInOrder(s), Ordered(Kept(s)'), Range(Kept(s)') \subseteq Range(Kept(s)),
         Seen(s) \subseteq Seen(s)', main_return_code' = 1 \/ ~(frame_number'[s] < MaxFrames[s])
  PROVE  KeptInOrder(s)'
BY DEF KeptInOrder

(* The streams a step leaves alone.                                        *)
LEMMA KeepsOther ==
  ASSUME NEW s \in Streams, KeptInOrder(s), Progress(s), Seen(s)' = Seen(s),
         written'[s] = written[s], muxing_queue'[s] = muxing_queue[s], held'[s] = held[s],
         InFlight(s)' = InFlight(s)
  PROVE  KeptInOrder(s)'
BY KeepsAll DEF Kept

-----------------------------------------------------------------------------
(* write_packet, for a packet that comes next.                             *)
LEMMA ProgressWrite ==
  ASSUME Types, NEW s \in Streams, NEW t \in Nat, NEW where, WritePacket(s, t, where)
  PROVE  /\ \A o \in Streams : Progress(o)
         /\ \A o \in Streams : o # s =>
              written'[o] = written[o] /\ muxing_queue'[o] = muxing_queue[o]
         /\ Dropped(s, t, where) => UNCHANGED <<written, muxing_queue, main_return_code, frame_number>>
                                    /\ ~(frame_number'[s] < MaxFrames[s])
         /\ Muxed(s, t, where) => /\ written'[s] = Append(written[s], t)
                                  /\ muxing_queue'[s] = muxing_queue[s]
         /\ Queued(s, t, where) => /\ written'[s] = written[s]
                                   /\ muxing_queue'[s] = Append(muxing_queue[s], t)
<1>1. /\ MuxType /\ main_return_code \in {0, 1}
      /\ frame_number \in [Streams -> Nat] /\ written \in [Streams -> Seq(Nat)]
      /\ muxing_queue \in [Streams -> Seq(Nat)]
      /\ \A o \in Streams : MaxFrames[o] \in Nat
  BY Constants DEF Types, MuxType
<1>2. CASE Dropped(s, t, where)
  <2>1. UNCHANGED <<written, muxing_queue, main_return_code, frame_number>>
    BY <1>2 DEF Dropped, muxVars
  <2>2. ~(frame_number'[s] < MaxFrames[s])
    BY <1>1, <1>2, <2>1 DEF Dropped
  <2>3. ~header_written => ~Queued(s, t, where)
    <3>1. Append(muxing_queue[s], t) # muxing_queue[s]
      BY <1>1
    <3> QED BY <1>1, <2>1, <3>1 DEF Queued
  <2>4. ~Muxed(s, t, where)
    <3>1. Append(written[s], t) # written[s]
      BY <1>1
    <3> QED BY <1>1, <2>1, <3>1 DEF Muxed
  <2>5. ~Queued(s, t, where)
    BY <2>3 DEF Queued
  <2> QED BY <2>1, <2>2, <2>4, <2>5 DEF Progress
<1>3. CASE /\ Muxed(s, t, where) \/ Queued(s, t, where) \/ Overflowed(s, t, where)
           /\ frame_number' = [frame_number EXCEPT ![s] = IF Counted(s) THEN @ + 1 ELSE @]
           /\ ~Dropped(s, t, where)
  <2>1. main_return_code' = 1 \/ main_return_code' = main_return_code
    BY <1>3 DEF Muxed, Queued, Overflowed
  <2>2. \A o \in Streams : frame_number'[o] < MaxFrames[o] => frame_number[o] < MaxFrames[o]
    BY <1>1, <1>3
  <2>3. \A o \in Streams : Progress(o)
    BY <2>1, <2>2 DEF Progress
  <2>4. \A o \in Streams : o # s => written'[o] = written[o] /\ muxing_queue'[o] = muxing_queue[o]
    BY <1>1, <1>3 DEF Muxed, Queued, Overflowed
  <2>5. Muxed(s, t, where) => /\ written'[s] = Append(written[s], t)
                              /\ muxing_queue'[s] = muxing_queue[s]
    BY <1>1 DEF Muxed
  <2>6. Queued(s, t, where) => /\ written'[s] = written[s]
                               /\ muxing_queue'[s] = Append(muxing_queue[s], t)
    BY <1>1 DEF Queued
  <2> QED BY <1>3, <2>3, <2>4, <2>5, <2>6
<1> QED BY <1>1, <1>2, <1>3, WriteStep

(* Sequences of which the middle is empty, or nothing follows.             *)
LEMMA EmptyParts ==
  ASSUME NEW p \in Seq(Nat), NEW q \in Seq(Nat)
  PROVE  p \o <<>> = p /\ <<>> \o p = p /\ p \o q \in Seq(Nat) /\ <<>> \in Seq(Nat)
BY ConcatProperties, ConcatEmptySeq

LEMMA AppendLast ==
  ASSUME NEW p \in Seq(Nat), NEW q \in Seq(Nat), NEW x \in Nat
  PROVE  p \o Append(q, x) = Append(p \o q, x) /\ p \o Append(q, x) = (p \o q) \o <<x>>
<1>1. <<x>> \in Seq(Nat) /\ p \o q \in Seq(Nat)
  BY ConcatProperties
<1>2. Append(q, x) = q \o <<x>>
  BY AppendIsConcat
<1>3. Append(p \o q, x) = (p \o q) \o <<x>>
  BY <1>1, AppendIsConcat
<1>4. (p \o q) \o <<x>> = p \o (q \o <<x>>)
  BY <1>1, ConcatAssociative
<1> QED BY <1>2, <1>3, <1>4

-----------------------------------------------------------------------------
(* The steps.                                                              *)

LEMMA OrderInit == Init => OrderInv
<1> SUFFICES ASSUME Init, NEW s \in Streams PROVE KeptInOrder(s)
  BY DEF OrderInv
<1>1. Kept(s) = <<>> /\ Seen(s) = {}
  <2>1. InFlight(s) = <<>> /\ written[s] = <<>> /\ muxing_queue[s] = <<>> /\ held[s] = <<>>
    BY DEF Init, InFlight
  <2>2. <<>> \o <<>> = <<>>
    BY EmptyParts
  <2>3. Seen(s) = {}
    BY Constants DEF Init, Seen
  <2> QED BY <2>1, <2>2, <2>3 DEF Kept
<1>2. Range(<<>>) = {} /\ Ordered(<<>>)
  BY DEF Range, Ordered
<1> QED BY <1>1, <1>2 DEF KeptInOrder

(* Steps that move no packet.                                              *)
LEMMA OrderIdle ==
  ASSUME Types, StateInv, NEW s \in Streams, KeptInOrder(s), main' # "failed",
         \/ TranscodeInit \/ Choose \/ LeaveLoop \/ Stop \/ Configure \/ InitInStep \/ FilterEnd
         \/ WantInput \/ InputAgain \/ ReadEof \/ InitForFrame \/ FrameDone \/ CloseFilters
         \/ FlushCopied \/ FlushUninitialized \/ FlushInitialized \/ Drained \/ WriteTrailer
         \/ UNCHANGED vars
  PROVE  KeptInOrder(s)'
<1>1. /\ UNCHANGED <<input, pos, written, muxing_queue, held, main_return_code>>
      /\ frame_number' = frame_number \/ FrameDone
  BY DEF TranscodeInit, Choose, LeaveLoop, Stop, Configure, InitInStep, FilterEnd, WantInput,
         InputAgain, ReadEof, InitForFrame, FrameDone, CloseFilters, FlushCopied, FlushUninitialized,
         FlushInitialized, Drained, WriteTrailer, LoopUnchanged, inputVars, encodeVars, muxVars, vars
<1>2. Progress(s)
  <2>1. CASE frame_number' = frame_number
    BY <1>1, <2>1 DEF Progress
  <2>2. CASE FrameDone
    <3>1. frame_number'[s] \in {frame_number[s], frame_number[s] + 1}
          /\ frame_number[s] \in Nat /\ MaxFrames[s] \in Nat
      BY <2>2, Constants DEF FrameDone, Types, MuxType
    <3> QED BY <1>1, <3>1 DEF Progress
  <2> QED BY <1>1, <2>1, <2>2
<1>3. OnItsWay(s)' <=> OnItsWay(s)
  <2>1. CASE InitInStep \/ InitForFrame \/ FlushUninitialized
    BY <2>1 DEF InitInStep, InitForFrame, FlushUninitialized, InitOutputStream, OnItsWay
  <2>2. CASE TranscodeInit \/ Choose \/ LeaveLoop \/ Stop \/ Configure \/ FilterEnd \/ WantInput
             \/ InputAgain \/ ReadEof \/ FrameDone \/ CloseFilters \/ FlushCopied
             \/ FlushInitialized \/ Drained \/ WriteTrailer
    <3>1. main \notin {"frame", "mux"} /\ main' \notin {"frame", "mux"}
      BY <2>2 DEF TranscodeInit, Choose, LeaveLoop, Stop, Configure, FilterEnd, WantInput, InputAgain,
                  ReadEof, SendEof, FrameDone, CloseFilters, FlushCopied, FlushInitialized, Drained,
                  NextStream, WriteTrailer, LoopUnchanged
    <3> QED BY <3>1 DEF OnItsWay
  <2>3. CASE UNCHANGED vars
    BY <2>3 DEF vars, OnItsWay
  <2> QED BY <2>1, <2>2, <2>3
<1>4. Seen(s)' = Seen(s) /\ InFlight(s)' = InFlight(s)
  BY <1>1, <1>3, SeenKept DEF InFlight, OnItsWay
<1> QED BY <1>1, <1>2, <1>4, KeepsOther

LEMMA OrderFlush ==
  ASSUME Types, StateInv, NEW s \in Streams, KeptInOrder(s), FlushMuxingQueues
  PROVE  KeptInOrder(s)'
<1>1. /\ UNCHANGED <<input, pos, held, frame_number, cur, back>>
      /\ main = "mux" /\ main' \in {"mux", back}
      /\ main_return_code' = 1 \/ main_return_code' = main_return_code
      /\ back \in {"step", "frame", "drain"}
  BY DEF FlushMuxingQueues, Mux, muxVars, inputVars, encodeVars, Types, PlaceType
<1>2. Progress(s) /\ Seen(s)' = Seen(s)
  BY <1>1, SeenKept DEF Progress
<1>3. InFlight(s)' = InFlight(s)
  <2>1. main' = "mux" \/ main' = back
    BY <1>1
  <2> QED BY <1>1, <2>1 DEF InFlight
<1>4. CASE UNCHANGED muxVars
  BY <1>1, <1>2, <1>3, <1>4, KeepsOther DEF muxVars
<1>5. ASSUME NEW o \in Streams, muxing_queue[o] # <<>>,
             muxing_queue' = [muxing_queue EXCEPT ![o] = Tail(@)],
             written' = [written EXCEPT ![o] = Append(@, Head(muxing_queue[o]))]
      PROVE  KeptInOrder(s)'
  <2>0. muxing_queue \in [Streams -> Seq(Nat)] /\ written \in [Streams -> Seq(Nat)]
    BY DEF Types, MuxType
  <2>1. CASE o = s
    <3>1. /\ muxing_queue'[s] = Tail(muxing_queue[s]) /\ muxing_queue[s] # <<>>
          /\ written'[s] = Append(written[s], Head(muxing_queue[s]))
      BY <1>5, <2>0, <2>1
    <3>2. written'[s] \o muxing_queue'[s] = written[s] \o muxing_queue[s]
      BY <2>0, <3>1, MoveHead
    <3> QED BY <1>1, <1>2, <1>3, <3>2, KeepsAll DEF Kept
  <2>2. CASE o # s
    <3>1. muxing_queue'[s] = muxing_queue[s] /\ written'[s] = written[s]
      BY <1>5, <2>0, <2>2
    <3> QED BY <1>1, <1>2, <1>3, <3>1, KeepsOther
  <2> QED BY <2>1, <2>2
<1> QED BY <1>4, <1>5 DEF FlushMuxingQueues, Mux, First, Waiting

(* A packet is read: it is the last of its stream.                         *)
LEMMA OrderRead ==
  ASSUME Types, StateInv, NEW s \in Streams, KeptInOrder(s), Alive',
         ReadNothing \/ \E o \in Streams : CopyPacket(o) \/ DecodePacket(o)
  PROVE  KeptInOrder(s)'
<1> DEFINE k == pos[File] + 1
<1>0. k \in Nat /\ cur \in Streams /\ main = "input" /\ InFlight(s) = <<>> /\ held' = held /\ KeptParts(s)
      /\ main' \notin {"overflow", "failed"} /\ ~OnItsWay(s)
  BY TypesAtHand, KeptTyped DEF ReadNothing, CopyPacket, DecodePacket, Read, InFlight, OnItsWay, Alive
<1>1. ASSUME NEW o \in Streams \cup {NoFrame}, Read(o), o # s, InFlight(s)' = <<>>, Progress(s),
             written'[s] = written[s], muxing_queue'[s] = muxing_queue[s]
      PROVE  KeptInOrder(s)'
  <2>1. Seen(s)' = Seen(s)
    BY <1>1, SeenRead
  <2> QED BY <1>0, <1>1, <2>1, KeepsOther
<1>2. CASE ReadNothing
  <2>1. NoFrame # s /\ main' = "loop" /\ Read(NoFrame)
        /\ UNCHANGED <<written, muxing_queue, main_return_code, frame_number>>
    BY <1>2, Constants DEF ReadNothing, NoFrame, muxVars
  <2>2. InFlight(s)' = <<>> /\ Progress(s)
    BY <2>1 DEF InFlight, Progress
  <2> QED BY <1>1, <2>1, <2>2
<1>3. ASSUME NEW o \in Streams, DecodePacket(o) PROVE KeptInOrder(s)'
  <2>1. /\ Read(o) /\ main' = "frame" /\ cur' = o
        /\ UNCHANGED <<written, muxing_queue, main_return_code, frame_number>>
    BY <1>0, <1>3 DEF DecodePacket, SendFrame, muxVars
  <2>2. Progress(s)
    BY <2>1 DEF Progress
  <2>3. CASE o # s
    <3>1. InFlight(s)' = <<>>
      BY <2>1, <2>3 DEF InFlight
    <3> QED BY <1>1, <2>1, <2>2, <2>3, <3>1
  <2>4. CASE o = s
    <3>1. FileOf[s] = File /\ Seen(s)' = Seen(s) \cup {k} /\ \A j \in Seen(s) : j < k
      BY <2>1, <2>4, SeenRead
    <3>2. InFlight(s)' = <<k>>
      <4>1. pos'[FileOf[s]] = k
        BY <2>1, <3>1, TypesAtHand DEF Read, Types, InputType
      <4> QED BY <2>1, <2>4, <4>1 DEF InFlight
    <3>3. Kept(s) = written[s] \o muxing_queue[s] \o held[s]
      <4>1. written[s] \o muxing_queue[s] \o held[s] \in Seq(Nat)
        BY <1>0, EmptyParts DEF KeptParts
      <4> QED BY <1>0, <4>1, EmptyParts DEF Kept
    <3>4. Kept(s)' = Kept(s) \o <<k>>
      BY <1>0, <2>1, <3>2, <3>3 DEF Kept
    <3>5. Kept(s) \in Seq(Nat)
      BY <1>0 DEF KeptParts
    <3> QED BY <1>0, <2>2, <3>1, <3>4, <3>5, KeepsNew
  <2> QED BY <2>3, <2>4
<1>4. ASSUME NEW o \in Streams, CopyPacket(o) PROVE KeptInOrder(s)'
  <2>1. Read(o) /\ o \in Copied
    BY <1>4 DEF CopyPacket
  <2>2. CASE finished[o] # {}
    <3>1. main' = "loop" /\ UNCHANGED <<written, muxing_queue, main_return_code, frame_number>>
      BY <1>4, <2>2 DEF CopyPacket, muxVars
    <3>2. InFlight(s)' = <<>> /\ Progress(s)
      BY <3>1 DEF InFlight, Progress
    <3>3. CASE o # s
      BY <1>1, <2>1, <3>1, <3>2, <3>3
    <3>4. CASE o = s
      <4>1. Seen(s) \subseteq Seen(s)' /\ ~WholeFile(s)
        BY <2>1, <3>4, SeenRead
      <4>2. main_return_code = 1
        <5>1. Looping /\ main_return_code \in {0, 1}
          BY <1>0 DEF Looping, Types, MuxType
        <5> QED BY <2>2, <3>4, <4>1, <5>1 DEF StateInv, FinishedInv
      <4>3. Kept(s)' = Kept(s)
        BY <1>0, <3>1, <3>2 DEF Kept
      <4> QED BY <3>1, <4>1, <4>2, <4>3, KeepsLess DEF KeptInOrder
    <3> QED BY <3>3, <3>4
  <2>3. CASE WritePacket(o, k, "loop")
    <3>1. /\ \A p \in Streams : Progress(p)
          /\ o # s => written'[s] = written[s] /\ muxing_queue'[s] = muxing_queue[s]
          /\ Dropped(o, k, "loop") => UNCHANGED <<written, muxing_queue, main_return_code, frame_number>>
                                      /\ ~(frame_number'[o] < MaxFrames[o])
          /\ Muxed(o, k, "loop") => /\ written'[o] = Append(written[o], k)
                                    /\ muxing_queue'[o] = muxing_queue[o]
          /\ Queued(o, k, "loop") => /\ written'[o] = written[o]
                                     /\ muxing_queue'[o] = Append(muxing_queue[o], k)
      BY <1>0, <2>3, ProgressWrite
    <3>2. Dropped(o, k, "loop") \/ Muxed(o, k, "loop") \/ Queued(o, k, "loop")
      BY <1>0, <2>3, WriteStep DEF Types, Overflowed
    <3>3. InFlight(s)' = <<>>
      BY <3>2 DEF Dropped, Muxed, Queued, InFlight
    <3>4. CASE o # s
      BY <1>1, <2>1, <3>1, <3>3, <3>4
    <3>5. CASE o = s
      <4>1. Seen(s)' = Seen(s) \cup {k} /\ FileOf[s] = File /\ \A j \in Seen(s) : j < k
        BY <2>1, <3>5, SeenRead
      <4>2. held[s] = <<>>
        BY <2>1, <3>5 DEF StateInv, StreamInv
      <4>3. /\ Kept(s) = written[s] \o muxing_queue[s]
            /\ written'[s] \in Seq(Nat) /\ muxing_queue'[s] \in Seq(Nat)
               => Kept(s)' = written'[s] \o muxing_queue'[s]
        <5>1. written[s] \o muxing_queue[s] \in Seq(Nat)
          BY <1>0, EmptyParts DEF KeptParts
        <5>2. ASSUME written'[s] \in Seq(Nat), muxing_queue'[s] \in Seq(Nat)
              PROVE  Kept(s)' = written'[s] \o muxing_queue'[s]
          <6>1. written'[s] \o muxing_queue'[s] \in Seq(Nat)
            BY <5>2, EmptyParts
          <6> QED BY <1>0, <3>3, <4>2, <6>1, EmptyParts DEF Kept
        <5> QED BY <1>0, <4>2, <5>1, <5>2, EmptyParts DEF Kept
      <4>4. CASE Dropped(o, k, "loop")
        <5>1. Kept(s)' = Kept(s) /\ ~(frame_number'[s] < MaxFrames[s])
          BY <1>0, <3>1, <3>3, <3>5, <4>4 DEF Kept
        <5> QED BY <4>1, <5>1, KeepsLess DEF KeptInOrder
      <4>5. CASE Muxed(o, k, "loop")
        <5>1. muxing_queue[s] = <<>>
          BY <1>0, <4>5 DEF Muxed, StateInv, HeaderInv
        <5>2. /\ written'[s] = Append(written[s], k) /\ muxing_queue'[s] = <<>>
              /\ written[s] \in Seq(Nat)
          BY <1>0, <3>1, <3>5, <4>5, <5>1 DEF KeptParts
        <5>3. Append(written[s], k) = written[s] \o <<k>> /\ Append(written[s], k) \in Seq(Nat)
          BY <1>0, <5>2, AppendIsConcat, AppendFacts
        <5>4. Kept(s)' = written[s] \o <<k>> /\ Kept(s) = written[s]
          BY <1>0, <4>3, <5>1, <5>2, <5>3, EmptyParts
        <5> QED BY <1>0, <3>1, <4>1, <5>2, <5>4, KeepsNew
      <4>6. CASE Queued(o, k, "loop")
        <5>1. /\ written'[s] = written[s] /\ muxing_queue'[s] = Append(muxing_queue[s], k)
              /\ written[s] \in Seq(Nat) /\ muxing_queue[s] \in Seq(Nat)
          BY <1>0, <3>1, <3>5, <4>6 DEF KeptParts
        <5>2. Append(muxing_queue[s], k) \in Seq(Nat)
          BY <1>0, <5>1, AppendFacts
        <5>3. Kept(s)' = Kept(s) \o <<k>>
          <6>1. Kept(s)' = written[s] \o Append(muxing_queue[s], k)
            BY <4>3, <5>1, <5>2
          <6>2. written[s] \o Append(muxing_queue[s], k) = (written[s] \o muxing_queue[s]) \o <<k>>
            BY <1>0, <5>1, AppendLast
          <6> QED BY <4>3, <6>1, <6>2
        <5>4. Kept(s) \in Seq(Nat)
          BY <1>0 DEF KeptParts
        <5> QED BY <1>0, <3>1, <4>1, <5>3, <5>4, KeepsNew
      <4> QED BY <3>2, <4>4, <4>5, <4>6
    <3> QED BY <3>4, <3>5
  <2> QED BY <1>4, <2>2, <2>3 DEF CopyPacket
<1> QED BY <1>2, <1>3, <1>4

LEMMA OrderFrame ==
  ASSUME Types, StateInv, NEW s \in Streams, KeptInOrder(s), DropFrame \/ EncodeFrame, main' # "failed"
  PROVE  KeptInOrder(s)'
<1>1. /\ UNCHANGED <<input, pos, written, muxing_queue, main_return_code, frame_number, cur>>
      /\ main = "frame" /\ main' \in {"loop", "receive"} /\ cur \in Streams
      /\ pos[File] \in Nat /\ held[cur] \in Seq(Nat) /\ held \in [Streams -> Seq(Nat)]
  BY TypesAtHand DEF DropFrame, EncodeFrame, LoopUnchanged, inputVars, muxVars, Types, EncodeType
<1>2. Progress(s) /\ Seen(s)' = Seen(s) /\ InFlight(s)' = <<>> /\ KeptParts(s)
      /\ (cur # s => InFlight(s) = <<>>) /\ (cur = s => InFlight(s) = <<pos[File]>>)
  BY <1>1, SeenKept, KeptTyped DEF Progress, InFlight, File
<1>3. CASE cur # s
  <2>1. held'[s] = held[s]
    BY <1>1, <1>3 DEF DropFrame, EncodeFrame, encodeVars
  <2> QED BY <1>1, <1>2, <1>3, <2>1, KeepsOther
<1>4. CASE cur = s /\ DropFrame
  <2> DEFINE p == written[s] \o muxing_queue[s] \o held[s]
             q == <<pos[File]>>
  <2>1. p \in Seq(Nat) /\ q \in Seq(Nat) /\ q # <<>>
    BY <1>1, <1>2, EmptyParts, OneFacts DEF KeptParts
  <2>2. Kept(s) = p \o q
    BY <1>2, <1>4 DEF Kept
  <2>3. Kept(s)' = p
    <3>1. held' = held
      BY <1>4 DEF DropFrame, encodeVars
    <3>2. Kept(s)' = p \o <<>>
      BY <1>1, <1>2, <3>1 DEF Kept
    <3> QED BY <2>1, <3>2, EmptyParts
  <2>4. Ordered(p) /\ Range(p) \subseteq Range(p \o q)
    <3>1. Ordered(p \o q)
      BY <2>2 DEF KeptInOrder
    <3> HIDE DEF p, q
    <3> QED BY <2>1, <3>1, DropFacts
  <2>5. main_return_code' = 1 \/ ~(frame_number'[s] < MaxFrames[s])
    <3>1. frame_number[s] \in Nat /\ MaxFrames[s] \in Nat /\ main_return_code \in {0, 1}
      BY Constants DEF Types, MuxType
    <3>2. CASE finished[cur] # {}
      <4>1. OnItsWay(s) /\ Looping
        BY <1>1, <1>4 DEF OnItsWay, Looping
      <4>2. main_return_code # 0
        BY <1>4, <3>2, <4>1 DEF StateInv, FinishedInv
      <4> QED BY <1>1, <3>1, <4>2
    <3>3. CASE frame_number[cur] >= MaxFrames[cur]
      BY <1>1, <1>4, <3>1, <3>3
    <3> QED BY <1>4, <3>2, <3>3 DEF DropFrame
  <2> QED BY <1>2, <2>2, <2>3, <2>4, <2>5, KeepsLess
<1>5. CASE cur = s /\ EncodeFrame
  <2> DEFINE p == written[s] \o muxing_queue[s]
  <2>1. p \in Seq(Nat) /\ held[s] \in Seq(Nat)
    BY <1>2, EmptyParts DEF KeptParts
  <2>2. held'[s] = Append(held[s], pos[File])
    BY <1>1, <1>5 DEF EncodeFrame
  <2>3. Kept(s)' = (p \o Append(held[s], pos[File])) \o <<>>
    BY <1>1, <1>2, <2>2 DEF Kept
  <2>4. Kept(s) = (p \o held[s]) \o <<pos[File]>>
    BY <1>2, <1>5 DEF Kept
  <2>5. p \o Append(held[s], pos[File]) = (p \o held[s]) \o <<pos[File]>>
        /\ p \o Append(held[s], pos[File]) \in Seq(Nat)
    <3> HIDE DEF p
    <3>1. Append(held[s], pos[File]) \in Seq(Nat)
      BY <1>1, <2>1, AppendFacts
    <3>2. p \o Append(held[s], pos[File]) = (p \o held[s]) \o <<pos[File]>>
      BY <1>1, <2>1, AppendLast
    <3> QED BY <2>1, <3>1, <3>2, EmptyParts
  <2>6. Kept(s)' = Kept(s)
    <3> HIDE DEF p
    <3> QED BY <2>3, <2>4, <2>5, EmptyParts
  <2> QED BY <1>2, <2>6, KeepsAll
<1> QED BY <1>3, <1>4, <1>5

(* A frame leaves the encoder, and is written, queued or dropped.          *)
LEMMA OrderOutput ==
  ASSUME Types, StateInv, NEW s \in Streams, KeptInOrder(s), main \in {"receive", "drain"},
         held[cur] # <<>>, OutputPacket, main' # "overflow", UNCHANGED <<input, pos, cur>>
  PROVE  KeptInOrder(s)'
<1> DEFINE t == Head(held[cur])
<1>1. /\ cur \in Streams /\ held \in [Streams -> Seq(Nat)] /\ t \in Nat /\ Tail(held[cur]) \in Seq(Nat)
      /\ held' = [held EXCEPT ![cur] = Tail(@)] /\ WritePacket(cur, t, main)
      /\ KeptParts(s)
  BY TypesAtHand, HeadFacts, KeptTyped DEF OutputPacket, Types, EncodeType
<1>2. /\ \A p \in Streams : Progress(p)
      /\ cur # s => written'[s] = written[s] /\ muxing_queue'[s] = muxing_queue[s]
      /\ Dropped(cur, t, main) => UNCHANGED <<written, muxing_queue, main_return_code, frame_number>>
                                  /\ ~(frame_number'[cur] < MaxFrames[cur])
      /\ Muxed(cur, t, main) => /\ written'[cur] = Append(written[cur], t)
                                /\ muxing_queue'[cur] = muxing_queue[cur]
      /\ Queued(cur, t, main) => /\ written'[cur] = written[cur]
                                 /\ muxing_queue'[cur] = Append(muxing_queue[cur], t)
  BY <1>1, ProgressWrite
<1>3. /\ Dropped(cur, t, main) \/ Muxed(cur, t, main) \/ Queued(cur, t, main)
      /\ main' = main
  BY <1>1, WriteStep DEF Types, Overflowed, Dropped, Muxed, Queued
<1>4. Seen(s)' = Seen(s) /\ InFlight(s) = <<>> /\ InFlight(s)' = <<>>
  BY <1>3, SeenKept DEF InFlight
<1>5. CASE cur # s
  <2>1. held'[s] = held[s]
    BY <1>1, <1>5
  <2> QED BY <1>2, <1>4, <1>5, <2>1, KeepsOther
<1>6. CASE cur = s
  <2> DEFINE w == written[s]
             m == muxing_queue[s]
             h == held[s]
  <2>1. /\ w \in Seq(Nat) /\ m \in Seq(Nat) /\ h \in Seq(Nat) /\ h # <<>> /\ t = Head(h)
        /\ Tail(h) \in Seq(Nat) /\ held'[s] = Tail(h)
    BY <1>1, <1>6 DEF KeptParts
  <2>2. Kept(s) = (w \o m) \o h /\ w \o m \in Seq(Nat)
    <3>1. w \o m \in Seq(Nat)
      BY <2>1, EmptyParts
    <3>2. (w \o m) \o h \in Seq(Nat)
      BY <2>1, <3>1, EmptyParts
    <3> QED BY <1>4, <3>1, <3>2, EmptyParts DEF Kept
  <2>3. ASSUME written'[s] \in Seq(Nat), muxing_queue'[s] \in Seq(Nat)
        PROVE  Kept(s)' = (written'[s] \o muxing_queue'[s]) \o Tail(h)
    <3>1. written'[s] \o muxing_queue'[s] \in Seq(Nat)
      BY <2>3, EmptyParts
    <3>2. (written'[s] \o muxing_queue'[s]) \o Tail(h) \in Seq(Nat)
      BY <2>1, <3>1, EmptyParts
    <3> QED BY <1>4, <2>1, <3>2, EmptyParts DEF Kept
  <2>4. CASE Dropped(cur, t, main)
    <3>1. written'[s] = w /\ muxing_queue'[s] = m /\ ~(frame_number'[s] < MaxFrames[s])
      BY <1>2, <1>6, <2>4
    <3>2. Kept(s)' = (w \o m) \o Tail(h)
      BY <2>1, <2>3, <3>1
    <3>3. Ordered((w \o m) \o h)
      BY <2>2 DEF KeptInOrder
    <3>4. /\ Ordered((w \o m) \o Tail(h))
          /\ Range((w \o m) \o Tail(h)) \subseteq Range((w \o m) \o h)
      BY <2>1, <2>2, <3>3, DropFacts
    <3> QED BY <1>4, <2>2, <3>1, <3>2, <3>4, KeepsLess
  <2>5. CASE Muxed(cur, t, main)
    <3>1. m = <<>>
      BY <2>5 DEF Muxed, StateInv, HeaderInv
    <3>2. written'[s] = Append(w, Head(h)) /\ muxing_queue'[s] = <<>> /\ Append(w, Head(h)) \in Seq(Nat)
      BY <1>1, <1>2, <1>6, <2>1, <2>5, <3>1, AppendFacts
    <3>3. Kept(s)' = Append(w, Head(h)) \o Tail(h) /\ Kept(s) = w \o h
      BY <2>1, <2>2, <2>3, <3>1, <3>2, EmptyParts
    <3>4. Append(w, Head(h)) \o Tail(h) = w \o h
      BY <2>1, MoveHead
    <3> QED BY <1>2, <1>4, <3>3, <3>4, KeepsAll
  <2>6. CASE Queued(cur, t, main)
    <3>1. written'[s] = w /\ muxing_queue'[s] = Append(m, Head(h)) /\ Append(m, Head(h)) \in Seq(Nat)
      BY <1>1, <1>2, <1>6, <2>1, <2>6, AppendFacts
    <3>2. Kept(s)' = (w \o Append(m, Head(h))) \o Tail(h)
      BY <2>1, <2>3, <3>1
    <3>3. w \o Append(m, Head(h)) = Append(w \o m, Head(h))
      BY <1>1, <1>6, <2>1, AppendLast
    <3>4. Append(w \o m, Head(h)) \o Tail(h) = (w \o m) \o h
      BY <2>1, <2>2, MoveHead
    <3> QED BY <1>2, <1>4, <2>2, <3>2, <3>3, <3>4, KeepsAll
  <2> QED BY <1>3, <2>4, <2>5, <2>6
<1> QED BY <1>5, <1>6

LEMMA OrderEncoder ==
  ASSUME Types, StateInv, NEW s \in Streams, KeptInOrder(s), ReceivePacket \/ DrainPacket, Alive'
  PROVE  KeptInOrder(s)'
<1>1. UNCHANGED <<input, pos, cur>> /\ main \in {"receive", "drain"} /\ main' \notin {"overflow", "failed"}
      /\ held[cur] # <<>>
  <2>1. CASE ReceivePacket
    <3>1. Len(held[cur]) > 0
      BY <2>1, TypesAtHand DEF ReceivePacket
    <3>2. held[cur] # <<>>
      BY <3>1, TypesAtHand
    <3> QED BY <2>1, <3>2 DEF ReceivePacket, inputVars, Alive
  <2>2. CASE DrainPacket
    BY <2>2 DEF DrainPacket, inputVars, Alive
  <2> QED BY <2>1, <2>2
<1>2. CASE OutputPacket
  BY <1>1, <1>2, OrderOutput
<1>3. CASE /\ DrainPacket /\ "muxer" \in finished[cur] /\ UNCHANGED <<muxVars, main, back>>
           /\ held' = [held EXCEPT ![cur] = Tail(@)]
  <2>1. /\ main = "drain" /\ cur \in Streams /\ cur \in Encoded /\ held \in [Streams -> Seq(Nat)]
        /\ UNCHANGED <<written, muxing_queue, main_return_code, frame_number, main, back>>
        /\ main_return_code \in {0, 1} /\ KeptParts(s)
    BY <1>3, KeptTyped, TypesAtHand
       DEF DrainPacket, muxVars, StateInv, FlushInv, Draining, Types, EncodeType, MuxType
  <2>2. InFlight(s) = <<>> /\ InFlight(s)' = <<>> /\ Seen(s)' = Seen(s) /\ Progress(s)
    BY <1>1, <2>1, SeenKept DEF InFlight, Progress
  <2>3. main_return_code = 1
    BY <1>1, <1>3, <2>1 DEF StateInv, FinishedInv
  <2>4. CASE cur # s
    BY <1>3, <2>1, <2>2, <2>4, KeepsOther
  <2>5. CASE cur = s
    <3> DEFINE p == written[s] \o muxing_queue[s]
    <3>1. p \in Seq(Nat) /\ held[s] \in Seq(Nat) /\ held[s] # <<>> /\ held'[s] = Tail(held[s])
      BY <1>1, <1>3, <2>1, <2>5, EmptyParts DEF KeptParts
    <3>2. Tail(held[s]) \in Seq(Nat)
      BY <3>1, HeadFacts
    <3>3. p \o held[s] \in Seq(Nat) /\ p \o Tail(held[s]) \in Seq(Nat)
      <4> HIDE DEF p
      <4> QED BY <3>1, <3>2, EmptyParts
    <3>4. Kept(s) = p \o held[s] /\ Kept(s)' = p \o Tail(held[s])
      <4>1. Kept(s) = (p \o held[s]) \o <<>>
        BY <2>2 DEF Kept
      <4>2. Kept(s)' = (p \o Tail(held[s])) \o <<>>
        BY <2>1, <2>2, <3>1 DEF Kept
      <4> HIDE DEF p
      <4> QED BY <3>3, <4>1, <4>2, EmptyParts
    <3>5. Ordered(p \o Tail(held[s])) /\ Range(p \o Tail(held[s])) \subseteq Range(p \o held[s])
      <4>1. Ordered(p \o held[s])
        BY <3>4 DEF KeptInOrder
      <4> HIDE DEF p
      <4> QED BY <3>1, <4>1, DropFacts
    <3> QED BY <2>1, <2>2, <2>3, <3>4, <3>5, KeepsLess
  <2> QED BY <2>4, <2>5
<1> QED BY <1>1, <1>2, <1>3 DEF ReceivePacket, DrainPacket

LEMMA OrderStep == Types /\ AliveInv /\ OrderInv /\ [Next]_vars => OrderInv'
<1> SUFFICES ASSUME Types, AliveInv, OrderInv, [Next]_vars, Alive', NEW s \in Streams
             PROVE  KeptInOrder(s)'
  BY DEF OrderInv
<1>1. StateInv /\ KeptInOrder(s) /\ main' \notin {"overflow", "failed"}
  BY AliveBefore DEF AliveInv, OrderInv, Alive
<1> QED
  BY <1>1, OrderIdle, OrderFlush, OrderRead, OrderFrame, OrderEncoder
  DEF Next, Step, ReadPacket, Terminated

(* The packets of a stream come out in the order they were read, and none  *)
(* is missing unless max_frames is reached or the muxer has failed.        *)
THEOREM PacketsInOrderCorrect == Spec => []PacketsInOrder
<1>1. Init => Types /\ AliveInv /\ OrderInv
  BY InitTypes, InitState, OrderInit DEF AliveInv
<1>2. (Types /\ AliveInv /\ OrderInv) /\ [Next]_vars => (Types /\ AliveInv /\ OrderInv)'
  BY TypesStep, StateStep, OrderStep
<1>3. Types /\ OrderInv => PacketsInOrder
  BY OrderSuffices
<1> QED BY <1>1, <1>2, <1>3, PTL DEF Spec

-----------------------------------------------------------------------------
(* The muxer.                                                              *)

WrittenInv ==
  Alive => \A s \in Streams : Ordered(written[s]) /\ Range(written[s]) \subseteq 1..NbPackets

LEMMA WrittenOrdered == Types /\ OrderInv => WrittenInv
<1> SUFFICES ASSUME Types, OrderInv, Alive, NEW s \in Streams
             PROVE  Ordered(written[s]) /\ Range(written[s]) \subseteq 1..NbPackets
  BY DEF WrittenInv
<1> DEFINE w == written[s]
           m == muxing_queue[s]
           h == held[s]
           f == InFlight(s)
<1>1. w \in Seq(Nat) /\ m \in Seq(Nat) /\ h \in Seq(Nat) /\ f \in Seq(Nat) /\ Kept(s) = w \o m \o h \o f
  BY KeptTyped DEF KeptParts, Kept
<1>2. Ordered(Kept(s)) /\ Range(Kept(s)) \subseteq Seen(s)
  BY DEF OrderInv, KeptInOrder
<1>3. w \o m \in Seq(Nat) /\ w \o m \o h \in Seq(Nat)
  <2> HIDE DEF w, m, h
  <2> QED BY <1>1, EmptyParts
<1>4. Ordered(w) /\ Range(w) \subseteq Range(Kept(s))
  <2> HIDE DEF w, m, h, f
  <2>1. Ordered(w \o m \o h) /\ Range(w \o m \o h) \subseteq Range(w \o m \o h \o f)
    <3>1. Ordered(w \o m \o h \o f)
      BY <1>1, <1>2
    <3> QED BY <1>1, <1>3, <3>1, PrefixFacts
  <2>2. Ordered(w \o m) /\ Range(w \o m) \subseteq Range(w \o m \o h)
    BY <1>1, <1>3, <2>1, PrefixFacts
  <2>3. Ordered(w) /\ Range(w) \subseteq Range(w \o m)
    BY <1>1, <2>2, PrefixFacts
  <2> QED BY <1>1, <2>1, <2>2, <2>3
<1>5. Seen(s) \subseteq 1..NbPackets
  <2>1. FileOf[s] \in Files /\ input \in Inputs /\ pos[FileOf[s]] \in Nat
        /\ pos[FileOf[s]] <= Len(input[FileOf[s]]) /\ Len(input[FileOf[s]]) \in Nat
    BY Constants DEF Types, InputType
  <2>2. Len(input[FileOf[s]]) <= NbPackets /\ NbPackets \in Nat
    BY <2>1, OutputAssumption
  <2>3. Seen(s) \subseteq 1..pos[FileOf[s]]
    BY DEF Seen
  <2> QED BY <2>1, <2>2, <2>3
<1> QED BY <1>2, <1>4, <1>5

(* av_interleaved_write_frame is called with a packet the muxer may be     *)
(* given next.                                                             *)
LEMMA MuxImplements ==
  ASSUME Types, StateInv, WrittenInv', Alive', NEW s \in Streams, NEW t \in Nat,
         header_written, main # "end",
         written' = [written EXCEPT ![s] = Append(@, t)], UNCHANGED <<header_written, trailer>>
  PROVE  Muxer!Next
<1>1. written[s] \in Seq(Nat) /\ written'[s] = Append(written[s], t)
  BY DEF Types, MuxType
<1>2. /\ Append(written[s], t) \in Seq(Nat) /\ Len(Append(written[s], t)) = Len(written[s]) + 1
      /\ \A i \in 1..Len(written[s]) : Append(written[s], t)[i] = written[s][i]
      /\ Append(written[s], t)[Len(written[s]) + 1] = t /\ Len(written[s]) \in Nat
  BY <1>1, AppendProperties
<1>3. Ordered(Append(written[s], t)) /\ Range(Append(written[s], t)) \subseteq 1..NbPackets
  BY <1>1 DEF WrittenInv
<1>4. \A i \in 1..Len(written[s]) : written[s][i] < t
  <2> SUFFICES ASSUME NEW i \in 1..Len(written[s]) PROVE written[s][i] < t
    OBVIOUS
  <2>1. i \in 1..Len(written[s]) + 1 /\ Len(written[s]) + 1 \in 1..Len(written[s]) + 1 /\ i < Len(written[s]) + 1
    BY <1>2
  <2> QED BY <1>2, <1>3, <2>1 DEF Ordered
<1>5. t \in 1..NbPackets
  <2>1. Range(Append(written[s], t)) = {Append(written[s], t)[i] : i \in 1..Len(Append(written[s], t))}
    BY <1>2, RangeEquality
  <2>2. Len(written[s]) + 1 \in 1..Len(Append(written[s], t))
    BY <1>2
  <2> QED BY <1>2, <1>3, <2>1, <2>2
<1>6. header_written = TRUE /\ trailer = FALSE
  BY DEF StateInv, PlaceInv, Types, PlaceType
<1> QED BY <1>4, <1>5, <1>6 DEF Muxer!Next, Muxer!WritePacket

LEMMA MuxerStep ==
  Types /\ AliveInv /\ WrittenInv' /\ [Next]_vars
    => [Muxer!Next]_<<header_written, written, trailer>>
<1> SUFFICES ASSUME Types, AliveInv, WrittenInv', [Next]_vars,
                    ~UNCHANGED <<header_written, written, trailer>>
             PROVE  Muxer!Next
  OBVIOUS
<1>1. CASE TranscodeInit
  <2>1. StateInv /\ main = "init" /\ UNCHANGED <<written, trailer>>
    BY <1>1 DEF TranscodeInit, muxVars, AliveInv, Alive
  <2>2. ~header_written /\ ~trailer
    BY <2>1, Constants DEF StateInv, PlaceInv, HeaderInv
  <2>3. header_written' \in BOOLEAN
    BY <1>1, TypesLoop DEF Types, PlaceType
  <2> QED BY <2>1, <2>2, <2>3 DEF Muxer!Next, Muxer!WriteHeader, Types, PlaceType
<1>2. CASE InitInStep \/ InitForFrame \/ FlushUninitialized
  <2>1. StateInv /\ UNCHANGED <<written, trailer>> /\ main \in {"step", "frame", "flush"}
    BY <1>2 DEF InitInStep, InitForFrame, FlushUninitialized, muxVars, AliveInv, Alive
  <2>2. header_written' = TRUE \/ header_written' = header_written
    BY <1>2 DEF InitInStep, InitForFrame, FlushUninitialized, InitOutputStream
  <2> QED BY <2>1, <2>2 DEF Muxer!Next, Muxer!WriteHeader, Types, PlaceType
<1>3. CASE WriteTrailer
  <2>1. StateInv /\ main = "trailer" /\ trailer' = header_written /\ UNCHANGED <<written, header_written>>
    BY <1>3 DEF WriteTrailer, muxVars, AliveInv, Alive
  <2>2. trailer = FALSE /\ header_written = TRUE
    BY <2>1 DEF StateInv, PlaceInv, FlushInv, HeaderInv, Types, PlaceType
  <2> QED BY <2>1, <2>2 DEF Muxer!Next, Muxer!WriteTrailer
<1>4. CASE FlushMuxingQueues
  <2>1. /\ StateInv /\ main = "mux" /\ header_written /\ UNCHANGED <<header_written, trailer>>
        /\ main' \in {"mux", "step", "frame", "drain"} /\ Alive'
    BY <1>4 DEF FlushMuxingQueues, Mux, fileVars, AliveInv, Alive, StateInv, HeaderInv, Types, PlaceType
  <2>2. CASE UNCHANGED muxVars
    BY <2>1, <2>2 DEF muxVars
  <2>3. ASSUME NEW s \in Streams, muxing_queue[s] # <<>>,
               written' = [written EXCEPT ![s] = Append(@, Head(muxing_queue[s]))]
        PROVE  Muxer!Next
    <3>1. Head(muxing_queue[s]) \in Nat
      BY <2>3, HeadFacts DEF Types, MuxType
    <3> QED BY <2>1, <2>3, <3>1, MuxImplements
  <2> QED BY <1>4, <2>2, <2>3 DEF FlushMuxingQueues, Mux, First, Waiting
<1>5. ASSUME NEW s \in Streams, NEW t \in Nat, NEW where \in {"loop", "receive", "drain"},
             WritePacket(s, t, where), UNCHANGED <<header_written, trailer>>,
             main \in {"input", "receive", "drain"}
      PROVE  Muxer!Next
  <2>1. StateInv
    BY <1>5 DEF AliveInv, Alive
  <2>2. Muxed(s, t, where)
    BY <1>5, WriteStep DEF Types, Dropped, Queued, Overflowed, muxVars
  <2>3. header_written /\ written' = [written EXCEPT ![s] = Append(@, t)] /\ Alive'
    BY <1>5, <2>2 DEF Muxed, Alive
  <2> QED BY <1>5, <2>1, <2>3, MuxImplements
<1>6. ASSUME NEW s \in Streams, CopyPacket(s) PROVE Muxer!Next
  <2>1. main = "input" /\ UNCHANGED <<header_written, trailer>> /\ pos[File] + 1 \in Nat
    BY <1>6, TypesAtHand DEF CopyPacket, Read, fileVars
  <2> QED BY <1>5, <1>6, <2>1 DEF CopyPacket, muxVars
<1>7. CASE ReceivePacket \/ DrainPacket
  <2>1. main \in {"receive", "drain"} /\ UNCHANGED <<header_written, trailer>> /\ OutputPacket
        /\ cur \in Streams
    BY <1>7, TypesAtHand DEF ReceivePacket, DrainPacket, fileVars, muxVars
  <2>2. held[cur] # <<>> /\ held[cur] \in Seq(Nat)
    <3>1. CASE ReceivePacket
      <4>1. Len(held[cur]) > 0
        BY <3>1, TypesAtHand DEF ReceivePacket
      <4> QED BY <4>1, TypesAtHand
    <3>2. CASE DrainPacket
      BY <3>2, TypesAtHand DEF DrainPacket
    <3> QED BY <1>7, <3>1, <3>2
  <2>3. Head(held[cur]) \in Nat
    BY <2>2, HeadFacts
  <2> QED BY <1>5, <2>1, <2>3 DEF OutputPacket
<1>8. ~(Choose \/ LeaveLoop \/ Stop \/ Configure \/ FilterEnd \/ WantInput \/ InputAgain \/ ReadNothing
        \/ (\E s \in Streams : DecodePacket(s)) \/ ReadEof \/ DropFrame \/ EncodeFrame \/ FrameDone
        \/ CloseFilters \/ FlushCopied \/ FlushInitialized \/ Drained \/ UNCHANGED vars)
  BY DEF vars, muxVars, fileVars, LoopUnchanged, Choose, LeaveLoop, Stop, Configure, FilterEnd, WantInput,
         InputAgain, ReadNothing, DecodePacket, Read, ReadEof, DropFrame, EncodeFrame, FrameDone,
         CloseFilters, FlushCopied, FlushInitialized, Drained
<1> QED BY <1>1, <1>2, <1>3, <1>4, <1>6, <1>7, <1>8 DEF Next, Step, ReadPacket, Terminated

(* The muxer is given the header, then the packets of each stream in the   *)
(* order of their timestamps, then the trailer, and nothing after it.      *)
THEOREM Implements == Spec => ImplementsMuxer
<1>1. Init => Muxer!Init
  BY DEF Init, Muxer!Init
<1>2. Types /\ AliveInv /\ WrittenInv' /\ [Next]_vars
        => [Muxer!Next]_<<header_written, written, trailer>>
  BY MuxerStep
<1>3. Init => Types /\ AliveInv /\ OrderInv
  BY InitTypes, InitState, OrderInit DEF AliveInv
<1>4. (Types /\ AliveInv /\ OrderInv) /\ [Next]_vars => (Types /\ AliveInv /\ OrderInv)'
  BY TypesStep, StateStep, OrderStep
<1>5. Types /\ OrderInv => WrittenInv
  BY WrittenOrdered
<1> QED BY <1>1, <1>2, <1>3, <1>4, <1>5, PTL DEF Spec, ImplementsMuxer, Muxer!Spec, Muxer!fileVars

=============================================================================
