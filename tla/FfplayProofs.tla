---------------------------- MODULE FfplayProofs ----------------------------
(***************************************************************************)
(* The safety of Ffplay, for files, delays, queues and keys of any number: *)
(* the types, the order in which pictures appear, and what is true when    *)
(* the reader ends the program.                                            *)
(***************************************************************************)
EXTENDS Ffplay, TLAPS

-----------------------------------------------------------------------------
(* Lemmas about the constants, sequences and the index of a ring.          *)

LEMMA Constants ==
  /\ Length \in Nat /\ Delay \in Nat /\ MinFrames \in Nat /\ MaxKeys \in Nat
  /\ PictQueue \in Nat /\ PictQueue > 0 /\ Loops \in Nat /\ Loops > 0
  /\ None \notin Packets /\ None \notin Pictures
  /\ MaxSerial \in Nat
BY FfplayAssumption, NoneAssumption DEF MaxSerial

LEMMA SerialRange == \A n : n \in Serials <=> n \in Nat /\ n <= MaxSerial
BY Constants DEF Serials

(* An index of the ring is taken back at most once.                        *)
LEMMA Wrap ==
  ASSUME NEW a \in 0..2 * PictQueue - 1
  PROVE  /\ a % PictQueue = IF a < PictQueue THEN a ELSE a - PictQueue
         /\ a % PictQueue \in 0..PictQueue - 1
<1>1. \A p \in Nat \ {0} : \A b \in 0..(p - 1) : b % p = b
  OBVIOUS
<1>2. \A p \in Nat \ {0} : \A b \in p..(2 * p - 1) : b % p = b - p
  OBVIOUS
<1>3. CASE a < PictQueue
  <2>1. PictQueue \in Nat \ {0} /\ a \in 0..(PictQueue - 1)
    BY <1>3, Constants
  <2>2. a % PictQueue = a
    BY <1>1, <2>1
  <2> QED BY <1>3, <2>1, <2>2
<1>4. CASE ~(a < PictQueue)
  <2>1. PictQueue \in Nat \ {0} /\ a \in PictQueue..(2 * PictQueue - 1)
    BY <1>4, Constants
  <2>2. a % PictQueue = a - PictQueue
    BY <1>2, <2>1
  <2>3. a - PictQueue \in 0..PictQueue - 1
    BY <2>1
  <2> QED BY <1>4, <2>2, <2>3
<1> QED BY <1>3, <1>4

LEMMA EmptyType == ASSUME NEW S PROVE <<>> \in Seq(S)
OBVIOUS

(* What Append, Head and Tail do to the elements of a sequence.            *)
LEMMA AppendElements ==
  ASSUME NEW S, NEW q \in Seq(S), NEW e \in S
  PROVE  /\ Append(q, e) \in Seq(S) /\ Len(Append(q, e)) = Len(q) + 1
         /\ \A i \in 1..Len(q) : Append(q, e)[i] = q[i]
         /\ Append(q, e)[Len(q) + 1] = e
OBVIOUS

LEMMA TailElements ==
  ASSUME NEW S, NEW q \in Seq(S), q # <<>>
  PROVE  /\ Tail(q) \in Seq(S) /\ Len(Tail(q)) = Len(q) - 1 /\ Len(q) \in Nat \ {0}
         /\ \A i \in 1..Len(q) - 1 : Tail(q)[i] = q[i + 1]
         /\ Head(q) = q[1] /\ Head(q) \in S
OBVIOUS
-----------------------------------------------------------------------------
(* What keeps the types: the inductive invariant Base.                     *)

Bit(b) == IF b THEN 1 ELSE 0

(* The main thread closes a stream to open the other one.                  *)
Reopening == ~abortRequest /\ mainAt \in {"abort", "signal", "join", "unset", "open"}

(* Every new serial was asked for: by the start, a loop or a key.          *)
CountInv ==
  serial + Bit(readAt = "open") + Bit(seekReq /\ readAt # "sought") + Bit(Reopening)
    <= 1 + (Loops - loop) + keys

(* No stream is open.                                                      *)
Closed == packets = <<>> /\ abort /\ decAt = "none" /\ ~videoSt

(* Where the threads are in relation to each other.                        *)
PlaceInv ==
  /\ readAt = "open" => /\ Closed /\ serial = 0 /\ shown = None /\ quit = "no" /\ ~cycled
                        /\ mainAt \in {"events", "joinReader"}
  /\ videoStream < 0 \/ mainAt \in {"unset", "open"} => Closed
  /\ mainAt \in {"signal", "join"} => abort
  /\ mainAt \in {"abort", "signal", "join", "unset", "open"} =>
       cycled \/ (abortRequest /\ readAt = "ended")
  /\ abort /\ ~cycled => readAt \in {"open", "ended"}
  /\ abortRequest => mainAt \notin {"events", "retry", "peeked", "next", "less", "display", "open"}
  /\ mainAt = "joinReader" => abortRequest
  /\ readAt \in {"flush", "putFlush"} => seekReq
  /\ readAt \in {"put", "queue"} => pos > 0
  /\ readAt = "putNull" => pos = Length
  /\ videoSt => serial > 0

(* What the decoder has in its hands.                                      *)
DecoderInv ==
  /\ decAt = "got" => pkt \in Packets /\ pkt.serial = pktSerial
  /\ decAt \in {"receive", "room", "roomWait", "write", "push"} => pktSerial >= 0
  /\ decAt \in {"room", "roomWait", "write"} => frame \in Pictures /\ frame.serial = pktSerial
  /\ pktSerial <= serial
  /\ frame \in Pictures => frame.serial <= serial

(* A flush packet of serial s is among the first n packets of q.           *)
FlushWaits(q, s, n) == \E j \in 1..n : q[j].kind = "flush" /\ q[j].serial = s

(* The packets of videoq: of serials not older than that of the decoder,   *)
(* in order, each serial begun by its flush packet.  Only of the last one  *)
(* does something else than the flush packet wait.                         *)
QueueInv ==
  /\ \A i \in 1..Len(packets) :
       /\ pktSerial <= packets[i].serial /\ packets[i].serial <= serial
       /\ packets[i].kind = "flush" => pktSerial < packets[i].serial
       /\ packets[i].kind # "flush" =>
            packets[i].serial = serial /\ (pktSerial = serial \/ FlushWaits(packets, serial, i))
  /\ \A i, j \in 1..Len(packets) : i < j =>
       /\ packets[i].serial <= packets[j].serial
       /\ packets[j].kind = "flush" => packets[i].serial < packets[j].serial
  /\ readAt = "putFlush" => \A i \in 1..Len(packets) : packets[i].kind = "flush"
  /\ ~abort /\ readAt # "putFlush" => pktSerial = serial \/ FlushWaits(packets, serial, Len(packets))

(* The slots of pictq that hold a picture: the decoder has filled one more *)
(* than are counted, the main thread emptied one that still is.            *)
InRing == size + Bit(decAt = "push") - Bit(mainAt = "less")
At(i)  == queue[(rindex + i) % PictQueue]

RingInv ==
  /\ windex = (rindex + InRing) % PictQueue
  /\ \A i \in 0..InRing - 1 : At(i) \in Pictures
  /\ decAt \in {"write", "push"} => size < PictQueue
  /\ mainAt \in {"peeked", "next"} => size > rindexShown
  /\ mainAt = "less" => size > 1
  /\ mainAt \in {"less", "display"} => rindexShown = 1
  /\ shown # None => rindexShown = 1
  /\ rindexShown <= size

Base == TypeOK /\ CountInv /\ PlaceInv /\ DecoderInv /\ QueueInv /\ RingInv

LEMMA InitBase == Init => Base
<1> SUFFICES ASSUME Init PROVE Base
  OBVIOUS
<1>1. TypeOK
  <2>1. packets \in Seq(Packets) /\ held \in Seq(Places)
    BY DEF Init
  <2>2. /\ loop \in 1..Loops /\ pos \in 0..Length /\ seekPos \in 0..Length /\ keys \in 0..MaxKeys
        /\ serial \in Serials /\ pktSerial \in Serials \cup {-1} /\ finished \in Serials
    BY Constants, SerialRange DEF Init
  <2>3. /\ queue \in [0..PictQueue - 1 -> Pictures \cup {None}]
        /\ {rindex, windex} \subseteq 0..PictQueue - 1
        /\ size \in 0..PictQueue /\ rindexShown \in {0, 1}
    BY Constants, SerialRange DEF Init
  <2>4. /\ pkt \in Packets \cup {None} /\ frame \in Pictures \cup {None}
        /\ shown \in Pictures \cup {None} /\ vidclk \in Serials \cup {-1}
    BY DEF Init
  <2> QED BY <2>1, <2>2, <2>3, <2>4, Zenon
      DEF Init, TypeOK, ReadType, StreamType, DecoderType, RingType, MainType,
          DecPlaces, MainPlaces, Streams
<1>2. CountInv
  BY Constants, SerialRange DEF Init, CountInv, Bit, Reopening
<1>3. PlaceInv /\ DecoderInv /\ QueueInv
  BY Constants, SerialRange DEF Init, PlaceInv, DecoderInv, QueueInv, Closed, Pictures
<1>4. RingInv
  <2>1. windex = (rindex + InRing) % PictQueue
    BY Wrap, Constants, SerialRange DEF Init, InRing, Bit
  <2> QED BY <2>1, Constants, SerialRange DEF Init, RingInv, InRing, Bit
<1> QED BY <1>1, <1>2, <1>3, <1>4 DEF Base

LEMMA Numbers ==
  ASSUME TypeOK
  PROVE  /\ serial \in Nat /\ serial <= MaxSerial /\ pktSerial \in Int /\ finished \in Nat
         /\ loop \in 1..Loops /\ keys \in 0..MaxKeys /\ pos \in 0..Length /\ pos \in Nat
         /\ size \in 0..PictQueue /\ rindex \in 0..PictQueue - 1 /\ windex \in 0..PictQueue - 1
         /\ rindexShown \in {0, 1}
<1>1. serial \in Serials /\ pktSerial \in Serials \cup {-1} /\ finished \in Serials
  BY DEF TypeOK, ReadType, StreamType, DecoderType, RingType, MainType
<1>2. serial \in Nat /\ serial <= MaxSerial /\ pktSerial \in Int /\ finished \in Nat
  BY <1>1, Constants, SerialRange
<1>3. loop \in 1..Loops /\ keys \in 0..MaxKeys /\ pos \in 0..Length
  BY DEF TypeOK, ReadType, StreamType, DecoderType, RingType, MainType
<1>4. /\ size \in 0..PictQueue /\ rindex \in 0..PictQueue - 1 /\ windex \in 0..PictQueue - 1
      /\ rindexShown \in {0, 1}
  BY DEF TypeOK, ReadType, StreamType, DecoderType, RingType, MainType
<1> QED BY <1>2, <1>3, <1>4, Constants, SerialRange

(* The ways a step may touch videoq.                                       *)
LEMMA PutCases ==
  ASSUME NEW kind, NEW at, Put(kind, at)
  PROVE  \/ abort /\ UNCHANGED <<packets, serial, abort, decAt>>
         \/ /\ ~abort /\ abort' = abort
            /\ serial' = IF kind = "flush" THEN serial + 1 ELSE serial
            /\ packets' = Append(packets, [kind |-> kind, at |-> at, serial |-> serial'])
            /\ decAt' = IF decAt = "getWait" THEN "get" ELSE decAt
BY DEF Put, Woken, queueVars

(* A new serial is within the bound.                                       *)
LEMMA SerialBound ==
  ASSUME TypeOK, CountInv,
         readAt = "open" \/ (seekReq /\ readAt # "sought") \/ Reopening
  PROVE  serial + 1 \in Serials /\ serial + 1 > 0
<1> DEFINE a == Bit(readAt = "open")
           b == Bit(seekReq /\ readAt # "sought")
           c == Bit(Reopening)
<1>1. a \in {0, 1} /\ b \in {0, 1} /\ c \in {0, 1} /\ (a = 1 \/ b = 1 \/ c = 1)
  BY DEF Bit
<1>2. serial + a + b + c <= 1 + (Loops - loop) + keys
  BY DEF CountInv
<1>3. serial \in Nat /\ loop \in 1..Loops /\ keys \in 0..MaxKeys
  BY Numbers
<1> HIDE DEF a, b, c
<1> QED BY <1>1, <1>2, <1>3, Constants, SerialRange DEF MaxSerial

LEMMA PutType ==
  ASSUME TypeOK, CountInv, NEW kind, NEW at,
         (kind \in {"flush", "null"} /\ at = 0) \/ (kind = "data" /\ at \in Places),
         Put(kind, at), kind = "flush" => seekReq /\ readAt # "sought"
  PROVE  /\ packets' \in Seq(Packets) /\ serial' \in Serials /\ abort' \in BOOLEAN
         /\ decAt' \in DecPlaces
<1>1. packets \in Seq(Packets) /\ serial \in Serials /\ abort \in BOOLEAN /\ decAt \in DecPlaces
  BY DEF TypeOK, StreamType, DecoderType
<1>2. serial' \in Serials
  BY <1>1, PutCases, SerialBound
<1>3. CASE packets' = packets
  BY <1>1, <1>2, <1>3, PutCases DEF DecPlaces
<1>4. CASE packets' = Append(packets, [kind |-> kind, at |-> at, serial |-> serial'])
  <2>1. [kind |-> kind, at |-> at, serial |-> serial'] \in Packets
    BY <1>2 DEF Packets
  <2>2. packets' \in Seq(Packets)
    BY <1>1, <1>4, <2>1, AppendElements
  <2> QED BY <1>1, <1>2, <2>2, PutCases DEF DecPlaces
<1> QED BY <1>3, <1>4, PutCases

(* stream_component_open makes the first serial of a stream, or none.      *)
Opened(s) ==
  /\ videoStream' = s /\ videoSt' /\ pktSerial' = -1 /\ finished' = 0 /\ pkt' = None
  /\ held' = <<>> /\ ~draining' /\ ~abort' /\ serial' = serial + 1
  /\ packets' = Append(packets, [kind |-> "flush", at |-> 0, serial |-> serial'])
  /\ decAt' \in {"top", "none"}

NotOpened ==
  /\ videoStream' = -1 /\ ~videoSt'
  /\ UNCHANGED <<packets, serial, abort, decAt, pkt, pktSerial, finished, held, draining>>

LEMMA OpenCases ==
  ASSUME NEW s, OpenComponent(s)
  PROVE  lastStream' = s /\ frame' = frame /\ eof' \in {eof, FALSE} /\ (Opened(s) \/ NotOpened)
BY DEF OpenComponent, Opened, NotOpened, queueVars

LEMMA OpenType ==
  ASSUME TypeOK, CountInv, NEW s \in Streams, OpenComponent(s), readAt = "open" \/ Reopening
  PROVE  /\ packets' \in Seq(Packets) /\ serial' \in Serials /\ abort' \in BOOLEAN
         /\ decAt' \in DecPlaces
         /\ pkt' \in Packets \cup {None} /\ pktSerial' \in Serials \cup {-1}
         /\ finished' \in Serials /\ held' \in Seq(Places) /\ draining' \in BOOLEAN
         /\ frame' \in Pictures \cup {None}
         /\ videoStream' \in Streams \cup {-1} /\ videoSt' \in BOOLEAN
         /\ lastStream' \in Streams
<1>1. /\ packets \in Seq(Packets) /\ serial \in Serials /\ abort \in BOOLEAN /\ decAt \in DecPlaces
      /\ pkt \in Packets \cup {None} /\ pktSerial \in Serials \cup {-1}
      /\ finished \in Serials /\ held \in Seq(Places) /\ draining \in BOOLEAN
      /\ frame \in Pictures \cup {None}
  BY DEF TypeOK, StreamType, DecoderType
<1>2. CASE Opened(s)
  <2>1. serial' \in Serials /\ 0 \in Serials
    BY <1>2, SerialBound, Constants, SerialRange DEF Opened
  <2>2. [kind |-> "flush", at |-> 0, serial |-> serial'] \in Packets
    BY <2>1, Constants, SerialRange DEF Packets
  <2>3. packets' \in Seq(Packets)
    BY <1>1, <1>2, <2>2, AppendElements DEF Opened
  <2>4. held' \in Seq(Places)
    BY <1>2 DEF Opened
  <2>5. abort' \in BOOLEAN /\ draining' \in BOOLEAN /\ videoSt' \in BOOLEAN
    BY <1>2 DEF OpenComponent, Opened
  <2> QED BY <1>1, <1>2, <2>1, <2>3, <2>4, <2>5, OpenCases DEF Opened, DecPlaces
<1>3. CASE NotOpened
  <2>1. videoSt' \in BOOLEAN
    BY <1>3 DEF OpenComponent, NotOpened
  <2> QED BY <1>1, <1>3, <2>1, OpenCases DEF NotOpened
<1> QED BY <1>2, <1>3, OpenCases

-----------------------------------------------------------------------------
(* What each thread leaves alone; a stream that is opened clears eof.      *)

ReadRest    == UNCHANGED <<file, readAt, pos, loop, seekReq, seekPos>> /\ eof' \in {eof, FALSE}
StreamRest  == UNCHANGED <<videoStream, videoSt, lastStream, packets, serial, abort>>
DecoderRest == UNCHANGED <<decAt, pkt, pktSerial, finished, held, draining, frame>>
RingRest    == UNCHANGED <<queue, rindex, windex, size, rindexShown>>
MainRest    == UNCHANGED <<mainAt, dropping, vidclk, shown, keys, cycled, abortRequest>>

LEMMA ReaderRest ==
  ASSUME ReadThread
  PROVE  RingRest /\ MainRest
<1> USE DEF pictVars, showVars, userVars, exitVars, RingRest, MainRest
<1>1. CASE OpenFile \/ ReadLoop \/ FlushQueue \/ PutFlush
  BY <1>1 DEF OpenFile, ReadLoop, FlushQueue, PutFlush
<1>2. CASE Sought \/ IfFull \/ IfEnd \/ ReadFrame \/ WaitAfterError \/ SetEof
  BY <1>2 DEF Sought, IfFull, IfEnd, ReadFrame, FailedRead, MarkEnd, WaitAfterError, SetEof
<1>3. CASE PutNull \/ PutLast \/ ComparePacket \/ PutPacket
  BY <1>3 DEF PutNull, PutLast, ComparePacket, PutPacket
<1> QED BY <1>1, <1>2, <1>3 DEF ReadThread

(* Only opening the file touches the stream or the decoder, ...            *)
LEMMA ReaderStream ==
  ASSUME ReadThread, ~OpenFile
  PROVE  UNCHANGED <<videoStream, videoSt, lastStream, abort, pkt, pktSerial, finished, held,
                     draining, frame>>
<1> USE DEF streamVars, queueVars, decVars, codecVars
<1>1. CASE PutFlush \/ PutNull \/ PutLast \/ PutPacket
  BY <1>1, PutCases DEF PutFlush, PutNull, PutLast, PutPacket
<1>2. CASE ReadLoop \/ FlushQueue \/ Sought \/ IfFull
  BY <1>2 DEF ReadLoop, FlushQueue, Sought, IfFull
<1>3. CASE IfEnd \/ ReadFrame \/ WaitAfterError \/ SetEof \/ ComparePacket
  BY <1>3 DEF IfEnd, ReadFrame, FailedRead, MarkEnd, WaitAfterError, SetEof, ComparePacket
<1> QED BY <1>1, <1>2, <1>3 DEF ReadThread

(* ... and only a flush or a packet put touches videoq.                    *)
LEMMA ReaderQueue ==
  ASSUME ReadThread, ~OpenFile, ~FlushQueue, ~PutFlush, ~PutNull, ~PutLast, ~PutPacket
  PROVE  StreamRest /\ DecoderRest
<1> USE DEF streamVars, queueVars, decVars, codecVars, StreamRest, DecoderRest
<1>2. CASE ReadLoop \/ Sought \/ IfFull
  BY <1>2 DEF ReadLoop, Sought, IfFull
<1>3. CASE IfEnd \/ ReadFrame \/ WaitAfterError \/ SetEof \/ ComparePacket
  BY <1>3 DEF IfEnd, ReadFrame, FailedRead, MarkEnd, WaitAfterError, SetEof, ComparePacket
<1> QED BY <1>2, <1>3 DEF ReadThread

LEMMA DecoderLeaves ==
  ASSUME VideoThread
  PROVE  /\ ReadRest /\ MainRest
         /\ UNCHANGED <<videoStream, videoSt, lastStream, serial, abort, rindex, rindexShown,
                        paused, step, crashed>>
         /\ quit' = quit \/ (quit = "no" /\ quit' = "error")
<1> USE DEF readVars, seekVars, streamVars, queueVars, pictVars, showVars, userVars, exitVars,
            ReadRest, MainRest
<1>1. CASE DecodeTop \/ ReceiveFrame \/ GetPacket
  BY <1>1 DEF DecodeTop, ReceiveFrame, FilterFails, GetPacket
<1>2. CASE GotPacket \/ PeekWritable
  BY <1>2 DEF GotPacket, PeekWritable
<1>3. CASE WritePicture \/ FrameQueuePush
  BY <1>3 DEF WritePicture, FrameQueuePush
<1> QED BY <1>1, <1>2, <1>3 DEF VideoThread

LEMMA RefreshLeaves ==
  ASSUME Refresh \/ TooSoon
  PROVE  /\ ReadRest /\ StreamRest
         /\ UNCHANGED <<pkt, pktSerial, finished, held, draining, frame, windex, step, quit,
                        crashed, keys, cycled, abortRequest>>
<1> USE DEF readVars, seekVars, streamVars, queueVars, decVars, codecVars, pictVars, userVars,
            exitVars, ReadRest, StreamRest
<1>1. CASE VideoRefresh \/ TooSoon \/ TakePicture
  BY <1>1 DEF VideoRefresh, TooSoon, TakePicture
<1>2. CASE FrameQueueNext \/ FrameQueueLess \/ Display
  BY <1>2 DEF FrameQueueNext, FrameQueueLess, Display, showVars
<1> QED BY <1>1, <1>2 DEF Refresh

LEMMA UserLeaves ==
  ASSUME Key \/ CycleChannel \/ StreamClose
  PROVE  /\ StreamRest /\ DecoderRest /\ RingRest
         /\ UNCHANGED <<file, readAt, pos, eof, loop, dropping, vidclk, shown, quit, crashed>>
<1> USE DEF readVars, seekVars, streamVars, queueVars, decVars, codecVars, pictVars, showVars,
            userVars, exitVars, StreamRest, DecoderRest, RingRest
<1>1. CASE Key
  BY <1>1 DEF Key
<1>2. CASE CycleChannel \/ StreamClose
  BY <1>2 DEF CycleChannel, StreamClose
<1> QED BY <1>1, <1>2

LEMMA CloseLeaves ==
  ASSUME Close
  PROVE  /\ ReadRest /\ RingRest /\ frame' = frame
         /\ UNCHANGED <<dropping, vidclk, shown, paused, step, keys, cycled, abortRequest, quit>>
<1> USE DEF readVars, seekVars, streamVars, queueVars, decVars, codecVars, pictVars, showVars,
            userVars, exitVars, ReadRest, RingRest
<1>1. CASE JoinReader \/ Abort \/ Signal
  BY <1>1 DEF JoinReader, Abort, Signal
<1>2. CASE JoinDecoder \/ UnsetStream
  BY <1>2 DEF JoinDecoder, UnsetStream
<1>3. CASE OpenOther
  BY <1>3, OpenCases DEF OpenOther
<1> QED BY <1>1, <1>2, <1>3 DEF Close

(* Only the last three steps of a change of the stream touch the stream or *)
(* the decoder.                                                            *)
LEMMA CloseDecoder ==
  ASSUME Close, ~OpenOther
  PROVE  UNCHANGED <<lastStream, serial, pkt, pktSerial, finished, held, draining>>
<1> USE DEF streamVars, queueVars, decVars, codecVars
<1>1. CASE JoinReader \/ Abort \/ Signal
  BY <1>1 DEF JoinReader, Abort, Signal
<1>2. CASE JoinDecoder \/ UnsetStream
  BY <1>2 DEF JoinDecoder, UnsetStream
<1> QED BY <1>1, <1>2 DEF Close

LEMMA Steps ==
  ASSUME [Next]_vars
  PROVE  \/ ReadThread \/ VideoThread \/ Refresh \/ TooSoon
         \/ Key \/ CycleChannel \/ StreamClose \/ Close
         \/ /\ ReadRest /\ StreamRest /\ DecoderRest /\ RingRest /\ MainRest
            /\ UNCHANGED <<paused, step, quit, crashed>>
BY DEF Next, vars, readVars, seekVars, streamVars, queueVars, decVars, codecVars, pictVars,
       showVars, userVars, exitVars, ReadRest, StreamRest, DecoderRest, RingRest, MainRest

-----------------------------------------------------------------------------
(* The types.                                                              *)

LEMMA TypeKept ==
  /\ ReadType /\ ReadRest => ReadType'
  /\ StreamType /\ StreamRest => StreamType'
  /\ DecoderType /\ DecoderRest => DecoderType'
  /\ RingType /\ RingRest => RingType'
  /\ MainType /\ MainRest /\ UNCHANGED <<quit, paused, step, crashed>> => MainType'
BY DEF ReadType, StreamType, DecoderType, RingType, MainType, ReadRest, StreamRest, DecoderRest,
       RingRest, MainRest

LEMMA ReadTypeStep ==
  ASSUME Base, [Next]_vars
  PROVE  ReadType'
<1>0. ReadType
  BY DEF Base, TypeOK
<1> USE DEF readVars, seekVars
<1>1. CASE OpenFile \/ FlushQueue \/ PutFlush
  BY <1>0, <1>1, OpenCases DEF OpenFile, FlushQueue, PutFlush, ReadType
<1>2. CASE ReadLoop \/ Sought \/ IfFull
  BY <1>0, <1>2 DEF ReadLoop, Sought, IfFull, ReadType
<1>3. CASE IfEnd
  <2>1. loop' \in 1..Loops
    BY <1>0, <1>3, Constants DEF IfEnd, ReadType
  <2>3. seekReq \in BOOLEAN /\ seekPos \in 0..Length /\ 0 \in 0..Length
    BY <1>0, Constants DEF ReadType
  <2>2. seekReq' \in BOOLEAN /\ seekPos' \in 0..Length
    BY <1>3, <2>3 DEF IfEnd
  <2> QED BY <1>0, <1>3, <2>1, <2>2 DEF IfEnd, ReadType
<1>7. CASE ReadFrame \/ WaitAfterError \/ SetEof
  <2>2. pos \in 0..Length /\ Length \in Nat
    BY <1>0, Constants DEF ReadType
  <2>1. pos' \in 0..Length
    BY <1>7, <2>2 DEF ReadFrame, FailedRead, MarkEnd, WaitAfterError, SetEof
  <2> QED BY <1>0, <1>7, <2>1 DEF ReadFrame, FailedRead, MarkEnd, WaitAfterError, SetEof, ReadType
<1>4. CASE PutNull \/ PutLast \/ ComparePacket \/ PutPacket
  BY <1>0, <1>4 DEF PutNull, PutLast, ComparePacket, PutPacket, ReadType
<1>5. CASE Key
  BY <1>0, <1>5, Constants DEF Key, ReadType
<1>6. CASE CycleChannel \/ StreamClose
  BY <1>0, <1>6 DEF CycleChannel, StreamClose, ReadType
<1> QED
  BY <1>0, <1>1, <1>2, <1>3, <1>4, <1>5, <1>6, <1>7, Steps, DecoderLeaves, RefreshLeaves,
     CloseLeaves, TypeKept DEF ReadThread

LEMMA StreamTypeStep ==
  ASSUME Base, [Next]_vars
  PROVE  StreamType'
<1>0. StreamType /\ TypeOK /\ CountInv
  BY DEF Base, TypeOK
<1>1. CASE OpenFile
  <2>1. CASE OpenComponent(0)
    <3>1. 0 \in Streams /\ readAt = "open"
      BY <1>1 DEF Streams, OpenFile
    <3> QED BY <1>0, <2>1, <3>1, OpenType DEF StreamType
  <2>2. CASE ~OpenComponent(0)
    BY <1>0, <1>1, <2>2 DEF OpenFile, StreamType, queueVars
  <2> QED BY <2>1, <2>2
<1>2. CASE PutFlush \/ PutNull \/ PutLast \/ PutPacket
  <2>1. UNCHANGED <<videoStream, videoSt, lastStream>>
    BY <1>2 DEF PutFlush, PutNull, PutLast, PutPacket, streamVars
  <2>3. CASE PutFlush
    BY <1>0, <2>1, <2>3, PutType DEF PutFlush, StreamType, Base, PlaceInv
  <2>4. CASE PutNull \/ PutLast
    BY <1>0, <2>1, <2>4, PutType DEF PutNull, PutLast, StreamType
  <2>5. CASE PutPacket
    <3>1. pos \in Places
      BY <1>0, <2>5, Numbers, Constants DEF PutPacket, Base, PlaceInv, Places
    <3> QED BY <1>0, <2>1, <2>5, <3>1, PutType DEF PutPacket, StreamType, queueVars
  <2> QED BY <1>2, <2>3, <2>4, <2>5
<1>3. CASE FlushQueue
  <2>1. packets' \in Seq(Packets)
    BY <1>3, EmptyType DEF FlushQueue
  <2> QED BY <1>0, <1>3, <2>1 DEF FlushQueue, StreamType, streamVars
<1>4. CASE VideoThread
  <2>1. packets' \in Seq(Packets)
    <3>1. CASE GetPacket
      BY <1>0, <3>1, TailElements DEF GetPacket, StreamType
    <3>2. CASE ~GetPacket
      BY <1>0, <1>4, <3>2 DEF VideoThread, DecodeTop, ReceiveFrame, GotPacket, PeekWritable,
         WritePicture, FrameQueuePush, queueVars, StreamType
    <3> QED BY <3>1, <3>2
  <2> QED BY <1>0, <1>4, <2>1, DecoderLeaves DEF StreamType
<1>5. CASE Close /\ ~OpenOther
  <2>1. CASE JoinReader \/ Signal
    BY <1>0, <2>1 DEF JoinReader, Signal, streamVars, queueVars, StreamType
  <2>3. CASE Abort
    BY <1>0, <2>3 DEF Abort, streamVars, StreamType
  <2>2. CASE JoinDecoder \/ UnsetStream
    <3>1. packets' \in Seq(Packets)
      BY <1>0, <2>2, EmptyType DEF JoinDecoder, UnsetStream, queueVars, StreamType
    <3>2. CASE JoinDecoder
      BY <1>0, <3>1, <3>2 DEF JoinDecoder, StreamType
    <3>3. CASE UnsetStream
      BY <1>0, <3>1, <3>3 DEF UnsetStream, queueVars, StreamType
    <3> QED BY <2>2, <3>2, <3>3
  <2> QED BY <1>5, <2>1, <2>2, <2>3 DEF Close
<1>6. CASE OpenOther
  <2>1. 1 - lastStream \in Streams
    BY <1>0 DEF StreamType, Streams
  <2>2. mainAt = "open" /\ Reopening
    BY <1>6 DEF OpenOther, Base, PlaceInv, Reopening
  <2> QED BY <1>0, <1>6, <2>1, <2>2, OpenType DEF OpenOther, StreamType
<1> QED
  BY <1>0, <1>1, <1>2, <1>3, <1>4, <1>5, <1>6, Steps, ReaderQueue, RefreshLeaves, UserLeaves,
     TypeKept DEF Close

LEMMA DecoderTypeStep ==
  ASSUME Base, [Next]_vars
  PROVE  DecoderType'
<1>0. DecoderType /\ TypeOK /\ CountInv /\ StreamType
  BY DEF Base, TypeOK
<1>1. CASE OpenFile
  <2>1. CASE OpenComponent(0)
    <3>1. 0 \in Streams /\ readAt = "open"
      BY <1>1 DEF Streams, OpenFile
    <3> QED BY <1>0, <2>1, <3>1, OpenType DEF DecoderType
  <2>2. CASE ~OpenComponent(0)
    BY <1>0, <1>1, <2>2 DEF OpenFile, DecoderType, decVars, codecVars
  <2> QED BY <2>1, <2>2
<1>2. CASE PutFlush \/ PutNull \/ PutLast \/ PutPacket
  <2>1. UNCHANGED <<pkt, pktSerial, finished, held, draining, frame>>
    BY <1>2 DEF PutFlush, PutNull, PutLast, PutPacket, decVars, codecVars
  <2>2. decAt' \in DecPlaces
    BY <1>0, <1>2, PutCases DEF PutFlush, PutNull, PutLast, PutPacket, DecoderType, DecPlaces
  <2> QED BY <1>0, <2>1, <2>2 DEF DecoderType
<1>3. CASE FlushQueue
  BY <1>0, <1>3 DEF FlushQueue, DecoderType, decVars, codecVars
<1>4. CASE VideoThread
  <2>1. CASE DecodeTop \/ PeekWritable
    BY <1>0, <2>1 DEF DecodeTop, PeekWritable, DecoderType, DecPlaces, decVars, codecVars
  <2>2. CASE ReceiveFrame
    <3>1. decAt' \in DecPlaces /\ pkt' = pkt /\ pktSerial' = pktSerial
      BY <1>0, <2>2 DEF ReceiveFrame, FilterFails, DecPlaces
    <3>2. finished' \in Serials
      <4>1. pktSerial \in Serials
        BY <1>0, <2>2, SerialRange DEF ReceiveFrame, Base, DecoderInv, DecoderType
      <4> QED BY <1>0, <2>2, <4>1 DEF ReceiveFrame, DecoderType, codecVars
    <3>3. CASE UNCHANGED <<held, frame>>
      BY <1>0, <2>2, <3>1, <3>2, <3>3 DEF ReceiveFrame, DecoderType, codecVars
    <3>4. CASE held # <<>> /\ frame' = [serial |-> pktSerial, at |-> Head(held)] /\ held' = Tail(held)
      <4>1. held \in Seq(Places) /\ pktSerial \in Serials
        BY <1>0, <2>2, SerialRange DEF ReceiveFrame, Base, DecoderInv, DecoderType
      <4>2. Tail(held) \in Seq(Places) /\ Head(held) \in Places
        BY <3>4, <4>1, TailElements
      <4>3. frame' \in Pictures
        BY <3>4, <4>1, <4>2 DEF Pictures
      <4> QED BY <1>0, <2>2, <3>1, <3>2, <3>4, <4>2, <4>3 DEF ReceiveFrame, DecoderType, codecVars
    <3>5. Len(held) > Delay => held # <<>>
      BY Constants
    <3> QED BY <2>2, <3>3, <3>4, <3>5 DEF ReceiveFrame, codecVars
  <2>3. CASE GetPacket
    <3>1. CASE packets # <<>> /\ pkt' = Head(packets) /\ pktSerial' = pkt'.serial
      <4>1. pkt' \in Packets
        BY <1>0, <3>1, TailElements DEF StreamType
      <4>2. pktSerial' \in Serials
        BY <3>1, <4>1 DEF Packets
      <4> QED BY <1>0, <2>3, <4>1, <4>2 DEF GetPacket, DecoderType, DecPlaces, codecVars
    <3>2. CASE UNCHANGED <<pkt, pktSerial>>
      BY <1>0, <2>3, <3>2 DEF GetPacket, DecoderType, DecPlaces, codecVars
    <3> QED BY <2>3, <3>1, <3>2 DEF GetPacket
  <2>4. CASE GotPacket
    <3>1. pkt \in Packets
      BY <2>4 DEF GotPacket, Base, DecoderInv
    <3>2. finished' \in Serials
      BY <1>0, <2>4, SerialRange, Constants DEF GotPacket, Decode, DecoderType
    <3>3. draining' \in BOOLEAN
      BY <1>0, <2>4 DEF GotPacket, Decode, DecoderType
    <3>4. held' \in Seq(Places)
      <4>1. held' = held \/ held' = <<>> \/ (pkt.kind = "data" /\ held' = Append(held, pkt.at))
        BY <2>4, <3>1 DEF GotPacket, Decode, Packets
      <4>2. pkt.kind = "data" => pkt.at \in Places
        BY <3>1 DEF Packets
      <4>3. held \in Seq(Places)
        BY <1>0 DEF DecoderType
      <4> QED BY <4>1, <4>2, <4>3, EmptyType, AppendElements
    <3>5. pkt' = None /\ pktSerial' = pktSerial /\ frame' = frame /\ decAt' \in DecPlaces
      BY <2>4 DEF GotPacket, DecPlaces
    <3> QED BY <1>0, <3>2, <3>3, <3>4, <3>5 DEF DecoderType
  <2>5. CASE WritePicture \/ FrameQueuePush
    BY <1>0, <2>5 DEF WritePicture, FrameQueuePush, DecoderType, DecPlaces, decVars, codecVars
  <2> QED BY <1>4, <2>1, <2>2, <2>3, <2>4, <2>5 DEF VideoThread
<1>5. CASE Refresh \/ TooSoon
  <2>1. decAt' \in DecPlaces
    BY <1>0, <1>5 DEF Refresh, TooSoon, VideoRefresh, TakePicture, FrameQueueNext, FrameQueueLess,
       Display, Woken, DecoderType, DecPlaces
  <2> QED BY <1>0, <1>5, <2>1, RefreshLeaves DEF DecoderType
<1>6. CASE Close /\ ~OpenOther
  <2>1. decAt' \in DecPlaces
    BY <1>0, <1>6 DEF Close, JoinReader, Abort, Signal, JoinDecoder, UnsetStream, Woken,
       DecoderType, DecPlaces
  <2> QED BY <1>0, <1>6, <2>1, CloseLeaves, CloseDecoder DEF DecoderType
<1>7. CASE OpenOther
  <2>1. 1 - lastStream \in Streams
    BY <1>0 DEF StreamType, Streams
  <2>2. mainAt = "open" /\ Reopening
    BY <1>7 DEF OpenOther, Base, PlaceInv, Reopening
  <2> QED BY <1>0, <1>7, <2>1, <2>2, OpenType DEF OpenOther, DecoderType
<1> QED
  BY <1>0, <1>1, <1>2, <1>3, <1>4, <1>5, <1>6, <1>7, Steps, ReaderQueue, UserLeaves, TypeKept
  DEF Close

LEMMA RingTypeStep ==
  ASSUME Base, [Next]_vars
  PROVE  RingType'
<1>0. RingType
  BY DEF Base, TypeOK
<1>1. CASE WritePicture
  <2>1. queue' \in [0..PictQueue - 1 -> Pictures \cup {None}]
    BY <1>0, <1>1 DEF WritePicture, RingType, Base, TypeOK, DecoderType
  <2>2. windex' \in 0..PictQueue - 1
    BY <1>0, <1>1, Wrap, Constants DEF WritePicture, RingType
  <2> QED BY <1>0, <1>1, <2>1, <2>2 DEF WritePicture, RingType
<1>2. CASE FrameQueuePush
  <2>1. size' \in 0..PictQueue
    BY <1>0, <1>2, Constants DEF FrameQueuePush, RingType, Base, RingInv
  <2> QED BY <1>0, <1>2, <2>1 DEF FrameQueuePush, RingType
<1>3. CASE FrameQueueNext
  <2>1. queue' \in [0..PictQueue - 1 -> Pictures \cup {None}]
    BY <1>0, <1>3 DEF FrameQueueNext, RingType
  <2>2. rindex' \in 0..PictQueue - 1
    BY <1>0, <1>3, Wrap, Constants DEF FrameQueueNext, RingType
  <2> QED BY <1>0, <1>3, <2>1, <2>2 DEF FrameQueueNext, RingType
<1>4. CASE FrameQueueLess
  <2>1. size' \in 0..PictQueue
    BY <1>0, <1>4, Constants DEF FrameQueueLess, RingType, Base, RingInv
  <2> QED BY <1>0, <1>4, <2>1 DEF FrameQueueLess, RingType
<1>5. CASE VideoRefresh \/ TakePicture \/ Display \/ TooSoon
  BY <1>0, <1>5, TypeKept
  DEF VideoRefresh, TakePicture, Display, TooSoon, pictVars, RingRest
<1>6. CASE DecodeTop \/ ReceiveFrame \/ GetPacket \/ GotPacket \/ PeekWritable
  BY <1>0, <1>6, TypeKept
  DEF DecodeTop, ReceiveFrame, GetPacket, GotPacket, PeekWritable, pictVars, RingRest
<1> QED
  BY <1>0, <1>1, <1>2, <1>3, <1>4, <1>5, <1>6, Steps, ReaderRest, UserLeaves, CloseLeaves, TypeKept
  DEF Refresh, VideoThread

LEMMA MainTypeStep ==
  ASSUME Base, [Next]_vars
  PROVE  MainType'
<1>0. MainType /\ ReadType /\ TypeOK
  BY DEF Base, TypeOK
<1>1. CASE ReadThread
  <2>1. /\ quit' \in {"no", "error", "end"}
        /\ paused' \in BOOLEAN /\ step' \in BOOLEAN /\ crashed' \in BOOLEAN
    <3>1. CASE OpenFile
      BY <1>0, <3>1 DEF OpenFile, userVars, MainType
    <3>2. CASE ReadLoop \/ FlushQueue \/ PutFlush \/ IfFull \/ ReadFrame \/ WaitAfterError
               \/ SetEof \/ PutNull \/ PutLast \/ ComparePacket
      BY <1>0, <3>2 DEF ReadLoop, FlushQueue, PutFlush, IfFull, ReadFrame, FailedRead, MarkEnd,
         WaitAfterError, SetEof, PutNull, PutLast, ComparePacket, userVars, exitVars, MainType
    <3>3. CASE Sought \/ IfEnd \/ PutPacket
      BY <1>0, <3>3 DEF Sought, IfEnd, PutPacket, userVars, exitVars, MainType
    <3> QED BY <1>1, <3>1, <3>2, <3>3 DEF ReadThread
  <2> QED BY <1>0, <1>1, <2>1, ReaderRest DEF MainType, MainRest
<1>2. CASE Refresh \/ TooSoon
  <2>1. mainAt' \in MainPlaces /\ dropping' \in BOOLEAN /\ paused' \in BOOLEAN
    BY <1>0, <1>2 DEF Refresh, TooSoon, VideoRefresh, TakePicture, FrameQueueNext, FrameQueueLess,
       Display, AfterNext, showVars, userVars, MainType, MainPlaces
  <2>2. vidclk' \in Serials \cup {-1}
    <3>1. CASE TakePicture
      <4>1. rindexShown \in 0..InRing - 1 /\ Peek = At(rindexShown)
        BY <1>0, <3>1, Numbers DEF TakePicture, Base, RingInv, InRing, Bit, Peek, At
      <4>2. Peek \in Pictures
        BY <4>1 DEF Base, RingInv
      <4> QED BY <3>1, <4>2 DEF TakePicture, Pictures
    <3> QED BY <1>0, <1>2, <3>1 DEF Refresh, TooSoon, VideoRefresh, FrameQueueNext, FrameQueueLess,
            Display, showVars, MainType
  <2>3. shown' \in Pictures \cup {None}
    <3>1. CASE Display
      BY <1>0, <3>1, Numbers DEF Display, Base, TypeOK, RingType
    <3> QED BY <1>0, <1>2, <3>1 DEF Refresh, TooSoon, VideoRefresh, TakePicture, FrameQueueNext,
            FrameQueueLess, showVars, MainType
  <2> QED BY <1>0, <1>2, <2>1, <2>2, <2>3, RefreshLeaves DEF MainType
<1>3. CASE Key \/ CycleChannel \/ StreamClose
  <2>1. keys' \in 0..MaxKeys
    BY <1>0, <1>3, Constants DEF Key, CycleChannel, StreamClose, userVars, MainType
  <2>2. /\ mainAt' \in MainPlaces /\ paused' \in BOOLEAN /\ step' \in BOOLEAN /\ cycled' \in BOOLEAN
        /\ abortRequest' \in BOOLEAN
    BY <1>0, <1>3 DEF Key, CycleChannel, StreamClose, userVars, exitVars, MainType, MainPlaces
  <2> QED BY <1>0, <1>3, <2>1, <2>2, UserLeaves DEF MainType
<1>4. CASE Close
  <2>1. mainAt' \in MainPlaces /\ crashed' \in BOOLEAN
    BY <1>0, <1>4 DEF Close, JoinReader, Abort, Signal, JoinDecoder, UnsetStream, OpenOther,
       exitVars, MainType, MainPlaces
  <2> QED BY <1>0, <1>4, <2>1, CloseLeaves DEF MainType
<1>5. CASE VideoThread
  BY <1>0, <1>5, DecoderLeaves DEF MainType, MainRest
<1> QED BY <1>0, <1>1, <1>2, <1>3, <1>4, <1>5, Steps, TypeKept

LEMMA TypeStep == Base /\ [Next]_vars => TypeOK'
BY ReadTypeStep, StreamTypeStep, DecoderTypeStep, RingTypeStep, MainTypeStep DEF TypeOK

-----------------------------------------------------------------------------
(* The bound of the serials.                                               *)

LEMMA CountStep ==
  ASSUME Base, [Next]_vars
  PROVE  CountInv'
<1>0. /\ CountInv /\ PlaceInv /\ serial \in Nat
      /\ loop \in 1..Loops /\ Loops \in Nat /\ keys \in 0..MaxKeys
      /\ MaxKeys \in Nat
  BY Numbers, Constants DEF Base
<1> USE DEF CountInv, Bit, Reopening, readVars, seekVars, queueVars, userVars, exitVars
<1>1. CASE OpenFile
  <2>1. /\ readAt = "open" /\ readAt' # "open" /\ readAt' # "sought"
        /\ UNCHANGED <<seekReq, loop, keys, mainAt, abortRequest>>
        /\ serial' = serial \/ serial' = serial + 1
    BY <1>1, OpenCases DEF OpenFile, Opened, NotOpened
  <2> QED BY <1>0, <2>1
<1>2. CASE ReadLoop \/ FlushQueue \/ IfFull
  BY <1>0, <1>2 DEF ReadLoop, FlushQueue, IfFull
<1>3. CASE ReadFrame \/ WaitAfterError \/ SetEof \/ PutNull \/ PutLast \/ ComparePacket \/ PutPacket
  <2>3. PutNull \/ PutLast => serial' = serial
    BY PutCases, "null" # "flush" DEF PutNull, PutLast
  <2>4. PutPacket => serial' = serial
    BY PutCases, "data" # "flush" DEF PutPacket
  <2>1. serial' = serial
    BY <1>3, <2>3, <2>4 DEF ReadFrame, FailedRead, MarkEnd, WaitAfterError, SetEof, ComparePacket
  <2>2. /\ UNCHANGED <<seekReq, loop, keys, mainAt, abortRequest>>
        /\ readAt \notin {"open", "sought"} /\ readAt' \notin {"open", "sought"}
    BY <1>3 DEF ReadFrame, FailedRead, MarkEnd, WaitAfterError, SetEof, PutNull, PutLast, ComparePacket,
       PutPacket
  <2> QED BY <1>0, <2>1, <2>2
<1>4. CASE PutFlush
  <2>1. serial' = serial \/ serial' = serial + 1
    BY <1>4, PutCases DEF PutFlush
  <2> QED BY <1>0, <1>4, <2>1 DEF PutFlush, PlaceInv
<1>5. CASE Sought
  BY <1>0, <1>5 DEF Sought
<1>6. CASE IfEnd
  BY <1>0, <1>6 DEF IfEnd
<1>7. CASE VideoThread
  BY <1>0, <1>7, DecoderLeaves DEF ReadRest, MainRest
<1>8. CASE Refresh \/ TooSoon
  <2>1. ~Reopening /\ ~Reopening'
    BY <1>8 DEF Refresh, TooSoon, VideoRefresh, TakePicture, FrameQueueNext, FrameQueueLess,
       Display, AfterNext
  <2>2. UNCHANGED <<serial, readAt, seekReq, loop, keys>>
    BY <1>8, RefreshLeaves DEF ReadRest, StreamRest
  <2> QED BY <1>0, <2>1, <2>2
<1>9. CASE Key \/ CycleChannel \/ StreamClose
  BY <1>0, <1>9, UserLeaves DEF Key, CycleChannel, StreamClose, StreamRest
<1>10. CASE Close /\ ~OpenOther
  <2>1. Reopening' => Reopening
    BY <1>0, <1>10 DEF Close, JoinReader, Abort, Signal, JoinDecoder, UnsetStream, PlaceInv
  <2> QED BY <1>0, <1>10, <2>1, CloseLeaves, CloseDecoder DEF ReadRest
<1>11. CASE OpenOther
  <2>1. mainAt = "open" /\ mainAt' = "events" /\ ~abortRequest
    BY <1>0, <1>11 DEF OpenOther, PlaceInv
  <2>2. serial' = serial \/ serial' = serial + 1
    BY <1>11, OpenCases DEF OpenOther, Opened, NotOpened
  <2>3. UNCHANGED <<readAt, seekReq, loop, keys>>
    BY <1>11, CloseLeaves DEF ReadRest, Close
  <2> QED BY <1>0, <2>1, <2>2, <2>3
<1>12. CASE ReadRest /\ StreamRest /\ MainRest
  BY <1>0, <1>12 DEF ReadRest, StreamRest, MainRest
<1> QED
  BY <1>1, <1>2, <1>3, <1>4, <1>5, <1>6, <1>7, <1>8, <1>9, <1>10, <1>11, <1>12, Steps
  DEF ReadThread, Close

-----------------------------------------------------------------------------
(* Where the threads are.                                                  *)

(* A thread that is waited for has left its stream alone.                  *)
LEMMA PlaceKept ==
  ASSUME PlaceInv, ReadRest, StreamRest, DecoderRest, MainRest, UNCHANGED quit
  PROVE  PlaceInv'
BY DEF PlaceInv, Closed, ReadRest, StreamRest, DecoderRest, MainRest

LEMMA PlaceStep ==
  ASSUME Base, [Next]_vars
  PROVE  PlaceInv'
<1>0. PlaceInv /\ serial \in Nat /\ pos \in 0..Length /\ Length \in Nat
  BY Numbers, Constants DEF Base
<1> USE DEF PlaceInv, Closed, readVars, seekVars, queueVars, streamVars, userVars, exitVars
<1>1. CASE OpenFile
  <2>1. MainRest /\ seekReq' = seekReq /\ pos' = pos
    BY <1>1, ReaderRest DEF OpenFile, ReadThread
  <2>2. /\ Closed /\ serial = 0 /\ mainAt \in {"events", "joinReader"}
        /\ readAt' \in {"loop", "ended"} /\ UNCHANGED <<mainAt, cycled, abortRequest>>
    BY <1>0, <1>1, <2>1 DEF OpenFile, MainRest
  <2>3. CASE Opened(0)
    <3>1. serial' > 0 /\ videoStream' = 0 /\ ~abort'
      BY <2>2, <2>3 DEF Opened
    <3> QED BY <1>0, <2>1, <2>2, <3>1
  <2>4. CASE NotOpened
    <3>1. Closed' /\ readAt' = "ended"
      BY <1>1, <2>2, <2>4 DEF OpenFile, NotOpened
    <3> QED BY <1>0, <2>1, <2>2, <3>1
  <2>5. CASE ~OpenComponent(0)
    <3>1. readAt' = "ended" /\ UNCHANGED <<videoSt, packets, serial, abort, decAt>>
      BY <1>1, <2>5 DEF OpenFile
    <3>2. Closed'
      BY <2>2, <3>1
    <3> QED BY <1>0, <2>1, <2>2, <3>1, <3>2
  <2> QED BY <2>3, <2>4, <2>5, OpenCases
<1>2. CASE ReadLoop
  BY <1>0, <1>2 DEF ReadLoop
<1>3. CASE FlushQueue
  BY <1>0, <1>3 DEF FlushQueue
<1>4. CASE PutFlush \/ PutNull \/ PutLast \/ PutPacket
  <2>1. /\ MainRest /\ UNCHANGED <<videoStream, videoSt, lastStream, seekReq, pos, quit>>
        /\ readAt \notin {"open", "ended"} /\ readAt' \in {"sought", "loop", "setEof", "ended"}
    BY <1>4, ReaderRest DEF PutFlush, PutNull, PutLast, PutPacket, ReadThread
  <2>2. /\ abort' = abort /\ (abort => UNCHANGED <<packets, decAt>>)
        /\ serial' = serial \/ serial' = serial + 1
    BY <1>4, PutCases DEF PutFlush, PutNull, PutLast, PutPacket
  <2> QED BY <1>0, <2>1, <2>2 DEF MainRest
<1>5. CASE Sought \/ IfFull
  BY <1>0, <1>5 DEF Sought, IfFull
<1>6. CASE IfEnd
  BY <1>0, <1>6 DEF IfEnd
<1>7. CASE ReadFrame \/ WaitAfterError \/ SetEof
  BY <1>0, <1>7 DEF ReadFrame, FailedRead, MarkEnd, WaitAfterError, SetEof
<1>8. CASE ComparePacket
  BY <1>0, <1>8 DEF ComparePacket
<1>9. CASE VideoThread
  <2>1. decAt # "none" /\ (abort \/ packets = <<>> => TRUE)
    BY <1>9 DEF VideoThread, DecodeTop, ReceiveFrame, GetPacket, GotPacket, PeekWritable,
       WritePicture, FrameQueuePush
  <2> QED BY <1>0, <1>9, <2>1, DecoderLeaves DEF ReadRest, MainRest
<1>10. CASE Refresh \/ TooSoon
  <2>1. /\ mainAt' \in {"events", "retry", "peeked", "next", "less", "display"}
        /\ mainAt \in {"events", "retry", "peeked", "next", "less", "display"}
        /\ mainAt' # "events" \/ videoSt \/ mainAt # "events"
    BY <1>10 DEF Refresh, TooSoon, VideoRefresh, TakePicture, FrameQueueNext, FrameQueueLess,
       Display, AfterNext
  <2>2. decAt = "none" => decAt' = "none"
    BY <1>10 DEF Refresh, TooSoon, VideoRefresh, TakePicture, FrameQueueNext, FrameQueueLess,
       Display, Woken
  <2>3. readAt # "open"
    BY <1>0, <1>10 DEF Refresh, TooSoon, VideoRefresh, TakePicture, FrameQueueNext, FrameQueueLess,
       Display
  <2>4. UNCHANGED <<readAt, pos, seekReq, videoStream, videoSt, packets, serial, abort, cycled,
                    abortRequest>>
    BY <1>10, RefreshLeaves DEF ReadRest, StreamRest
  <2> QED BY <1>0, <1>10, <2>1, <2>2, <2>3, <2>4
<1>11. CASE Key
  BY <1>0, <1>11, UserLeaves DEF Key, StreamRest, DecoderRest
<1>17. CASE CycleChannel
  <2>1. /\ mainAt = "events" /\ shown # None /\ cycled' /\ UNCHANGED <<seekReq, abortRequest>>
        /\ mainAt' = IF videoStream >= 0 THEN "abort" ELSE "open"
    BY <1>17 DEF CycleChannel
  <2>2. videoStream < 0 \/ videoStream >= 0
    BY DEF Base, TypeOK, StreamType, Streams
  <2> QED BY <1>0, <1>17, <2>1, <2>2, UserLeaves DEF StreamRest, DecoderRest
<1>12. CASE StreamClose
  <2>1. /\ mainAt = "events" /\ abortRequest' /\ mainAt' = "joinReader" /\ UNCHANGED <<seekReq, cycled>>
    BY <1>12 DEF StreamClose
  <2> QED BY <1>0, <1>12, <2>1, UserLeaves DEF StreamRest, DecoderRest
<1>13. CASE JoinReader
  BY <1>0, <1>13 DEF JoinReader
<1>14. CASE Abort \/ Signal
  BY <1>0, <1>14 DEF Abort, Signal, Woken
<1>15. CASE JoinDecoder \/ UnsetStream
  BY <1>0, <1>15 DEF JoinDecoder, UnsetStream
<1>16. CASE OpenOther
  <2>1. /\ mainAt = "open" /\ mainAt' = "events" /\ Closed /\ ~abortRequest /\ cycled
        /\ UNCHANGED <<readAt, seekReq, pos, shown, quit, cycled, abortRequest>>
    BY <1>0, <1>16, CloseLeaves DEF OpenOther, ReadRest, Close
  <2>2. CASE Opened(1 - lastStream)
    <3>1. serial' > 0 /\ ~(videoStream' < 0) /\ ~abort'
      BY <1>0, <2>2 DEF Opened, Base, TypeOK, StreamType, Streams
    <3> QED BY <1>0, <2>1, <3>1
  <2>3. CASE NotOpened
    <3>1. Closed'
      BY <2>1, <2>3 DEF NotOpened
    <3> QED BY <1>0, <2>1, <3>1
  <2> QED BY <1>16, <2>2, <2>3, OpenCases DEF OpenOther
<1> QED
  BY <1>0, <1>1, <1>2, <1>3, <1>4, <1>5, <1>6, <1>7, <1>8, <1>9, <1>10, <1>11, <1>12, <1>13, <1>14,
     <1>15, <1>16, <1>17, Steps, PlaceKept DEF ReadThread, Close

-----------------------------------------------------------------------------
(* videoq.                                                                 *)

(* What a step may do to videoq.                                           *)
QueueSame ==
  /\ packets' = packets /\ serial' = serial /\ pktSerial' = pktSerial
  /\ abort' = abort \/ abort'
  /\ readAt' = readAt \/ readAt' # "putFlush"
  /\ readAt = "putFlush" => abort \/ readAt' = readAt

QueueEmptied ==
  /\ packets' = <<>> /\ serial' = serial /\ pktSerial' = pktSerial
  /\ abort' = abort /\ (abort \/ readAt' = "putFlush")

QueuePut(kind, at) ==
  /\ ~abort /\ ~abort' /\ pktSerial' = pktSerial /\ readAt' \notin {"putFlush", "queue"}
  /\ serial' = IF kind = "flush" THEN serial + 1 ELSE serial
  /\ packets' = Append(packets, [kind |-> kind, at |-> at, serial |-> serial'])

NullPut ==
  /\ QueuePut("null", 0)
  /\ readAt = "putNull" \/ (readAt = "putLast" /\ readAt' = "ended")

QueueGot ==
  /\ decAt = "get" /\ decAt' = "got" /\ pkt' = Head(packets)
  /\ packets # <<>> /\ packets' = Tail(packets) /\ serial' = serial
  /\ pktSerial' = Head(packets).serial
  /\ ~abort /\ abort' = abort /\ readAt' = readAt

QueueOpened ==
  /\ packets = <<>> /\ serial' = serial + 1 /\ pktSerial' = -1 /\ abort /\ ~abort'
  /\ packets' = <<[kind |-> "flush", at |-> 0, serial |-> serial']>>

LEMMA QueueSteps ==
  ASSUME Base, [Next]_vars
  PROVE  \/ QueueSame \/ QueueEmptied \/ QueueGot \/ QueueOpened
         \/ readAt = "putFlush" /\ QueuePut("flush", 0)
         \/ NullPut
         \/ readAt = "queue" /\ QueuePut("data", pos)
<1> USE DEF queueVars, decVars, codecVars
<1>0. PlaceInv
  BY DEF Base
<1>1. CASE OpenFile
  <2>1. packets = <<>> /\ abort /\ readAt = "open" /\ readAt' \in {"loop", "ended"}
    BY <1>0, <1>1 DEF OpenFile, PlaceInv, Closed
  <2>2. CASE Opened(0)
    BY <2>1, <2>2 DEF Opened, QueueOpened
  <2>3. CASE NotOpened
    BY <2>1, <2>3 DEF NotOpened, QueueSame
  <2>4. CASE ~OpenComponent(0)
    BY <1>1, <2>1, <2>4 DEF OpenFile, QueueSame
  <2> QED BY <2>2, <2>3, <2>4, OpenCases
<1>2. CASE FlushQueue
  BY <1>2 DEF FlushQueue, QueueEmptied
<1>3. CASE PutFlush
  BY <1>3, PutCases DEF PutFlush, QueueSame, QueuePut
<1>4. CASE PutNull \/ PutLast
  BY <1>4, PutCases DEF PutNull, PutLast, QueueSame, QueuePut, NullPut
<1>5. CASE PutPacket
  BY <1>5, PutCases DEF PutPacket, QueueSame, QueuePut
<1>6. CASE ReadLoop \/ Sought \/ IfFull \/ IfEnd \/ ReadFrame \/ WaitAfterError \/ SetEof
           \/ ComparePacket
  <2>1. StreamRest /\ DecoderRest
    BY <1>6, ReaderQueue
    DEF ReadThread, ReadLoop, Sought, IfFull, IfEnd, ReadFrame, FailedRead, MarkEnd, WaitAfterError,
        SetEof, ComparePacket, OpenFile, FlushQueue, PutFlush, PutNull, PutLast, PutPacket
  <2>2. readAt # "putFlush" /\ readAt' # "putFlush"
    BY <1>6 DEF ReadLoop, Sought, IfFull, IfEnd, ReadFrame, FailedRead, MarkEnd, WaitAfterError, SetEof,
       ComparePacket
  <2> QED BY <2>1, <2>2 DEF QueueSame, StreamRest, DecoderRest
<1>7. CASE VideoThread /\ ~GetPacket
  <2>1. packets' = packets /\ pktSerial' = pktSerial
    BY <1>7 DEF VideoThread, DecodeTop, ReceiveFrame, GotPacket, PeekWritable, WritePicture,
       FrameQueuePush
  <2> QED BY <1>7, <2>1, DecoderLeaves DEF QueueSame, ReadRest
<1>8. CASE GetPacket
  <2>1. readAt' = readAt /\ serial' = serial /\ abort' = abort
    BY <1>8, DecoderLeaves DEF VideoThread, ReadRest
  <2> QED BY <1>8, <2>1 DEF GetPacket, QueueSame, QueueGot
<1>9. CASE Refresh \/ TooSoon \/ Key \/ CycleChannel \/ StreamClose
  BY <1>9, RefreshLeaves, UserLeaves DEF QueueSame, ReadRest, StreamRest, DecoderRest
<1>10. CASE Close
  <2>1. readAt' = readAt
    BY <1>10, CloseLeaves DEF ReadRest
  <2>2. CASE JoinReader \/ Signal \/ UnsetStream
    BY <2>1, <2>2 DEF JoinReader, Signal, UnsetStream, QueueSame
  <2>3. CASE Abort
    BY <2>1, <2>3 DEF Abort, QueueSame
  <2>4. CASE JoinDecoder
    BY <1>0, <2>1, <2>4 DEF JoinDecoder, QueueEmptied, PlaceInv
  <2>5. CASE OpenOther
    <3>1. packets = <<>> /\ abort
      BY <1>0, <2>5 DEF OpenOther, PlaceInv, Closed
    <3>2. CASE Opened(1 - lastStream)
      BY <3>1, <3>2 DEF Opened, QueueOpened
    <3>3. CASE NotOpened
      BY <2>1, <3>1, <3>3 DEF NotOpened, QueueSame
    <3> QED BY <2>5, <3>2, <3>3, OpenCases DEF OpenOther
  <2> QED BY <1>10, <2>2, <2>3, <2>4, <2>5 DEF Close
<1>11. CASE ReadRest /\ StreamRest /\ DecoderRest
  BY <1>11 DEF QueueSame, ReadRest, StreamRest, DecoderRest
<1> QED
  BY <1>1, <1>2, <1>3, <1>4, <1>5, <1>6, <1>7, <1>8, <1>9, <1>10, <1>11, Steps DEF ReadThread

LEMMA QueueTypes ==
  ASSUME TypeOK
  PROVE  /\ packets \in Seq(Packets) /\ Len(packets) \in Nat
         /\ serial \in Nat /\ pktSerial \in Int
         /\ \A k \in 1..Len(packets) : packets[k] \in Packets /\ packets[k].serial \in Nat
<1>1. packets \in Seq(Packets)
  BY DEF TypeOK, StreamType
<1>2. \A k \in 1..Len(packets) : packets[k] \in Packets
  BY <1>1
<1>3. \A p \in Packets : p.serial \in Nat
  BY SerialRange DEF Packets
<1> QED BY <1>1, <1>2, <1>3, Numbers

(* A packet is put behind the others, ...                                  *)
LEMMA QueuePutStep ==
  ASSUME Base, NEW kind, NEW at, QueuePut(kind, at),
         kind = "flush" => \A i \in 1..Len(packets) : packets[i].kind = "flush",
         kind # "flush" => pktSerial = serial \/ FlushWaits(packets, serial, Len(packets))
  PROVE  QueueInv'
<1> DEFINE n == Len(packets)
           p == [kind |-> kind, at |-> at, serial |-> serial']
<1>1. QueueInv /\ pktSerial <= serial
  BY DEF Base, DecoderInv
<1>2. /\ n \in Nat /\ serial \in Nat /\ pktSerial \in Int
      /\ \A k \in 1..n : packets[k].serial \in Nat
  BY QueueTypes DEF Base
<1>3. Len(packets') = n + 1 /\ packets'[n + 1] = p /\ \A i \in 1..n : packets'[i] = packets[i]
  <2>1. packets \in Seq(Packets \cup {p}) /\ p \in Packets \cup {p}
    BY QueueTypes DEF Base
  <2> QED BY <2>1, AppendElements DEF QueuePut
<1>4. /\ pktSerial' = pktSerial /\ ~abort /\ readAt' # "putFlush"
      /\ serial' = IF kind = "flush" THEN serial + 1 ELSE serial
  BY DEF QueuePut
<1>5. p.kind = kind /\ p.serial = serial'
  OBVIOUS
<1> HIDE DEF n, p
<1>6. FlushWaits(packets, serial, n) /\ serial' = serial =>
        FlushWaits(packets', serial', n + 1) /\ FlushWaits(packets', serial', n)
  BY <1>2, <1>3 DEF FlushWaits
<1>7. ASSUME NEW i \in 1..(n + 1)
      PROVE  /\ pktSerial' <= packets'[i].serial /\ packets'[i].serial <= serial'
             /\ packets'[i].kind = "flush" => pktSerial' < packets'[i].serial
             /\ packets'[i].kind # "flush" =>
                  packets'[i].serial = serial' /\ (pktSerial' = serial' \/ FlushWaits(packets', serial', i))
  <2>1. CASE i = n + 1
    BY <1>1, <1>2, <1>3, <1>4, <1>5, <1>6, <2>1 DEF n
  <2>2. CASE i \in 1..n
    <3>1. FlushWaits(packets, serial, i) /\ serial' = serial => FlushWaits(packets', serial', i)
      BY <1>2, <1>3, <2>2 DEF FlushWaits
    <3>2. packets'[i] = packets[i] /\ (kind = "flush" => packets[i].kind = "flush")
      BY <1>3, <2>2 DEF n
    <3>3. /\ pktSerial <= packets[i].serial /\ packets[i].serial <= serial
          /\ packets[i].kind = "flush" => pktSerial < packets[i].serial
          /\ packets[i].kind # "flush" =>
               packets[i].serial = serial /\ (pktSerial = serial \/ FlushWaits(packets, serial, i))
      BY <1>1, <2>2 DEF QueueInv, n
    <3> QED BY <1>2, <1>4, <2>2, <3>1, <3>2, <3>3
  <2> QED BY <1>2, <2>1, <2>2
<1>8. ASSUME NEW i \in 1..(n + 1), NEW j \in 1..(n + 1), i < j
      PROVE  /\ packets'[i].serial <= packets'[j].serial
             /\ packets'[j].kind = "flush" => packets'[i].serial < packets'[j].serial
  <2>0. i \in 1..n /\ packets'[i] = packets[i] /\ packets[i].serial <= serial
    BY <1>1, <1>2, <1>3, <1>8 DEF QueueInv, n
  <2>1. CASE j = n + 1
    BY <1>2, <1>3, <1>4, <1>5, <2>0, <2>1
  <2>2. CASE j \in 1..n
    BY <1>1, <1>3, <1>8, <2>0, <2>2 DEF QueueInv, n
  <2> QED BY <1>2, <2>1, <2>2
<1>9. pktSerial' = serial' \/ FlushWaits(packets', serial', n + 1)
  BY <1>2, <1>3, <1>4, <1>5, <1>6 DEF FlushWaits, n
<1> QED BY <1>3, <1>4, <1>7, <1>8, <1>9 DEF QueueInv

(* ... and the first one is taken.                                         *)
LEMMA QueueGotStep ==
  ASSUME Base, QueueGot
  PROVE  QueueInv'
<1> DEFINE n == Len(packets)
<1>1. QueueInv
  BY DEF Base
<1>2. /\ n \in Nat /\ serial \in Nat /\ pktSerial \in Int
      /\ \A k \in 1..n : packets[k].serial \in Nat
  BY QueueTypes DEF Base
<1>3. /\ Len(packets') = n - 1 /\ n > 0 /\ pktSerial' = packets[1].serial
      /\ \A i \in 1..n - 1 : packets'[i] = packets[i + 1]
  BY QueueTypes, TailElements DEF QueueGot, Base
<1>4. serial' = serial /\ ~abort /\ readAt' = readAt
  BY DEF QueueGot
<1> HIDE DEF n
<1>5. 1 \in 1..n /\ pktSerial <= packets[1].serial /\ packets[1].serial <= serial
  BY <1>1, <1>2, <1>3 DEF QueueInv, n
<1>6. ASSUME NEW i \in 0..n - 1, pktSerial = serial \/ FlushWaits(packets, serial, i + 1)
      PROVE  pktSerial' = serial' \/ FlushWaits(packets', serial', i)
  <2>1. CASE pktSerial = serial
    BY <1>2, <1>3, <1>4, <1>5, <2>1
  <2>2. CASE FlushWaits(packets, serial, i + 1)
    <3>1. PICK j \in 1..(i + 1) : packets[j].kind = "flush" /\ packets[j].serial = serial
      BY <2>2 DEF FlushWaits
    <3>2. CASE j = 1
      BY <1>3, <1>4, <3>1, <3>2
    <3>3. CASE j # 1
      <4>1. j - 1 \in 1..i /\ packets'[j - 1] = packets[(j - 1) + 1] /\ (j - 1) + 1 = j
        BY <1>2, <1>3, <3>1, <3>3
      <4> QED BY <1>4, <3>1, <4>1 DEF FlushWaits
    <3> QED BY <3>2, <3>3
  <2> QED BY <1>6, <2>1, <2>2
<1>7. ASSUME NEW i \in 1..n - 1
      PROVE  /\ pktSerial' <= packets'[i].serial /\ packets'[i].serial <= serial'
             /\ packets'[i].kind = "flush" => pktSerial' < packets'[i].serial
             /\ packets'[i].kind # "flush" =>
                  packets'[i].serial = serial' /\ (pktSerial' = serial' \/ FlushWaits(packets', serial', i))
  <2>1. i + 1 \in 1..n /\ 1 < i + 1 /\ packets'[i] = packets[i + 1] /\ i \in 0..n - 1
    BY <1>2, <1>3
  <2>2. /\ packets[1].serial <= packets[i + 1].serial
        /\ packets[i + 1].kind = "flush" => packets[1].serial < packets[i + 1].serial
        /\ packets[i + 1].serial <= serial
        /\ packets[i + 1].kind # "flush" =>
             packets[i + 1].serial = serial /\ (pktSerial = serial \/ FlushWaits(packets, serial, i + 1))
    BY <1>1, <1>5, <2>1 DEF QueueInv, n
  <2> QED BY <1>3, <1>4, <1>6, <2>1, <2>2
<1>8. ASSUME NEW i \in 1..n - 1, NEW j \in 1..n - 1, i < j
      PROVE  /\ packets'[i].serial <= packets'[j].serial
             /\ packets'[j].kind = "flush" => packets'[i].serial < packets'[j].serial
  <2>1. i + 1 \in 1..n /\ j + 1 \in 1..n /\ i + 1 < j + 1
    BY <1>2, <1>8
  <2> QED BY <1>1, <1>3, <2>1 DEF QueueInv, n
<1>9. readAt' = "putFlush" => \A i \in 1..n - 1 : packets'[i].kind = "flush"
  BY <1>1, <1>2, <1>3, <1>4 DEF QueueInv, n
<1>10. ~abort' /\ readAt' # "putFlush" => pktSerial' = serial' \/ FlushWaits(packets', serial', n - 1)
  <2>1. n - 1 \in 0..n - 1 /\ (n - 1) + 1 = n
    BY <1>2, <1>3
  <2>2. readAt # "putFlush" => pktSerial = serial \/ FlushWaits(packets, serial, n)
    BY <1>1, <1>4 DEF QueueInv, n
  <2> QED BY <1>4, <1>6, <2>1, <2>2
<1> QED BY <1>3, <1>7, <1>8, <1>9, <1>10 DEF QueueInv

LEMMA QueueStep ==
  ASSUME Base, [Next]_vars
  PROVE  QueueInv'
<1>0. QueueInv /\ serial \in Nat /\ pktSerial \in Int
  BY QueueTypes DEF Base
<1>1. CASE QueueSame
  BY <1>0, <1>1 DEF QueueSame, QueueInv, FlushWaits
<1>2. CASE QueueEmptied
  <2>1. Len(packets') = 0
    BY <1>2 DEF QueueEmptied
  <2> QED BY <1>2, <2>1 DEF QueueEmptied, QueueInv
<1>3. CASE QueueGot
  BY <1>3, QueueGotStep
<1>4. CASE QueueOpened
  <2>1. Len(packets') = 1 /\ packets'[1].kind = "flush" /\ packets'[1].serial = serial'
    BY <1>4 DEF QueueOpened
  <2>2. pktSerial' = -1 /\ serial' = serial + 1
    BY <1>4 DEF QueueOpened
  <2>3. FlushWaits(packets', serial', 1)
    BY <2>1 DEF FlushWaits
  <2> QED BY <1>0, <2>1, <2>2, <2>3 DEF QueueInv
<1>5. CASE readAt = "putFlush" /\ QueuePut("flush", 0)
  BY <1>0, <1>5, QueuePutStep DEF QueueInv
<1>6. CASE NullPut
  <2>1. pktSerial = serial \/ FlushWaits(packets, serial, Len(packets))
    BY <1>0, <1>6 DEF QueueInv, QueuePut, NullPut
  <2> QED BY <1>6, <2>1, QueuePutStep DEF NullPut
<1>7. CASE readAt = "queue" /\ QueuePut("data", pos)
  <2>1. pktSerial = serial \/ FlushWaits(packets, serial, Len(packets))
    BY <1>0, <1>7 DEF QueueInv, QueuePut
  <2> QED BY <1>7, <2>1, QueuePutStep
<1> QED BY <1>1, <1>2, <1>3, <1>4, <1>5, <1>6, <1>7, QueueSteps

-----------------------------------------------------------------------------
(* What the decoder has in its hands.                                      *)

(* A thread can wake the decoder, or take notice that it has ended.        *)
DecoderWoken ==
  /\ UNCHANGED <<pkt, pktSerial, finished, held, draining, frame>>
  /\ ~abort' => ~abort
  /\ \/ decAt' = decAt
     \/ decAt = "getWait" /\ decAt' = "get"
     \/ decAt = "roomWait" /\ decAt' = "room"
     \/ decAt \in {"ended", "none"} /\ decAt' = "none"

(* The decoder of a stream that is opened.                                 *)
DecoderOpened ==
  /\ QueueOpened /\ decAt' \in {"top", "none"} /\ decAt = "none" /\ frame' = frame
  /\ held' = <<>> /\ ~draining' /\ finished' = 0 /\ abort /\ ~abort' /\ videoSt'
  /\ readAt = "open" \/ cycled

LEMMA DecoderOthers ==
  ASSUME Base,
         ReadThread \/ Refresh \/ TooSoon \/ Key \/ CycleChannel \/ StreamClose \/ Close
  PROVE  DecoderWoken \/ DecoderOpened
<1> USE DEF queueVars, decVars, codecVars
<1>0. PlaceInv
  BY DEF Base
<1>1. CASE OpenFile
  <2>1. packets = <<>> /\ abort /\ readAt = "open" /\ decAt = "none"
    BY <1>0, <1>1 DEF OpenFile, PlaceInv, Closed
  <2>2. CASE OpenComponent(0) /\ Opened(0)
    <3>1. frame' = frame
      BY <2>2, OpenCases
    <3> QED BY <2>1, <2>2, <3>1 DEF Opened, DecoderOpened, QueueOpened
  <2>3. CASE OpenComponent(0) /\ NotOpened
    BY <2>1, <2>3, OpenCases DEF NotOpened, DecoderWoken
  <2>4. CASE ~OpenComponent(0)
    BY <1>1, <2>1, <2>4 DEF OpenFile, DecoderWoken
  <2> QED BY <2>2, <2>3, <2>4, OpenCases
<1>2. CASE ReadThread /\ ~OpenFile
  <2>1. decAt' = decAt \/ (decAt = "getWait" /\ decAt' = "get")
    BY <1>2, PutCases DEF ReadThread, PutFlush, PutNull, PutLast, PutPacket, ReadLoop,
       FlushQueue, Sought, IfFull, IfEnd, ReadFrame, FailedRead, MarkEnd, WaitAfterError, SetEof,
       ComparePacket
  <2> QED BY <1>2, <2>1, ReaderStream DEF DecoderWoken
<1>3. CASE Refresh \/ TooSoon
  <2>1. decAt' = decAt \/ (decAt = "roomWait" /\ decAt' = "room")
    BY <1>3 DEF Refresh, TooSoon, VideoRefresh, TakePicture, FrameQueueNext, FrameQueueLess,
       Display, Woken
  <2> QED BY <1>3, <2>1, RefreshLeaves DEF DecoderWoken, StreamRest
<1>4. CASE Close /\ ~OpenOther
  <2>1. /\ \/ decAt' = decAt
           \/ decAt = "getWait" /\ decAt' = "get"
           \/ decAt = "roomWait" /\ decAt' = "room"
           \/ decAt \in {"ended", "none"} /\ decAt' = "none"
        /\ ~abort' => ~abort
    BY <1>4 DEF Close, JoinReader, Abort, Signal, JoinDecoder, UnsetStream, Woken
  <2> QED BY <1>4, <2>1, CloseLeaves, CloseDecoder DEF DecoderWoken
<1>5. CASE OpenOther
  <2>1. packets = <<>> /\ abort /\ decAt = "none" /\ (readAt = "open" \/ cycled)
    BY <1>0, <1>5 DEF OpenOther, PlaceInv, Closed
  <2>2. CASE Opened(1 - lastStream)
    <3>1. frame' = frame
      BY <1>5, OpenCases DEF OpenOther
    <3> QED BY <2>1, <2>2, <3>1 DEF Opened, DecoderOpened, QueueOpened
  <2>3. CASE NotOpened
    BY <1>5, <2>1, <2>3, OpenCases DEF NotOpened, DecoderWoken, OpenOther
  <2> QED BY <1>5, <2>2, <2>3, OpenCases DEF OpenOther
<1> QED BY <1>1, <1>2, <1>3, <1>4, <1>5, UserLeaves DEF DecoderWoken, DecoderRest, StreamRest

LEMMA DecoderSteps ==
  ASSUME Base, [Next]_vars
  PROVE  VideoThread \/ DecoderWoken \/ DecoderOpened
BY Steps, DecoderOthers DEF DecoderWoken, DecoderRest, StreamRest

LEMMA SerialGrows ==
  ASSUME Base, [Next]_vars
  PROVE  serial' >= serial /\ pktSerial' <= serial'
<1>1. serial \in Nat /\ pktSerial \in Int /\ pktSerial <= serial
  BY Numbers DEF Base, DecoderInv
<1>2. CASE QueueGot
  <2>1. Head(packets).serial <= serial
    BY <1>2, QueueTypes, TailElements DEF QueueGot, Base, QueueInv
  <2> QED BY <1>1, <1>2, <2>1 DEF QueueGot
<1> QED BY <1>1, <1>2, QueueSteps
    DEF QueueSame, QueueEmptied, QueueOpened, QueuePut, NullPut

LEMMA DecoderStep ==
  ASSUME Base, [Next]_vars
  PROVE  DecoderInv'
<1>0. /\ DecoderInv /\ serial \in Nat /\ serial' \in Nat /\ pktSerial \in Int
      /\ serial' >= serial /\ pktSerial' <= serial'
  BY Numbers, SerialGrows, TypeStep, SerialRange DEF Base, TypeOK, StreamType
<1> USE DEF DecoderInv
<1>3. \A x \in Pictures : x.serial \in Nat
  BY SerialRange DEF Pictures
<1>1. CASE VideoThread
  <2>1. serial' = serial
    BY <1>1, DecoderLeaves
  <2>2. CASE DecodeTop
    BY <1>0, <2>1, <2>2 DEF DecodeTop, decVars, codecVars
  <2>7. CASE PeekWritable
    BY <1>0, <2>1, <2>7 DEF PeekWritable, decVars, codecVars
  <2>3. CASE ReceiveFrame
    <3>1. CASE frame' = frame /\ decAt' \in {"ended", "top", "get"}
      BY <1>0, <2>1, <2>3, <3>1 DEF ReceiveFrame, FilterFails
    <3>2. CASE held # <<>> /\ frame' = [serial |-> pktSerial, at |-> Head(held)]
      <4>1. pktSerial >= 0 /\ pktSerial' = pktSerial /\ decAt' \in {"room", "top", "ended", "get"}
        BY <1>0, <2>3 DEF ReceiveFrame, FilterFails
      <4>2. held \in Seq(Places) /\ pktSerial \in Serials \cup {-1}
        BY DEF Base, TypeOK, DecoderType
      <4>3. Head(held) \in Places /\ pktSerial \in Serials
        BY <3>2, <4>1, <4>2, TailElements
      <4>4. frame' \in Pictures /\ frame'.serial = pktSerial
        BY <3>2, <4>3 DEF Pictures
      <4> QED BY <1>0, <2>1, <4>1, <4>4
    <3>3. Len(held) > Delay => held # <<>>
      BY Constants
    <3> QED BY <2>3, <3>1, <3>2, <3>3 DEF ReceiveFrame, codecVars
  <2>4. CASE GetPacket
    <3>1. packets # <<>> => Head(packets) \in Packets
      BY QueueTypes, TailElements DEF Base
    <3> QED BY <1>0, <2>1, <2>4, <3>1 DEF GetPacket, codecVars
  <2>5. CASE GotPacket
    BY <1>0, <2>1, <2>5 DEF GotPacket
  <2>6. CASE WritePicture \/ FrameQueuePush
    BY <1>0, <2>1, <2>6 DEF WritePicture, FrameQueuePush, decVars, codecVars
  <2> QED BY <1>1, <2>2, <2>3, <2>4, <2>5, <2>6, <2>7 DEF VideoThread
<1>2. CASE DecoderWoken
  BY <1>0, <1>2, <1>3 DEF DecoderWoken
<1>4. CASE DecoderOpened
  BY <1>0, <1>3, <1>4 DEF DecoderOpened
<1> QED BY <1>1, <1>2, <1>4, DecoderSteps

-----------------------------------------------------------------------------
(* pictq.                                                                  *)

LEMMA RingNumbers ==
  ASSUME Base
  PROVE  /\ InRing \in 0..PictQueue /\ size \in 0..PictQueue /\ rindexShown \in {0, 1}
         /\ rindex \in 0..PictQueue - 1 /\ PictQueue \in Nat /\ rindexShown <= size
         /\ InRing = size + Bit(decAt = "push") - Bit(mainAt = "less")
         /\ mainAt # "less" => InRing >= size
BY Numbers, Constants DEF Base, RingInv, InRing, Bit

(* Two slots of the ring are different, and so are one of it and the next  *)
(* to be written.                                                          *)
LEMMA Slots ==
  ASSUME NEW r \in 0..PictQueue - 1, NEW i \in 0..PictQueue - 1, NEW j \in 0..PictQueue - 1, i # j
  PROVE  (r + i) % PictQueue # (r + j) % PictQueue
<1>1. r + i \in 0..2 * PictQueue - 1 /\ r + j \in 0..2 * PictQueue - 1
  BY Constants
<1> QED BY <1>1, Wrap, Constants

(* The next slot, from one further on.                                     *)
LEMMA NextSlot ==
  ASSUME NEW r \in 0..PictQueue - 1, NEW i \in 0..PictQueue - 1
  PROVE  /\ (((r + 1) % PictQueue) + i) % PictQueue = (r + (i + 1)) % PictQueue
         /\ (((r + i) % PictQueue) + 1) % PictQueue = (r + (i + 1)) % PictQueue
<1>1. /\ r + 1 \in 0..2 * PictQueue - 1 /\ r + i \in 0..2 * PictQueue - 1
      /\ r + (i + 1) \in 0..2 * PictQueue - 1
  BY Constants
<1>2. /\ ((r + 1) % PictQueue) + i \in 0..2 * PictQueue - 1
      /\ ((r + i) % PictQueue) + 1 \in 0..2 * PictQueue - 1
  BY <1>1, Wrap, Constants
<1>3. (((r + 1) % PictQueue) + i) % PictQueue = (r + (i + 1)) % PictQueue
  <2>1. CASE r + 1 < PictQueue
    BY <1>1, <2>1, Wrap, Constants
  <2>2. CASE ~(r + 1 < PictQueue)
    <3>1. r + 1 = PictQueue /\ (r + 1) % PictQueue = 0
      BY <1>1, <2>2, Wrap, Constants
    <3>2. i % PictQueue = i /\ (r + (i + 1)) % PictQueue = i
      BY <1>1, <3>1, Wrap, Constants
    <3> QED BY <3>1, <3>2
  <2> QED BY <2>1, <2>2
<1>4. (((r + i) % PictQueue) + 1) % PictQueue = (r + (i + 1)) % PictQueue
  <2>1. CASE r + i < PictQueue
    BY <1>1, <2>1, Wrap, Constants
  <2>2. CASE ~(r + i < PictQueue)
    <3>1. (r + i) % PictQueue = r + i - PictQueue /\ r + i - PictQueue + 1 \in 0..PictQueue - 1
      BY <1>1, <2>2, Wrap, Constants
    <3>2. (r + i - PictQueue + 1) % PictQueue = r + i - PictQueue + 1
      BY <3>1, Wrap, Constants
    <3>3. (r + (i + 1)) % PictQueue = r + i - PictQueue + 1
      BY <1>1, <2>2, Wrap, Constants
    <3> QED BY <3>1, <3>2, <3>3
  <2> QED BY <2>1, <2>2
<1> QED BY <1>3, <1>4

(* A step leaves the ring, adds a picture at its end or takes the first.   *)
RingSame == InRing' = InRing /\ rindex' = rindex /\ queue' = queue /\ windex' = windex

RingGrows ==
  /\ decAt = "write" /\ decAt' = "push" /\ size < PictQueue
  /\ InRing < PictQueue /\ InRing' = InRing + 1
  /\ windex' = (rindex + InRing') % PictQueue
  /\ \A i \in 0..InRing - 1 : At(i)' = At(i)
  /\ queue'[(rindex' + InRing) % PictQueue] = frame

RingShrinks ==
  /\ mainAt = "next" /\ mainAt' = "less" /\ rindexShown = 1
  /\ InRing > 1 /\ InRing' = InRing - 1 /\ windex' = windex
  /\ windex' = (rindex' + InRing') % PictQueue
  /\ \A i \in 0..InRing - 2 : At(i)' = At(i + 1)

LEMMA RingWrite ==
  ASSUME Base, WritePicture
  PROVE  RingGrows
<1>1. /\ decAt = "write" /\ decAt' = "push" /\ mainAt' = mainAt /\ rindex' = rindex /\ size' = size
      /\ queue' = [queue EXCEPT ![windex] = frame] /\ windex' = (windex + 1) % PictQueue
  BY DEF WritePicture
<1>2. size < PictQueue /\ windex = (rindex + InRing) % PictQueue
  BY <1>1 DEF Base, RingInv
<1>3. InRing' = InRing + 1 /\ InRing \in 0..PictQueue - 1
  BY <1>1, <1>2, Numbers, RingNumbers, Constants DEF InRing, Bit, Base
<1>4. windex' = (rindex + InRing') % PictQueue
  BY <1>1, <1>2, <1>3, NextSlot, RingNumbers
<1>5. queue \in [0..PictQueue - 1 -> Pictures \cup {None}] /\ windex \in 0..PictQueue - 1
  BY DEF Base, TypeOK, RingType
<1>6. ASSUME NEW i \in 0..InRing - 1
      PROVE  At(i)' = At(i)
  <2>1. i \in 0..PictQueue - 1 /\ i # InRing
    BY <1>3, <1>6, Constants
  <2>2. (rindex + i) % PictQueue # windex
    BY <1>2, <1>3, <2>1, Slots, RingNumbers
  <2>3. (rindex + i) % PictQueue \in 0..PictQueue - 1
    BY <2>1, Wrap, RingNumbers
  <2> QED BY <1>1, <1>5, <2>2, <2>3 DEF At
<1>7. queue'[(rindex' + InRing) % PictQueue] = frame
  <2>1. (rindex' + InRing) % PictQueue = windex
    BY <1>1, <1>2
  <2>2. queue'[windex] = frame
    BY <1>1, <1>5
  <2> QED BY <2>1, <2>2, Zenon
<1>8. InRing < PictQueue
  BY <1>3, Constants
<1> QED BY <1>1, <1>2, <1>3, <1>4, <1>6, <1>7, <1>8 DEF RingGrows

LEMMA RingNext ==
  ASSUME Base, FrameQueueNext, rindexShown # 0
  PROVE  RingShrinks
<1>1. /\ mainAt = "next" /\ mainAt' = "less" /\ rindexShown = 1 /\ rindex' = (rindex + 1) % PictQueue
      /\ queue' = [queue EXCEPT ![rindex] = None] /\ UNCHANGED <<decAt, windex, size>>
  BY DEF FrameQueueNext
<1>2. size > 1 /\ windex = (rindex + InRing) % PictQueue
  BY <1>1 DEF Base, RingInv
<1>3. InRing' = InRing - 1 /\ InRing \in 2..PictQueue /\ InRing' \in 0..PictQueue - 1
  BY <1>1, <1>2, Numbers, RingNumbers, Constants DEF InRing, Bit, Base
<1>4. windex' = (rindex' + InRing') % PictQueue
  <2>1. (((rindex + 1) % PictQueue) + InRing') % PictQueue = (rindex + (InRing' + 1)) % PictQueue
    BY <1>3, NextSlot, RingNumbers
  <2>2. InRing' + 1 = InRing
    BY <1>3
  <2> QED BY <1>1, <1>2, <2>1, <2>2
<1>5. queue \in [0..PictQueue - 1 -> Pictures \cup {None}]
  BY DEF Base, TypeOK, RingType
<1>6. ASSUME NEW i \in 0..InRing - 2
      PROVE  At(i)' = At(i + 1)
  <2>1. i \in 0..PictQueue - 1 /\ i + 1 \in 0..PictQueue - 1 /\ 0 \in 0..PictQueue - 1 /\ i + 1 # 0
    BY <1>3, <1>6, Constants
  <2>2. (rindex' + i) % PictQueue = (rindex + (i + 1)) % PictQueue
    BY <1>1, <2>1, NextSlot, RingNumbers
  <2>3. (rindex + (i + 1)) % PictQueue # rindex
    <3>1. (rindex + 0) % PictQueue = rindex
      BY Wrap, RingNumbers
    <3> QED BY <2>1, <3>1, Slots, RingNumbers
  <2>4. (rindex + (i + 1)) % PictQueue \in 0..PictQueue - 1
    BY <2>1, Wrap, RingNumbers
  <2> QED BY <1>1, <1>5, <2>2, <2>3, <2>4 DEF At
<1> QED BY <1>1, <1>2, <1>3, <1>4, <1>6 DEF RingShrinks

LEMMA RingSteps ==
  ASSUME Base, [Next]_vars
  PROVE  RingSame \/ (WritePicture /\ RingGrows) \/ (FrameQueueNext /\ RingShrinks)
<1> USE DEF pictVars
<1>0. size \in Nat /\ decAt # "none" => decAt \in DecPlaces
  BY DEF Base, TypeOK, DecoderType
<1>1. CASE WritePicture
  BY <1>1, RingWrite
<1>2. CASE FrameQueueNext /\ rindexShown # 0
  BY <1>2, RingNext
<1>3. CASE FrameQueueNext /\ rindexShown = 0
  <2>1. /\ mainAt = "next" /\ mainAt' # "less" /\ UNCHANGED <<decAt, size, rindex, queue, windex>>
    BY <1>3 DEF FrameQueueNext, AfterNext
  <2> QED BY <2>1 DEF RingSame, InRing, Bit
<1>4. CASE FrameQueuePush
  <2>1. /\ decAt = "push" /\ decAt' # "push" /\ size' = size + 1
        /\ UNCHANGED <<rindex, queue, windex, mainAt>>
    BY <1>4 DEF FrameQueuePush
  <2> QED BY <2>1, RingNumbers DEF RingSame, InRing, Bit
<1>5. CASE FrameQueueLess
  <2>1. /\ mainAt = "less" /\ mainAt' # "less" /\ size' = size - 1 /\ UNCHANGED <<rindex, queue, windex>>
        /\ decAt' = "push" <=> decAt = "push"
    BY <1>5 DEF FrameQueueLess, AfterNext, Woken
  <2> QED BY <2>1, RingNumbers DEF RingSame, InRing, Bit
<1>6. CASE VideoThread /\ ~WritePicture /\ ~FrameQueuePush
  <2>1. /\ decAt # "push" /\ decAt' # "push" /\ UNCHANGED <<size, rindex, queue, windex>>
    BY <1>6 DEF VideoThread, DecodeTop, ReceiveFrame, FilterFails, GetPacket, GotPacket, PeekWritable
  <2> QED BY <1>6, <2>1, DecoderLeaves DEF RingSame, InRing, Bit, MainRest
<1>7. CASE VideoRefresh \/ TakePicture \/ Display \/ TooSoon
  <2>1. /\ mainAt # "less" /\ mainAt' # "less" /\ UNCHANGED <<decAt, size, rindex, queue, windex>>
    BY <1>7 DEF VideoRefresh, TakePicture, Display, TooSoon
  <2> QED BY <2>1 DEF RingSame, InRing, Bit
<1>8. CASE Key \/ CycleChannel \/ StreamClose
  <2>1. mainAt # "less" /\ mainAt' # "less"
    BY <1>8 DEF Key, CycleChannel, StreamClose
  <2> QED BY <1>8, <2>1, UserLeaves DEF RingSame, InRing, Bit, DecoderRest, RingRest
<1>9. CASE ReadThread \/ Close
  <2>1. RingRest /\ (mainAt' = "less" <=> mainAt = "less")
    <3>1. CASE ReadThread
      BY <3>1, ReaderRest DEF MainRest
    <3>2. CASE Close
      BY <3>2, CloseLeaves DEF Close, JoinReader, Abort, Signal, JoinDecoder, UnsetStream, OpenOther
    <3> QED BY <1>9, <3>1, <3>2
  <2>2. decAt' = "push" <=> decAt = "push"
    BY <1>9, DecoderOthers DEF DecoderWoken, DecoderOpened
  <2> QED BY <2>1, <2>2 DEF RingSame, InRing, Bit, RingRest
<1>10. CASE DecoderRest /\ RingRest /\ MainRest
  BY <1>10 DEF RingSame, InRing, Bit, DecoderRest, RingRest, MainRest
<1> QED
  BY <1>1, <1>2, <1>3, <1>4, <1>5, <1>6, <1>7, <1>8, <1>9, <1>10, Steps DEF Refresh

(* pictq is counted by the decoder, and by the main thread.                *)
RoomInv == decAt \in {"write", "push"} => size < PictQueue

ShownInv ==
  /\ mainAt \in {"peeked", "next"} => size > rindexShown
  /\ mainAt = "less" => size > 1
  /\ mainAt \in {"less", "display"} => rindexShown = 1
  /\ shown # None => rindexShown = 1
  /\ rindexShown <= size

LEMMA RoomStep ==
  ASSUME Base, [Next]_vars
  PROVE  RoomInv'
<1>0. RoomInv /\ size \in Nat /\ PictQueue \in Nat
  BY RingNumbers DEF Base, RingInv, RoomInv
<1> USE DEF RoomInv
<1>1. CASE VideoThread
  <2>1. CASE FrameQueuePush
    BY <2>1 DEF FrameQueuePush
  <2>2. CASE PeekWritable
    BY <2>2 DEF PeekWritable, Room, pictVars
  <2>3. CASE WritePicture
    BY <1>0, <2>3 DEF WritePicture
  <2>4. CASE DecodeTop \/ ReceiveFrame \/ GetPacket \/ GotPacket
    BY <2>4 DEF DecodeTop, ReceiveFrame, FilterFails, GetPacket, GotPacket
  <2> QED BY <1>1, <2>1, <2>2, <2>3, <2>4 DEF VideoThread
<1>2. CASE FrameQueueLess
  <2>1. size' < size /\ (decAt' \in {"write", "push"} => decAt' = decAt)
    BY <1>0, <1>2 DEF FrameQueueLess, Woken
  <2> QED BY <1>0, <2>1, TypeStep, Numbers DEF TypeOK, RingType
<1>3. CASE ReadThread \/ Refresh \/ TooSoon \/ Key \/ CycleChannel \/ StreamClose \/ Close
  <2>1. decAt' \in {"write", "push"} => decAt' = decAt
    BY <1>3, DecoderOthers DEF DecoderWoken, DecoderOpened
  <2>2. CASE ~FrameQueueLess
    <3>1. size' = size
      BY <1>3, <2>2, ReaderRest, UserLeaves, CloseLeaves
      DEF RingRest, Refresh, VideoRefresh, TakePicture, FrameQueueNext, Display, TooSoon, pictVars
    <3> QED BY <1>0, <2>1, <3>1
  <2> QED BY <1>2, <2>2
<1>4. CASE DecoderRest /\ RingRest
  BY <1>0, <1>4 DEF DecoderRest, RingRest
<1> QED BY <1>1, <1>3, <1>4, Steps

LEMMA ShownStep ==
  ASSUME Base, [Next]_vars
  PROVE  ShownInv'
<1>0. ShownInv /\ size \in Nat /\ rindexShown \in {0, 1}
  BY RingNumbers DEF Base, RingInv, ShownInv
<1> USE DEF ShownInv
<1>1. CASE VideoThread
  <2>1. size' = size \/ size' = size + 1
    BY <1>1 DEF VideoThread, DecodeTop, ReceiveFrame, GetPacket, GotPacket, PeekWritable,
       WritePicture, FrameQueuePush, pictVars
  <2> QED BY <1>0, <1>1, <2>1, DecoderLeaves DEF MainRest
<1>2. CASE VideoRefresh \/ TooSoon
  BY <1>0, <1>2 DEF VideoRefresh, TooSoon, NbRemaining, pictVars, showVars
<1>3. CASE TakePicture
  BY <1>0, <1>3 DEF TakePicture, pictVars
<1>4. CASE FrameQueueNext
  BY <1>0, <1>4 DEF FrameQueueNext, AfterNext, showVars
<1>5. CASE FrameQueueLess
  BY <1>0, <1>5 DEF FrameQueueLess, AfterNext, showVars
<1>6. CASE Display
  BY <1>0, <1>6 DEF Display, pictVars
<1>7. CASE ReadThread \/ Key \/ CycleChannel \/ StreamClose \/ Close
  <2>1. size' = size /\ rindexShown' = rindexShown /\ shown' = shown
    BY <1>7, ReaderRest, UserLeaves, CloseLeaves DEF RingRest, MainRest
  <2>2. \/ mainAt' = mainAt
        \/ mainAt' \notin {"peeked", "next", "less", "display"}
    BY <1>7, ReaderRest
    DEF MainRest, Key, CycleChannel, StreamClose, Close, JoinReader, Abort, Signal, JoinDecoder,
        UnsetStream, OpenOther
  <2> QED BY <1>0, <2>1, <2>2
<1>8. CASE RingRest /\ MainRest
  BY <1>0, <1>8 DEF RingRest, MainRest
<1> QED BY <1>1, <1>2, <1>3, <1>4, <1>5, <1>6, <1>7, <1>8, Steps DEF Refresh

LEMMA RingStep ==
  ASSUME Base, [Next]_vars
  PROVE  RingInv'
<1>0. RingInv /\ InRing \in 0..PictQueue /\ PictQueue \in Nat
  BY RingNumbers DEF Base
<1>1. windex' = (rindex' + InRing') % PictQueue
  <2>1. CASE RingSame
    BY <1>0, <2>1 DEF RingSame, RingInv
  <2>2. CASE WritePicture /\ RingGrows
    BY <2>2 DEF RingGrows, WritePicture
  <2>3. CASE RingShrinks
    BY <2>3 DEF RingShrinks
  <2> QED BY <2>1, <2>2, <2>3, RingSteps
<1>2. ASSUME NEW i \in 0..InRing' - 1
      PROVE  At(i)' \in Pictures
  <2>1. CASE RingSame
    <3>1. i \in 0..InRing - 1 /\ At(i)' = At(i)
      BY <1>2, <2>1 DEF RingSame, At
    <3> QED BY <1>0, <3>1 DEF RingInv
  <2>2. CASE WritePicture /\ RingGrows
    <3>1. CASE i \in 0..InRing - 1
      BY <1>0, <2>2, <3>1 DEF RingGrows, RingInv
    <3>2. CASE i = InRing
      <4>1. At(i)' = frame
        BY <2>2, <3>2, Zenon DEF RingGrows, At
      <4> QED BY <2>2, <4>1 DEF WritePicture, Base, DecoderInv
    <3> QED BY <1>0, <1>2, <2>2, <3>1, <3>2 DEF RingGrows
  <2>3. CASE RingShrinks
    <3>1. i \in 0..InRing - 2 /\ i + 1 \in 0..InRing - 1 /\ At(i)' = At(i + 1)
      BY <1>0, <1>2, <2>3 DEF RingShrinks
    <3> QED BY <1>0, <3>1 DEF RingInv
  <2> QED BY <2>1, <2>2, <2>3, RingSteps
<1> QED BY <1>1, <1>2, RoomStep, ShownStep DEF RingInv, RoomInv, ShownInv

(* Base is an invariant.                                                   *)
LEMMA BaseStep == Base /\ [Next]_vars => Base'
BY TypeStep, CountStep, PlaceStep, DecoderStep, QueueStep, RingStep DEF Base

(* Every variable keeps its type; no serial is above the number of loops   *)
(* and keys, and pictq never holds more than it has room for.              *)
THEOREM TypeCorrect == Spec => []TypeOK
<1>1. Base => TypeOK
  BY DEF Base
<1> QED BY <1>1, InitBase, BaseStep, PTL DEF Spec

-----------------------------------------------------------------------------
(* The order of the pictures.                                              *)

(* x is of an older serial than y, or before it in the same.               *)
Earlier(x, y) == x.serial < y.serial \/ (x.serial = y.serial /\ x.at < y.at)

GotFlush == decAt = "got" /\ pkt.kind = "flush"
GotData  == decAt = "got" /\ pkt.kind = "data"

(* The decoder has decoded the flush packet of the serial.                 *)
Current == pktSerial = serial /\ ~GotFlush

(* The pictures in pictq, and the one that is to come into it.             *)
IsComing == decAt \in {"room", "roomWait", "write"}
Pics == {At(i) : i \in 0..InRing - 1} \cup (IF IsComing THEN {frame} ELSE {})

(* Pictures come and are shown in order.                                   *)
RingOrder ==
  /\ \A i, j \in 0..InRing - 1 : i < j => Earlier(At(i), At(j))
  /\ IsComing => \A i \in 0..InRing - 1 : Earlier(At(i), frame)
  /\ shown # None => shown = At(0) \/ Earlier(shown, At(0))

(* A picture comes before all that is still to be decoded.                 *)
PicInv(x) ==
  /\ x.serial <= serial
  /\ x.serial = serial => Current
  /\ decAt = "receive" => x.serial <= pktSerial
  /\ x.serial = pktSerial => \A k \in 1..Len(held) : x.at < held[k]
  /\ GotFlush => x.serial < pktSerial
  /\ GotData => Earlier(x, pkt)
  /\ \A k \in 1..Len(packets) :
       /\ packets[k].kind = "flush" => x.serial < packets[k].serial
       /\ packets[k].kind = "data" => Earlier(x, packets[k])

(* What is still to be decoded is in order.                                *)
HeldInv ==
  /\ \A i, j \in 1..Len(held) : i < j => held[i] < held[j]
  /\ \A i, j \in 1..Len(packets) :
       i < j /\ packets[i].kind = "data" /\ packets[j].kind = "data" => packets[i].at < packets[j].at
  /\ Current => \A i \in 1..Len(held) :
       /\ \A k \in 1..Len(packets) : packets[k].kind = "data" => held[i] < packets[k].at
       /\ GotData => held[i] < pkt.at
  /\ GotData /\ pktSerial = serial =>
       \A k \in 1..Len(packets) : packets[k].kind = "data" => pkt.at < packets[k].at

(* All of the current serial is from the first m packets of the file.      *)
ReadUpTo(m) ==
  /\ \A k \in 1..Len(packets) : packets[k].kind = "data" => packets[k].at <= m
  /\ GotData /\ pktSerial = serial => pkt.at <= m
  /\ Current => \A k \in 1..Len(held) : held[k] <= m
  /\ \A x \in Pics : x.serial = serial => x.at <= m

(* Nothing of the current serial comes from further on than the reader is, *)
(* but for the time between a seek and its flush packet.                   *)
Limit == IF readAt \in {"put", "queue"} THEN pos - 1 ELSE pos
ReadInv == ~abort /\ readAt \notin {"flush", "putFlush"} => ReadUpTo(Limit)

OrderInv == RingOrder /\ (\A x \in Pics : PicInv(x)) /\ HeldInv /\ ReadInv

LEMMA InitOrder == Init => OrderInv
<1> SUFFICES ASSUME Init PROVE OrderInv
  OBVIOUS
<1>1. InRing = 0 /\ ~IsComing /\ ~GotFlush /\ ~GotData /\ abort /\ shown = None
  BY DEF Init, InRing, Bit, IsComing, GotFlush, GotData
<1>2. Pics = {}
  BY <1>1 DEF Pics
<1>3. Len(held) = 0 /\ Len(packets) = 0
  BY DEF Init
<1> QED BY <1>1, <1>2, <1>3 DEF OrderInv, RingOrder, HeldInv, ReadInv

LEMMA PicTypes ==
  ASSUME Base
  PROVE  /\ Pics \subseteq Pictures
         /\ \A x \in Pictures : x.serial \in Nat /\ x.at \in Nat
         /\ \A i \in 0..InRing - 1 : At(i) \in Pics /\ At(i) \in Pictures
         /\ IsComing => frame \in Pics /\ frame \in Pictures /\ frame.serial = pktSerial
<1>1. \A x \in Pictures : x.serial \in Nat /\ x.at \in Nat
  BY SerialRange, Constants DEF Pictures, Places
<1>2. \A i \in 0..InRing - 1 : At(i) \in Pictures
  BY DEF Base, RingInv
<1>3. IsComing => frame \in Pictures /\ frame.serial = pktSerial
  BY DEF Base, DecoderInv, IsComing
<1> QED BY <1>1, <1>2, <1>3 DEF Pics

(* Only the decoder makes a new picture.                                   *)
NewPicture ==
  /\ decAt = "receive" /\ ~abort /\ held # <<>> /\ held' = Tail(held)
  /\ frame' = [serial |-> pktSerial, at |-> Head(held)] /\ decAt' = "room"
  /\ RingSame /\ serial' = serial /\ pktSerial' = pktSerial /\ packets' = packets

(* A picture that is to come has been since it was made.                   *)
LEMMA ComingStep ==
  ASSUME Base, [Next]_vars, ~NewPicture
  PROVE  IsComing' => IsComing /\ frame' = frame
<1>1. CASE VideoThread
  <2>1. CASE ReceiveFrame
    <3>1. decAt' # "room"
      <4>1. Len(held) > Delay => held # <<>>
        BY Constants
      <4>2. RingSame /\ serial' = serial
        BY <2>1, RingSteps, DecoderLeaves
        DEF ReceiveFrame, WritePicture, FrameQueueNext, VideoThread, RingGrows, RingShrinks, MainRest
      <4> QED BY <2>1, <4>1, <4>2 DEF ReceiveFrame, FilterFails, NewPicture, codecVars, queueVars
    <3> QED BY <2>1, <3>1 DEF ReceiveFrame, FilterFails, IsComing
  <2>2. CASE ~ReceiveFrame
    BY <1>1, <2>2 DEF VideoThread, DecodeTop, GetPacket, GotPacket, PeekWritable, WritePicture,
       FrameQueuePush, IsComing, decVars, codecVars
  <2> QED BY <2>1, <2>2
<1>2. CASE DecoderWoken \/ DecoderOpened
  BY <1>2 DEF DecoderWoken, DecoderOpened, IsComing
<1> QED BY <1>1, <1>2, DecoderSteps

LEMMA PicsStep ==
  ASSUME Base, [Next]_vars, NEW x \in Pics', ~NewPicture
  PROVE  x \in Pics
<1>1. CASE IsComing' /\ x = frame'
  BY <1>1, ComingStep DEF Pics
<1>2. ASSUME NEW i \in 0..InRing' - 1, x = At(i)'
      PROVE  x \in Pics
  <2>0. InRing \in Nat /\ PictQueue \in Nat
    BY RingNumbers
  <2>1. CASE RingSame
    BY <1>2, <2>1 DEF RingSame, At, Pics
  <2>2. CASE WritePicture /\ RingGrows
    <3>1. CASE i \in 0..InRing - 1
      BY <1>2, <2>2, <3>1 DEF RingGrows, Pics
    <3>2. CASE i = InRing
      <4>1. x = frame
        BY <1>2, <2>2, <3>2, Zenon DEF RingGrows, At
      <4> QED BY <2>2, <4>1 DEF WritePicture, Pics, IsComing
    <3> QED BY <1>2, <2>0, <2>2, <3>1, <3>2 DEF RingGrows
  <2>3. CASE RingShrinks
    BY <1>2, <2>0, <2>3 DEF RingShrinks, Pics
  <2> QED BY <2>1, <2>2, <2>3, RingSteps
<1> QED BY <1>1, <1>2 DEF Pics

LEMMA EarlierTransitive ==
  ASSUME NEW x \in Pictures, NEW y \in Pictures, NEW z \in Pictures, Earlier(x, y), Earlier(y, z)
  PROVE  Earlier(x, z)
<1>1. \A p \in Pictures : p.serial \in Nat /\ p.at \in Nat
  BY SerialRange, Constants DEF Pictures, Places
<1> QED BY <1>1 DEF Earlier

(* A new picture comes after those before it.                              *)
LEMMA NewIsLast ==
  ASSUME Base, OrderInv, NewPicture, NEW x \in Pics
  PROVE  Earlier(x, frame') /\ x.serial \in Nat /\ x.serial <= pktSerial
<1>1. PicInv(x) /\ x.serial \in Nat /\ pktSerial \in Int
  BY PicTypes, Numbers DEF OrderInv, Base
<1>2. Len(held) > 0 /\ Head(held) = held[1] /\ Len(held) \in Nat
  <2>1. held \in Seq(Places) /\ held # <<>>
    BY DEF Base, TypeOK, DecoderType, NewPicture
  <2> QED BY <2>1, TailElements
<1>3. frame'.serial = pktSerial /\ frame'.at = Head(held) /\ decAt = "receive"
  BY DEF NewPicture
<1>4. x.serial = pktSerial => x.at < held[1]
  BY <1>1, <1>2 DEF PicInv
<1> QED BY <1>1, <1>2, <1>3, <1>4 DEF PicInv, Earlier

LEMMA RingOrderStep ==
  ASSUME Base, [Next]_vars, OrderInv
  PROVE  RingOrder'
<1>0. /\ RingOrder /\ InRing \in 0..PictQueue /\ PictQueue \in Nat
      /\ \A i \in 0..InRing - 1 : At(i) \in Pics /\ At(i) \in Pictures
      /\ IsComing => frame \in Pictures
  BY RingNumbers, PicTypes DEF OrderInv
<1>1. ASSUME NEW i \in 0..InRing' - 1, NEW j \in 0..InRing' - 1, i < j
      PROVE  Earlier(At(i)', At(j)')
  <2>1. CASE RingSame
    BY <1>0, <1>1, <2>1 DEF RingSame, RingOrder, At
  <2>2. CASE WritePicture /\ RingGrows
    <3>1. i \in 0..InRing - 1 /\ At(i)' = At(i)
      BY <1>0, <1>1, <2>2 DEF RingGrows
    <3>2. CASE j = InRing
      <4>1. At(j)' = frame
        BY <2>2, <3>2, Zenon DEF RingGrows, At
      <4>2. IsComing
        BY <2>2 DEF WritePicture, IsComing
      <4> QED BY <1>0, <3>1, <4>1, <4>2 DEF RingOrder
    <3>3. CASE j \in 0..InRing - 1
      BY <1>0, <1>1, <2>2, <3>1, <3>3 DEF RingGrows, RingOrder
    <3> QED BY <1>0, <1>1, <2>2, <3>2, <3>3 DEF RingGrows
  <2>3. CASE RingShrinks
    <3>1. /\ i \in 0..InRing - 2 /\ j \in 0..InRing - 2
          /\ i + 1 \in 0..InRing - 1 /\ j + 1 \in 0..InRing - 1 /\ i + 1 < j + 1
      BY <1>0, <1>1, <2>3 DEF RingShrinks
    <3> QED BY <1>0, <2>3, <3>1 DEF RingShrinks, RingOrder
  <2> QED BY <2>1, <2>2, <2>3, RingSteps
<1>2. ASSUME IsComing', NEW i \in 0..InRing' - 1
      PROVE  Earlier(At(i)', frame')
  <2>1. CASE NewPicture
    <3>1. i \in 0..InRing - 1 /\ At(i)' = At(i)
      BY <1>2, <2>1 DEF NewPicture, RingSame, At
    <3> QED BY <1>0, <2>1, <3>1, NewIsLast
  <2>2. CASE ~NewPicture
    <3>1. IsComing /\ frame' = frame
      BY <1>2, <2>2, ComingStep
    <3>2. CASE RingSame
      BY <1>0, <1>2, <3>1, <3>2 DEF RingSame, RingOrder, At
    <3>3. CASE RingGrows
      BY <1>2, <3>3 DEF RingGrows, IsComing
    <3>4. CASE RingShrinks
      <4>1. i \in 0..InRing - 2 /\ i + 1 \in 0..InRing - 1
        BY <1>0, <1>2, <3>4 DEF RingShrinks
      <4> QED BY <1>0, <3>1, <3>4, <4>1 DEF RingShrinks, RingOrder
    <3> QED BY <3>2, <3>3, <3>4, RingSteps
  <2> QED BY <2>1, <2>2
<1>3. ASSUME shown' # None
      PROVE  shown' = At(0)' \/ Earlier(shown', At(0)')
  <2>1. CASE Display
    <3>1. /\ shown' = queue[rindex] /\ queue' = queue /\ rindex' = rindex
      BY <2>1 DEF Display, pictVars
    <3>2. (rindex + 0) % PictQueue = rindex
      BY Wrap, RingNumbers
    <3>3. At(0)' = At(0)
      BY <3>1 DEF At
    <3> QED BY <3>1, <3>2, <3>3, Zenon DEF At
  <2>2. CASE ~Display
    <3>1. shown' = shown
      BY <2>2, Steps, ReaderRest, DecoderLeaves, UserLeaves, CloseLeaves
      DEF MainRest, Refresh, VideoRefresh, TooSoon, TakePicture, FrameQueueNext, FrameQueueLess,
          showVars
    <3>2. InRing > 0 /\ 0 \in 0..InRing - 1 /\ shown \in Pictures
      BY <1>0, <1>3, <3>1, RingNumbers DEF Base, RingInv, TypeOK, MainType, Bit
    <3>3. shown = At(0) \/ Earlier(shown, At(0))
      BY <1>0, <1>3, <3>1 DEF RingOrder
    <3>4. CASE RingSame \/ RingGrows
      <4>1. At(0)' = At(0)
        BY <3>2, <3>4 DEF RingSame, RingGrows, At
      <4> QED BY <3>1, <3>3, <4>1
    <3>5. CASE RingShrinks
      <4>1. 1 \in 0..InRing - 1 /\ 0 \in 0..InRing - 2
        BY <1>0, <3>5 DEF RingShrinks
      <4>2. At(0)' = At(0 + 1) /\ 0 + 1 = 1
        BY <3>5, <4>1 DEF RingShrinks
      <4>3. Earlier(At(0), At(1))
        BY <1>0, <3>2, <4>1 DEF RingOrder
      <4> QED BY <1>0, <3>1, <3>2, <3>3, <4>1, <4>2, <4>3, EarlierTransitive
    <3> QED BY <3>4, <3>5, RingSteps
  <2> QED BY <2>1, <2>2
<1> QED BY <1>1, <1>2, <1>3 DEF RingOrder

(* What a step may do to the frames on their way to pictq.                 *)
FramesSame ==
  /\ UNCHANGED <<packets, serial, pktSerial, held>>
  /\ decAt' = "got" <=> decAt = "got"
  /\ decAt = "got" => pkt' = pkt
  /\ decAt' = "receive" => decAt = "receive" \/ serial = pktSerial

HandSame ==
  /\ held' = held
  /\ decAt' = "got" <=> decAt = "got"
  /\ decAt = "got" => pkt' = pkt
  /\ decAt' = "receive" => decAt = "receive"

FrameGiven ==
  /\ decAt = "receive" /\ held # <<>> /\ held' = Tail(held)
  /\ decAt' \notin {"got", "receive"}
  /\ UNCHANGED <<packets, serial, pktSerial>>

PacketTaken ==
  /\ decAt = "got" /\ decAt' \notin {"got", "receive"}
  /\ UNCHANGED <<packets, serial, pktSerial>>
  /\ \/ serial # pktSerial /\ held' = held
     \/ serial = pktSerial /\ pkt.kind = "flush" /\ held' = <<>>
     \/ serial = pktSerial /\ pkt.kind = "data" /\ held' = Append(held, pkt.at)
     \/ serial = pktSerial /\ pkt.kind = "null" /\ held' = held

LEMMA FrameSteps ==
  ASSUME Base, [Next]_vars
  PROVE  \/ FramesSame \/ FrameGiven \/ PacketTaken \/ DecoderOpened
         \/ QueueGot /\ held' = held
         \/ QueueEmptied /\ HandSame
         \/ readAt = "putFlush" /\ QueuePut("flush", 0) /\ HandSame
         \/ NullPut /\ HandSame
         \/ readAt = "queue" /\ QueuePut("data", pos) /\ HandSame
<1>1. CASE VideoThread
  <2> USE DEF decVars, codecVars, queueVars
  <2>0. serial' = serial /\ abort' = abort /\ readAt' = readAt
    BY <1>1, DecoderLeaves DEF ReadRest
  <2>1. CASE DecodeTop \/ PeekWritable \/ WritePicture \/ FrameQueuePush
    BY <2>0, <2>1 DEF DecodeTop, PeekWritable, WritePicture, FrameQueuePush, FramesSame
  <2>2. CASE ReceiveFrame
    <3>1. Len(held) > Delay => held # <<>>
      BY Constants
    <3> QED BY <2>0, <2>2, <3>1 DEF ReceiveFrame, FilterFails, FramesSame, FrameGiven
  <2>3. CASE GetPacket
    BY <2>0, <2>3 DEF GetPacket, FramesSame, QueueGot
  <2>4. CASE GotPacket
    <3>1. decAt = "got" => pkt.kind \in {"flush", "data", "null"}
      BY DEF Base, DecoderInv, Packets
    <3> QED BY <2>0, <2>4, <3>1 DEF GotPacket, PacketTaken, Decode
  <2> QED BY <1>1, <2>1, <2>2, <2>3, <2>4 DEF VideoThread
<1>2. CASE DecoderWoken
  <2>1. HandSame
    BY <1>2 DEF DecoderWoken, HandSame
  <2>2. ~QueueGot /\ (QueueSame => FramesSame)
    BY <1>2, <2>1 DEF DecoderWoken, QueueGot, QueueSame, FramesSame, HandSame
  <2>3. ~QueueOpened
    BY <1>2 DEF DecoderWoken, QueueOpened
  <2> QED BY <2>1, <2>2, <2>3, QueueSteps
<1> QED BY <1>1, <1>2, DecoderSteps

(* What the sequences of frames and packets hold, as numbers.              *)
LEMMA FrameNumbers ==
  ASSUME Base
  PROVE  /\ packets \in Seq(Packets) /\ Len(packets) \in Nat
         /\ held \in Seq(Places) /\ Len(held) \in Nat
         /\ serial \in Nat /\ pktSerial \in Int /\ pktSerial <= serial /\ pos \in Nat
         /\ \A k \in 1..Len(packets) :
              packets[k] \in Packets /\ packets[k].serial \in Nat /\ packets[k].at \in Nat
         /\ \A k \in 1..Len(held) : held[k] \in Nat
         /\ \A x \in Pics : x.serial \in Nat /\ x.at \in Nat
         /\ decAt = "got" => /\ pkt \in Packets /\ pkt.at \in Nat /\ pkt.serial = pktSerial
                             /\ pkt.kind \in {"flush", "data", "null"}
                             /\ pkt.kind = "data" => pkt.at \in Places
<1>1. packets \in Seq(Packets) /\ held \in Seq(Places)
  BY DEF Base, TypeOK, StreamType, DecoderType
<1>2. \A p \in Packets : p.serial \in Nat /\ p.at \in Nat
  BY SerialRange, Constants DEF Packets, Places
<1>3. \A k \in Places : k \in Nat
  BY Constants DEF Places
<1>4. \A k \in 1..Len(held) : held[k] \in Nat
  BY <1>1, <1>3
<1>5. \A k \in 1..Len(packets) : packets[k] \in Packets
  BY <1>1
<1>6. decAt = "got" => pkt \in Packets /\ pkt.serial = pktSerial
  BY DEF Base, DecoderInv
<1>8. decAt = "got" => /\ pkt.kind \in {"flush", "data", "null"}
                       /\ pkt.kind = "data" => pkt.at \in Places
  BY <1>6 DEF Packets
<1>7. serial \in Nat /\ pktSerial \in Int /\ pktSerial <= serial /\ pos \in Nat
  BY Numbers DEF Base, DecoderInv
<1> QED BY <1>1, <1>2, <1>4, <1>5, <1>6, <1>7, <1>8, PicTypes

(* What each of those steps does to the sequences.                         *)
LEMMA FrameGivenTail ==
  ASSUME Base, FrameGiven
  PROVE  /\ Len(held') = Len(held) - 1 /\ Head(held) = held[1] /\ 1 \in 1..Len(held)
         /\ \A k \in 1..Len(held') : held'[k] = held[k + 1] /\ k + 1 \in 1..Len(held)
BY FrameNumbers, TailElements DEF FrameGiven

LEMMA QueueGotTail ==
  ASSUME Base, QueueGot
  PROVE  /\ Len(packets') = Len(packets) - 1 /\ pkt' = packets[1] /\ 1 \in 1..Len(packets)
         /\ pktSerial' = packets[1].serial /\ decAt' = "got" /\ serial' = serial
         /\ \A k \in 1..Len(packets') : packets'[k] = packets[k + 1] /\ k + 1 \in 1..Len(packets)
         /\ pktSerial <= packets[1].serial /\ packets[1].serial <= serial
         /\ packets[1].kind = "flush" => pktSerial < packets[1].serial
         /\ packets[1].kind # "flush" => pktSerial = serial /\ packets[1].serial = serial
<1>1. /\ Len(packets') = Len(packets) - 1 /\ Head(packets) = packets[1] /\ 1 \in 1..Len(packets)
      /\ \A k \in 1..Len(packets') : packets'[k] = packets[k + 1] /\ k + 1 \in 1..Len(packets)
  BY FrameNumbers, TailElements DEF QueueGot
<1>2. packets[1].kind # "flush" => ~FlushWaits(packets, serial, 1)
  BY DEF FlushWaits
<1>3. /\ pktSerial <= packets[1].serial /\ packets[1].serial <= serial
      /\ packets[1].kind = "flush" => pktSerial < packets[1].serial
      /\ packets[1].kind # "flush" => pktSerial = serial /\ packets[1].serial = serial
  BY <1>1, <1>2 DEF Base, QueueInv
<1> QED BY <1>1, <1>3 DEF QueueGot

LEMMA QueuePutElements ==
  ASSUME Base, NEW kind, NEW at, QueuePut(kind, at)
  PROVE  /\ Len(packets') = Len(packets) + 1
         /\ \A k \in 1..Len(packets) : packets'[k] = packets[k]
         /\ packets'[Len(packets) + 1] = [kind |-> kind, at |-> at, serial |-> serial']
<1> DEFINE p == [kind |-> kind, at |-> at, serial |-> serial']
<1>1. packets \in Seq(Packets \cup {p}) /\ p \in Packets \cup {p}
  BY FrameNumbers
<1> QED BY <1>1, AppendElements DEF QueuePut

(* The pictures that are there stay before what is to be decoded, ...      *)
LEMMA PicInvStep ==
  ASSUME Base, [Next]_vars, OrderInv, NEW x \in Pics
  PROVE  PicInv(x)'
<1>0. /\ PicInv(x) /\ x.serial \in Nat /\ x.at \in Nat /\ serial \in Nat /\ pktSerial \in Int
      /\ pktSerial <= serial /\ Len(packets) \in Nat /\ Len(held) \in Nat
  BY FrameNumbers DEF OrderInv
<1>1. CASE FramesSame
  BY <1>0, <1>1 DEF FramesSame, PicInv, Current, GotFlush, GotData
<1>2. CASE FrameGiven
  <2>1. ASSUME x.serial = pktSerial, NEW k \in 1..Len(held')
        PROVE  x.at < held'[k]
    BY <1>0, <1>2, <2>1, FrameGivenTail DEF PicInv
  <2> QED BY <1>0, <1>2, <2>1 DEF FrameGiven, PicInv, Current, GotFlush, GotData
<1>3. CASE QueueGot /\ held' = held
  <2>1. /\ pkt' = packets[1] /\ 1 \in 1..Len(packets) /\ pktSerial' = packets[1].serial
        /\ decAt' = "got" /\ serial' = serial
        /\ pktSerial <= packets[1].serial /\ packets[1].serial <= serial
        /\ packets[1].kind = "flush" => pktSerial < packets[1].serial
        /\ packets[1].kind # "flush" => pktSerial = serial /\ packets[1].serial = serial
    BY <1>3, QueueGotTail
  <2>2. /\ packets[1].kind = "flush" => x.serial < packets[1].serial
        /\ packets[1].kind = "data" => Earlier(x, packets[1])
    BY <1>0, <2>1 DEF PicInv
  <2>3. x.serial = serial' => Current'
    BY <1>0, <2>1, <2>2, FrameNumbers DEF PicInv, Current, GotFlush
  <2>4. x.serial = pktSerial' => \A k \in 1..Len(held') : x.at < held'[k]
    BY <1>0, <1>3, <2>1, <2>2, FrameNumbers DEF PicInv
  <2>5. ASSUME NEW k \in 1..Len(packets')
        PROVE  /\ packets'[k].kind = "flush" => x.serial < packets'[k].serial
               /\ packets'[k].kind = "data" => Earlier(x, packets'[k])
    BY <1>0, <1>3, <2>5, QueueGotTail DEF PicInv
  <2>6. (GotFlush' => x.serial < pktSerial') /\ (GotData' => Earlier(x, pkt'))
    BY <2>1, <2>2 DEF GotFlush, GotData
  <2> QED BY <1>0, <2>1, <2>3, <2>4, <2>5, <2>6 DEF PicInv
<1>4. CASE PacketTaken
  <2>1. /\ decAt = "got" /\ decAt' \notin {"got", "receive"}
        /\ packets' = packets /\ serial' = serial /\ pktSerial' = pktSerial
    BY <1>4 DEF PacketTaken
  <2>2. ~GotFlush' /\ ~GotData'
    BY <2>1 DEF GotFlush, GotData
  <2>3. x.serial = serial' => Current'
    BY <1>0, <2>1, <2>2 DEF PicInv, Current
  <2>4. ASSUME x.serial = pktSerial', NEW k \in 1..Len(held')
        PROVE  x.at < held'[k]
    <3>1. CASE held' = held
      BY <1>0, <2>1, <2>4, <3>1 DEF PicInv
    <3>2. CASE serial = pktSerial /\ pkt.kind = "flush"
      BY <1>0, <2>1, <2>4, <3>2 DEF PicInv, GotFlush
    <3>3. CASE serial = pktSerial /\ pkt.kind = "data"
      <4>1. x.at < pkt.at
        BY <1>0, <2>1, <2>4, <3>3, FrameNumbers DEF PicInv, GotData, Earlier
      <4>2. held' = Append(held, pkt.at) /\ held \in Seq(Places) /\ pkt.at \in Places
        <5>1. held' = Append(held, pkt.at)
          BY <1>4, <3>3 DEF PacketTaken
        <5> QED BY <2>1, <3>3, <5>1, FrameNumbers
      <4>3. /\ Len(held') = Len(held) + 1 /\ held'[Len(held) + 1] = pkt.at
            /\ \A i \in 1..Len(held) : held'[i] = held[i]
        BY <4>2, AppendElements
      <4>4. CASE k = Len(held) + 1
        BY <4>1, <4>3, <4>4
      <4>5. CASE k \in 1..Len(held)
        BY <1>0, <2>1, <2>4, <4>3, <4>5 DEF PicInv
      <4> QED BY <1>0, <2>4, <4>3, <4>4, <4>5
    <3> QED BY <1>4, <2>1, <3>1, <3>2, <3>3, FrameNumbers DEF PacketTaken
  <2> QED BY <1>0, <2>1, <2>2, <2>3, <2>4 DEF PicInv
<1>5. CASE DecoderOpened
  <2>1. Len(packets') = 1 /\ packets'[1].kind = "flush" /\ packets'[1].serial = serial'
    BY <1>5 DEF DecoderOpened, QueueOpened
  <2>2. serial' = serial + 1 /\ pktSerial' = -1 /\ decAt' \notin {"got", "receive"}
    BY <1>5 DEF DecoderOpened, QueueOpened
  <2> QED BY <1>0, <2>1, <2>2 DEF PicInv, GotFlush, GotData
<1>6. ASSUME pktSerial' = pktSerial, HandSame, serial' >= serial, serial' \in Nat,
             \A k \in 1..Len(packets') :
               \/ k \in 1..Len(packets) /\ packets'[k] = packets[k]
               \/ packets'[k].kind = "flush" /\ packets'[k].serial = serial' /\ serial' > serial
               \/ packets'[k].kind = "null"
               \/ packets'[k].kind = "data" /\ Earlier(x, packets'[k])
      PROVE  PicInv(x)'
  <2>1. (GotFlush' <=> GotFlush) /\ (GotData' <=> GotData)
    BY <1>6 DEF HandSame, GotFlush, GotData
  <2>2. x.serial <= serial' /\ (x.serial = serial' => Current')
    BY <1>0, <1>6, <2>1 DEF PicInv, Current
  <2>3. x.serial = pktSerial' => \A k \in 1..Len(held') : x.at < held'[k]
    BY <1>0, <1>6 DEF PicInv, HandSame
  <2>4. /\ decAt' = "receive" => x.serial <= pktSerial'
        /\ GotFlush' => x.serial < pktSerial'
        /\ GotData' => Earlier(x, pkt')
    BY <1>0, <1>6, <2>1 DEF PicInv, HandSame, GotData
  <2>5. ASSUME NEW k \in 1..Len(packets')
        PROVE  /\ packets'[k].kind = "flush" => x.serial < packets'[k].serial
               /\ packets'[k].kind = "data" => Earlier(x, packets'[k])
    <3>1. x.serial <= serial
      BY <1>0 DEF PicInv
    <3>2. CASE k \in 1..Len(packets) /\ packets'[k] = packets[k]
      BY <1>0, <3>2 DEF PicInv
    <3>3. CASE packets'[k].kind = "flush" /\ packets'[k].serial = serial' /\ serial' > serial
      BY <1>0, <1>6, <3>1, <3>3
    <3>4. CASE packets'[k].kind = "null"
      BY <3>4
    <3>5. CASE packets'[k].kind = "data" /\ Earlier(x, packets'[k])
      BY <3>5
    <3> QED BY <1>6, <2>5, <3>2, <3>3, <3>4, <3>5, Zenon
  <2> QED BY <2>2, <2>3, <2>4, <2>5 DEF PicInv
<1>7. CASE QueueEmptied /\ HandSame
  <2>1. Len(packets') = 0
    BY <1>7 DEF QueueEmptied
  <2> QED BY <1>0, <1>6, <1>7, <2>1 DEF QueueEmptied
<1>8. CASE readAt = "putFlush" /\ QueuePut("flush", 0) /\ HandSame
  <2>1. pktSerial' = pktSerial /\ serial' = serial + 1
    BY <1>8 DEF QueuePut
  <2>2. ASSUME NEW k \in 1..Len(packets')
        PROVE  \/ k \in 1..Len(packets) /\ packets'[k] = packets[k]
               \/ packets'[k].kind = "flush" /\ packets'[k].serial = serial'
    <3>1. /\ Len(packets') = Len(packets) + 1
          /\ \A i \in 1..Len(packets) : packets'[i] = packets[i]
          /\ packets'[Len(packets) + 1] = [kind |-> "flush", at |-> 0, serial |-> serial']
      BY <1>8, QueuePutElements
    <3> QED BY <1>0, <2>2, <3>1
  <2> QED BY <1>0, <1>6, <1>8, <2>1, <2>2
<1>9. CASE NullPut /\ HandSame
  <2>1. pktSerial' = pktSerial /\ serial' = serial
    BY <1>9 DEF QueuePut, NullPut
  <2>2. ASSUME NEW k \in 1..Len(packets')
        PROVE  \/ k \in 1..Len(packets) /\ packets'[k] = packets[k]
               \/ packets'[k].kind = "null" /\ packets'[k].serial = serial'
    <3>1. /\ Len(packets') = Len(packets) + 1
          /\ \A i \in 1..Len(packets) : packets'[i] = packets[i]
          /\ packets'[Len(packets) + 1] = [kind |-> "null", at |-> 0, serial |-> serial']
      BY <1>9, QueuePutElements DEF NullPut
    <3> QED BY <1>0, <2>2, <3>1
  <2> QED BY <1>0, <1>6, <1>9, <2>1, <2>2
<1>10. CASE readAt = "queue" /\ QueuePut("data", pos) /\ HandSame
  <2>1. pktSerial' = pktSerial /\ serial' = serial /\ ~abort
    BY <1>10 DEF QueuePut
  <2>2. x.serial <= serial /\ (x.serial = serial => x.at <= pos - 1)
    BY <1>0, <1>10, <2>1 DEF OrderInv, ReadInv, ReadUpTo, Limit, PicInv
  <2>3. Earlier(x, [kind |-> "data", at |-> pos, serial |-> serial'])
    BY <1>0, <2>1, <2>2, FrameNumbers DEF Earlier
  <2> QED BY <1>0, <1>6, <1>10, <2>1, <2>3, QueuePutElements
<1> QED BY <1>1, <1>2, <1>3, <1>4, <1>5, <1>7, <1>8, <1>9, <1>10, FrameSteps

(* ... and so does the new one.                                            *)
LEMMA NewPicInv ==
  ASSUME Base, OrderInv, NewPicture
  PROVE  PicInv(frame)'
<1>0. /\ serial \in Nat /\ pktSerial \in Int /\ pktSerial <= serial /\ HeldInv
      /\ decAt = "receive" /\ decAt' = "room" /\ packets' = packets /\ serial' = serial
      /\ pktSerial' = pktSerial
  BY FrameNumbers DEF OrderInv, NewPicture
<1>1. /\ 1 \in 1..Len(held) /\ Len(held) \in Nat /\ Len(held') = Len(held) - 1
      /\ \A k \in 1..Len(held') : held'[k] = held[k + 1] /\ k + 1 \in 1..Len(held)
      /\ frame'.serial = pktSerial /\ frame'.at = held[1]
  BY FrameNumbers, TailElements DEF NewPicture
<1>2. ASSUME NEW k \in 1..Len(held')
      PROVE  frame'.at < held'[k]
  <2>1. 1 < k + 1
    BY <1>1
  <2> QED BY <1>0, <1>1, <2>1 DEF HeldInv
<1>3. ASSUME NEW k \in 1..Len(packets)
      PROVE  /\ packets[k].kind = "flush" => pktSerial < packets[k].serial
             /\ packets[k].kind = "data" => Earlier(frame', packets[k])
  <2>1. /\ packets[k].kind = "flush" => pktSerial < packets[k].serial
        /\ packets[k].kind = "data" => packets[k].serial = serial
    BY DEF Base, QueueInv
  <2>2. packets[k].kind = "data" /\ pktSerial = serial => held[1] < packets[k].at
    BY <1>0, <1>1 DEF HeldInv, Current, GotFlush
  <2> QED BY <1>0, <1>1, <2>1, <2>2 DEF Earlier
<1> QED BY <1>0, <1>1, <1>2, <1>3 DEF PicInv, Current, GotFlush, GotData

(* The frames held back and the packets stay in order.                     *)
LEMMA HeldStep ==
  ASSUME Base, [Next]_vars, OrderInv
  PROVE  HeldInv'
<1>0. /\ HeldInv /\ serial \in Nat /\ pktSerial \in Int /\ pktSerial <= serial
      /\ Len(packets) \in Nat /\ Len(held) \in Nat
  BY FrameNumbers DEF OrderInv
<1>1. CASE FramesSame
  BY <1>0, <1>1 DEF FramesSame, HeldInv, Current, GotFlush, GotData
<1>2. CASE FrameGiven
  <2>1. /\ packets' = packets /\ ~GotFlush /\ ~GotFlush' /\ ~GotData' /\ (Current' => Current)
    BY <1>2 DEF FrameGiven, GotFlush, GotData, Current
  <2>2. \A k \in 1..Len(held') : held'[k] = held[k + 1] /\ k + 1 \in 1..Len(held)
    BY <1>2, FrameGivenTail
  <2>3. ASSUME NEW i \in 1..Len(held'), NEW j \in 1..Len(held'), i < j
        PROVE  held'[i] < held'[j]
    <3>1. i + 1 < j + 1
      BY <1>0, <1>2, <2>3, FrameGivenTail
    <3> QED BY <1>0, <2>2, <3>1 DEF HeldInv
  <2> QED BY <1>0, <2>1, <2>2, <2>3 DEF HeldInv
<1>3. CASE QueueGot /\ held' = held
  <2>1. /\ pkt' = packets[1] /\ 1 \in 1..Len(packets) /\ pktSerial' = packets[1].serial
        /\ decAt' = "got" /\ serial' = serial /\ decAt = "get"
        /\ packets[1].kind # "flush" => pktSerial = serial
        /\ \A k \in 1..Len(packets') : packets'[k] = packets[k + 1] /\ k + 1 \in 1..Len(packets)
    BY <1>3, QueueGotTail DEF QueueGot
  <2>2. ASSUME NEW i \in 1..Len(packets'), NEW j \in 1..Len(packets'), i < j,
               packets'[i].kind = "data", packets'[j].kind = "data"
        PROVE  packets'[i].at < packets'[j].at
    <3>1. i + 1 < j + 1
      BY <1>0, <1>3, <2>2, QueueGotTail
    <3> QED BY <1>0, <2>1, <2>2, <3>1 DEF HeldInv
  <2>3. ASSUME Current'
        PROVE  \A i \in 1..Len(held') :
                 /\ \A k \in 1..Len(packets') : packets'[k].kind = "data" => held'[i] < packets'[k].at
                 /\ GotData' => held'[i] < pkt'.at
    <3>1. Current
      BY <2>1, <2>3 DEF Current, GotFlush
    <3> QED BY <1>0, <1>3, <2>1, <3>1 DEF HeldInv, GotData
  <2>4. ASSUME GotData', NEW k \in 1..Len(packets'), packets'[k].kind = "data"
        PROVE  pkt'.at < packets'[k].at
    <3>1. 1 < k + 1
      BY <1>0, <1>3, QueueGotTail
    <3> QED BY <1>0, <2>1, <2>4, <3>1 DEF HeldInv, GotData
  <2> QED BY <1>0, <1>3, <2>2, <2>3, <2>4 DEF HeldInv
<1>4. CASE PacketTaken
  <2>1. /\ packets' = packets /\ serial' = serial /\ pktSerial' = pktSerial /\ ~GotData' /\ ~GotFlush'
        /\ decAt = "got"
    BY <1>4 DEF PacketTaken, GotData, GotFlush
  <2>2. CASE serial # pktSerial /\ held' = held
    BY <1>0, <2>1, <2>2 DEF HeldInv, Current
  <2>3. CASE held' = <<>>
    BY <1>0, <2>1, <2>3 DEF HeldInv
  <2>4. CASE serial = pktSerial /\ pkt.kind = "null" /\ held' = held
    BY <1>0, <2>1, <2>4 DEF HeldInv, Current, GotFlush
  <2>5. CASE serial = pktSerial /\ pkt.kind = "data" /\ held' = Append(held, pkt.at)
    <3>1. /\ Len(held') = Len(held) + 1 /\ held'[Len(held) + 1] = pkt.at
          /\ \A i \in 1..Len(held) : held'[i] = held[i]
      BY <2>1, <2>5, FrameNumbers, AppendElements
    <3>2. Current /\ GotData
      BY <2>1, <2>5 DEF Current, GotData, GotFlush
    <3>3. ASSUME NEW i \in 1..Len(held'), NEW j \in 1..Len(held'), i < j
          PROVE  held'[i] < held'[j]
      BY <1>0, <3>1, <3>2, <3>3 DEF HeldInv
    <3>4. ASSUME NEW i \in 1..Len(held'), NEW k \in 1..Len(packets), packets[k].kind = "data"
          PROVE  held'[i] < packets[k].at
      BY <1>0, <2>5, <3>1, <3>2, <3>4 DEF HeldInv
    <3> QED BY <1>0, <2>1, <3>3, <3>4 DEF HeldInv
  <2> QED BY <1>4, <2>2, <2>3, <2>4, <2>5 DEF PacketTaken
<1>5. CASE DecoderOpened
  <2>1. Len(packets') = 1 /\ packets'[1].kind = "flush"
    BY <1>5 DEF DecoderOpened, QueueOpened
  <2>2. Len(held') = 0 /\ decAt' # "got"
    BY <1>5 DEF DecoderOpened, QueueOpened
  <2> QED BY <2>1, <2>2 DEF HeldInv, GotData
<1>6. ASSUME pktSerial' = pktSerial, HandSame, Current' => Current,
             serial' = serial \/ serial' > serial,
             \A k \in 1..Len(packets') : packets'[k].kind = "data" =>
               k \in 1..Len(packets) /\ packets'[k] = packets[k]
      PROVE  HeldInv'
  <2>1. /\ held' = held /\ (GotData' => GotData /\ pkt' = pkt)
        /\ pktSerial' = serial' => pktSerial = serial
    BY <1>0, <1>6 DEF HandSame, GotData
  <2>2. \A i, j \in 1..Len(packets') :
          i < j /\ packets'[i].kind = "data" /\ packets'[j].kind = "data" =>
             packets'[i].at < packets'[j].at
    BY <1>0, <1>6 DEF HeldInv
  <2>3. Current' => \A i \in 1..Len(held') :
          /\ \A k \in 1..Len(packets') : packets'[k].kind = "data" => held'[i] < packets'[k].at
          /\ GotData' => held'[i] < pkt'.at
    BY <1>0, <1>6, <2>1 DEF HeldInv
  <2>4. GotData' /\ pktSerial' = serial' =>
          \A k \in 1..Len(packets') : packets'[k].kind = "data" => pkt'.at < packets'[k].at
    BY <1>0, <1>6, <2>1 DEF HeldInv
  <2> QED BY <1>0, <2>1, <2>2, <2>3, <2>4 DEF HeldInv
<1>7. CASE QueueEmptied /\ HandSame
  <2>1. Len(packets') = 0
    BY <1>7 DEF QueueEmptied
  <2>2. Current' => Current
    BY <1>7 DEF QueueEmptied, HandSame, Current, GotFlush
  <2> QED BY <1>0, <1>6, <1>7, <2>1, <2>2 DEF QueueEmptied
<1>8. CASE readAt = "putFlush" /\ QueuePut("flush", 0) /\ HandSame
  <2>1. pktSerial' = pktSerial /\ serial' = serial + 1
    BY <1>8 DEF QueuePut
  <2>2. ASSUME NEW k \in 1..Len(packets'), packets'[k].kind = "data"
        PROVE  k \in 1..Len(packets) /\ packets'[k] = packets[k]
    <3>1. /\ Len(packets') = Len(packets) + 1
          /\ packets'[Len(packets) + 1] = [kind |-> "flush", at |-> 0, serial |-> serial']
          /\ \A i \in 1..Len(packets) : packets'[i] = packets[i]
      BY <1>8, QueuePutElements
    <3> QED BY <1>0, <2>2, <3>1
  <2>3. ~Current'
    BY <1>0, <2>1 DEF Current
  <2> QED BY <1>0, <1>6, <1>8, <2>1, <2>2, <2>3
<1>9. CASE NullPut /\ HandSame
  <2>1. pktSerial' = pktSerial /\ serial' = serial
    BY <1>9 DEF QueuePut, NullPut
  <2>2. ASSUME NEW k \in 1..Len(packets'), packets'[k].kind = "data"
        PROVE  k \in 1..Len(packets) /\ packets'[k] = packets[k]
    <3>1. /\ Len(packets') = Len(packets) + 1
          /\ packets'[Len(packets) + 1] = [kind |-> "null", at |-> 0, serial |-> serial']
          /\ \A i \in 1..Len(packets) : packets'[i] = packets[i]
      BY <1>9, QueuePutElements DEF NullPut
    <3> QED BY <1>0, <2>2, <3>1
  <2>3. Current' => Current
    BY <1>9, <2>1 DEF Current, GotFlush, HandSame
  <2> QED BY <1>0, <1>6, <1>9, <2>1, <2>2, <2>3
<1>10. CASE readAt = "queue" /\ QueuePut("data", pos) /\ HandSame
  <2>1. /\ pktSerial' = pktSerial /\ serial' = serial /\ ~abort /\ held' = held
        /\ (GotData' <=> GotData) /\ (Current' <=> Current) /\ (GotData => pkt' = pkt)
    BY <1>10 DEF QueuePut, HandSame, GotData, Current, GotFlush
  <2>2. ReadUpTo(pos - 1)
    BY <1>10, <2>1 DEF OrderInv, ReadInv, Limit
  <2>3. /\ Len(packets') = Len(packets) + 1 /\ packets'[Len(packets) + 1].at = pos
        /\ \A i \in 1..Len(packets) : packets'[i] = packets[i]
    <3>1. packets'[Len(packets) + 1] = [kind |-> "data", at |-> pos, serial |-> serial']
      BY <1>10, QueuePutElements
    <3> QED BY <1>10, <3>1, QueuePutElements
  <2>4. ASSUME NEW i \in 1..Len(packets'), NEW j \in 1..Len(packets'), i < j,
               packets'[i].kind = "data", packets'[j].kind = "data"
        PROVE  packets'[i].at < packets'[j].at
    <3>1. i \in 1..Len(packets) /\ packets'[i] = packets[i]
      BY <1>0, <2>3, <2>4
    <3>2. CASE j = Len(packets) + 1
      <4>1. packets[i].at <= pos - 1 /\ packets[i].at \in Nat /\ pos \in Nat
        BY <2>2, <2>4, <3>1, FrameNumbers DEF ReadUpTo
      <4> QED BY <2>3, <3>1, <3>2, <4>1
    <3>3. CASE j \in 1..Len(packets)
      BY <1>0, <2>3, <2>4, <3>1, <3>3 DEF HeldInv
    <3> QED BY <1>0, <2>3, <3>2, <3>3
  <2>5. ASSUME Current, NEW i \in 1..Len(held), NEW k \in 1..Len(packets'), packets'[k].kind = "data"
        PROVE  held[i] < packets'[k].at
    <3>1. CASE k = Len(packets) + 1
      <4>1. held[i] <= pos - 1 /\ held[i] \in Nat /\ pos \in Nat
        BY <2>2, <2>5, FrameNumbers DEF ReadUpTo
      <4> QED BY <2>3, <3>1, <4>1
    <3>2. CASE k \in 1..Len(packets)
      BY <1>0, <2>3, <2>5, <3>2 DEF HeldInv
    <3> QED BY <1>0, <2>3, <3>1, <3>2
  <2>6. ASSUME GotData, pktSerial = serial, NEW k \in 1..Len(packets'), packets'[k].kind = "data"
        PROVE  pkt.at < packets'[k].at
    <3>1. CASE k = Len(packets) + 1
      <4>1. pkt.at <= pos - 1 /\ pkt.at \in Nat /\ pos \in Nat
        BY <2>2, <2>6, FrameNumbers DEF ReadUpTo, GotData
      <4> QED BY <2>3, <3>1, <4>1
    <3>2. CASE k \in 1..Len(packets)
      BY <1>0, <2>3, <2>6, <3>2 DEF HeldInv
    <3> QED BY <1>0, <2>3, <3>1, <3>2
  <2>7. Current' => \A i \in 1..Len(held') : GotData' => held'[i] < pkt'.at
    BY <1>0, <2>1 DEF HeldInv
  <2> QED BY <1>0, <2>1, <2>4, <2>5, <2>6, <2>7 DEF HeldInv
<1> QED BY <1>1, <1>2, <1>3, <1>4, <1>5, <1>7, <1>8, <1>9, <1>10, FrameSteps

(* How far the reader is allowed to have come.                             *)
LEMMA LimitSteps ==
  ASSUME Base, [Next]_vars, ~abort', readAt' \notin {"flush", "putFlush"}
  PROVE  \/ DecoderOpened
         \/ readAt = "putFlush" /\ QueuePut("flush", 0)
         \/ /\ ~abort /\ readAt \notin {"flush", "putFlush"} /\ Limit <= Limit'
            /\ readAt = "queue" => Limit' = pos \/ (readAt' = "queue" /\ pos' = pos)
<1>0. /\ pos \in 0..Length /\ Length \in Nat /\ PlaceInv
      /\ Limit = IF readAt \in {"put", "queue"} THEN pos - 1 ELSE pos
      /\ Limit' = IF readAt' \in {"put", "queue"} THEN pos' - 1 ELSE pos'
  BY FrameNumbers, Constants DEF Base, TypeOK, ReadType, Limit
<1>1. CASE readAt' = readAt /\ pos' = pos /\ (DecoderWoken \/ (VideoThread /\ abort' = abort))
  BY <1>0, <1>1 DEF DecoderWoken
<1>2. CASE ReadThread
  <2> USE DEF queueVars, streamVars
  <2>1. CASE OpenFile
    <3>1. abort /\ ~DecoderWoken
      BY <1>0, <2>1 DEF OpenFile, PlaceInv, Closed, DecoderWoken
    <3> QED BY <1>2, <3>1, DecoderOthers
  <2>2. abort' = abort \/ OpenFile
    BY <1>2, ReaderStream
  <2>3. CASE ReadLoop
    <3>1. ~abort /\ readAt = "loop" /\ readAt' \notin {"put", "queue"}
      BY <2>3 DEF ReadLoop
    <3>2. pos' = pos
      <4>1. videoStream >= 0 \/ videoStream < 0
        BY DEF Base, TypeOK, StreamType, Streams
      <4> QED BY <1>0, <2>3, <3>1, <4>1 DEF ReadLoop, PlaceInv, Closed
    <3> QED BY <1>0, <3>1, <3>2
  <2>4. CASE FlushQueue
    BY <2>4 DEF FlushQueue
  <2>5. CASE PutFlush
    BY <2>2, <2>5, PutCases DEF PutFlush, QueuePut, OpenFile, decVars
  <2>6. CASE Sought \/ IfFull \/ IfEnd \/ PutNull \/ PutLast \/ ComparePacket \/ PutPacket
    <3>1. /\ pos' = pos /\ readAt \notin {"open", "flush", "putFlush"}
          /\ readAt' \in {"put", "queue"} => readAt = "put"
      BY <2>6 DEF Sought, IfFull, IfEnd, PutNull, PutLast, ComparePacket, PutPacket
    <3> QED BY <1>0, <2>2, <3>1 DEF OpenFile
  <2>7. CASE ReadFrame \/ WaitAfterError \/ SetEof
    BY <1>0, <2>2, <2>7 DEF ReadFrame, FailedRead, MarkEnd, WaitAfterError, SetEof, OpenFile
  <2> QED BY <1>2, <2>1, <2>3, <2>4, <2>5, <2>6, <2>7 DEF ReadThread
<1>3. CASE ~ReadThread
  <2>1. readAt' = readAt /\ pos' = pos /\ (VideoThread => abort' = abort)
    BY <1>3, Steps, DecoderLeaves, RefreshLeaves, UserLeaves, CloseLeaves DEF ReadRest
  <2> QED BY <1>1, <2>1, DecoderSteps
<1> QED BY <1>2, <1>3

(* A packet put is from where the reader is.                               *)
LEMMA ReadUpToKept ==
  ASSUME Base, [Next]_vars, OrderInv, NEW m \in Nat, ReadUpTo(m), ~DecoderOpened,
         readAt = "queue" /\ readAt' # "queue" => m = pos
  PROVE  ReadUpTo(m)'
<1>0. /\ serial \in Nat /\ pktSerial \in Int /\ pktSerial <= serial
      /\ Len(packets) \in Nat /\ Len(held) \in Nat /\ serial' >= serial /\ serial' \in Nat
  BY FrameNumbers, SerialGrows, TypeStep, SerialRange DEF TypeOK, StreamType
<1>1. ASSUME NEW x \in Pics', x.serial = serial'
      PROVE  x.at <= m
  <2>1. CASE ~NewPicture
    <3>1. x \in Pics
      BY <2>1, PicsStep
    <3>2. x.serial <= serial /\ x.serial \in Nat
      BY <3>1, FrameNumbers DEF OrderInv, PicInv
    <3> QED BY <1>0, <1>1, <3>1, <3>2 DEF ReadUpTo
  <2>2. CASE NewPicture /\ x \notin Pics
    <3>1. x = frame'
      <4>1. ASSUME NEW i \in 0..InRing' - 1
            PROVE  At(i)' \in Pics
        BY <2>2 DEF NewPicture, RingSame, Pics, At
      <4> QED BY <2>2, <4>1 DEF Pics
    <3>2. /\ frame'.serial = pktSerial /\ frame'.at = held[1] /\ 1 \in 1..Len(held)
          /\ serial' = serial /\ decAt = "receive"
      BY <2>2, FrameNumbers, TailElements DEF NewPicture
    <3>3. Current
      BY <1>1, <3>1, <3>2 DEF Current, GotFlush
    <3> QED BY <3>1, <3>2, <3>3 DEF ReadUpTo
  <2>3. CASE NewPicture /\ x \in Pics
    <3>1. serial' = serial
      BY <2>3 DEF NewPicture
    <3> QED BY <1>1, <2>3, <3>1 DEF ReadUpTo
  <2> QED BY <2>1, <2>2, <2>3
<1>2. CASE FramesSame
  BY <1>0, <1>1, <1>2 DEF FramesSame, ReadUpTo, Current, GotFlush, GotData
<1>3. CASE FrameGiven
  <2>1. /\ packets' = packets /\ ~GotData' /\ (Current' => Current)
    BY <1>3 DEF FrameGiven, GotFlush, GotData, Current
  <2> QED BY <1>1, <1>3, <2>1, FrameGivenTail DEF ReadUpTo
<1>4. CASE QueueGot /\ held' = held
  <2>1. Current' => Current
    BY <1>4, QueueGotTail DEF QueueGot, Current, GotFlush
  <2>2. \A k \in 1..Len(packets') : packets'[k].kind = "data" => packets'[k].at <= m
    BY <1>4, QueueGotTail DEF ReadUpTo
  <2>3. GotData' => pkt'.at <= m
    BY <1>4, QueueGotTail DEF ReadUpTo, GotData
  <2> QED BY <1>1, <1>4, <2>1, <2>2, <2>3 DEF ReadUpTo
<1>5. CASE PacketTaken
  <2>1. /\ packets' = packets /\ serial' = serial /\ pktSerial' = pktSerial /\ ~GotData' /\ ~GotFlush'
        /\ decAt = "got"
    BY <1>5 DEF PacketTaken, GotData, GotFlush
  <2>2. ASSUME Current', NEW k \in 1..Len(held')
        PROVE  held'[k] <= m
    <3>1. pktSerial = serial
      BY <2>1, <2>2 DEF Current
    <3>2. CASE held' = <<>>
      BY <2>2, <3>2
    <3>3. CASE pkt.kind = "null" /\ held' = held
      BY <2>1, <2>2, <3>1, <3>3 DEF ReadUpTo, Current, GotFlush
    <3>4. CASE pkt.kind = "data" /\ held' = Append(held, pkt.at)
      <4>1. /\ Len(held') = Len(held) + 1 /\ held'[Len(held) + 1] = pkt.at
            /\ \A i \in 1..Len(held) : held'[i] = held[i]
        BY <2>1, <3>4, FrameNumbers, AppendElements
      <4>2. Current /\ GotData
        BY <2>1, <3>1, <3>4 DEF Current, GotData, GotFlush
      <4> QED BY <1>0, <2>2, <3>1, <4>1, <4>2 DEF ReadUpTo
    <3> QED BY <1>5, <3>1, <3>2, <3>3, <3>4 DEF PacketTaken
  <2> QED BY <1>1, <2>1, <2>2 DEF ReadUpTo
<1>6. ASSUME pktSerial' = pktSerial, HandSame, Current' => Current, pktSerial' = serial' => pktSerial = serial,
             \A k \in 1..Len(packets') : packets'[k].kind = "data" =>
               (k \in 1..Len(packets) /\ packets'[k] = packets[k]) \/ packets'[k].at = m
      PROVE  ReadUpTo(m)'
  <2>1. held' = held /\ (GotData' => GotData /\ pkt' = pkt)
    BY <1>6 DEF HandSame, GotData
  <2>2. \A k \in 1..Len(packets') : packets'[k].kind = "data" => packets'[k].at <= m
    BY <1>6 DEF ReadUpTo
  <2>3. GotData' /\ pktSerial' = serial' => pkt'.at <= m
    BY <1>6, <2>1 DEF ReadUpTo
  <2>4. Current' => \A k \in 1..Len(held') : held'[k] <= m
    BY <1>6, <2>1 DEF ReadUpTo
  <2> QED BY <1>1, <2>2, <2>3, <2>4 DEF ReadUpTo
<1>7. CASE QueueEmptied /\ HandSame
  <2>1. Len(packets') = 0
    BY <1>7 DEF QueueEmptied
  <2>2. Current' => Current
    BY <1>7 DEF QueueEmptied, HandSame, Current, GotFlush
  <2> QED BY <1>6, <1>7, <2>1, <2>2 DEF QueueEmptied
<1>8. ASSUME NEW kind \in {"flush", "null"}, QueuePut(kind, 0), HandSame
      PROVE  ReadUpTo(m)'
  <2>1. pktSerial' = pktSerial /\ (serial' = serial \/ serial' = serial + 1)
    BY <1>8 DEF QueuePut
  <2>2. ASSUME NEW k \in 1..Len(packets'), packets'[k].kind = "data"
        PROVE  k \in 1..Len(packets) /\ packets'[k] = packets[k]
    <3>1. /\ Len(packets') = Len(packets) + 1
          /\ packets'[Len(packets) + 1] = [kind |-> kind, at |-> 0, serial |-> serial']
          /\ \A i \in 1..Len(packets) : packets'[i] = packets[i]
      BY <1>8, QueuePutElements
    <3> QED BY <1>0, <1>8, <2>2, <3>1
  <2>3. pktSerial' = serial' => pktSerial = serial
    BY <1>0, <2>1
  <2>4. Current' => Current
    BY <1>8, <2>1, <2>3 DEF Current, GotFlush, HandSame
  <2> QED BY <1>6, <1>8, <2>1, <2>2, <2>3, <2>4
<1>9. CASE readAt = "queue" /\ QueuePut("data", pos) /\ HandSame
  <2>1. pktSerial' = pktSerial /\ serial' = serial /\ m = pos
    BY <1>9 DEF QueuePut
  <2>2. ASSUME NEW k \in 1..Len(packets'), packets'[k].kind = "data"
        PROVE  (k \in 1..Len(packets) /\ packets'[k] = packets[k]) \/ packets'[k].at = m
    <3>1. /\ Len(packets') = Len(packets) + 1
          /\ packets'[Len(packets) + 1] = [kind |-> "data", at |-> pos, serial |-> serial']
          /\ \A i \in 1..Len(packets) : packets'[i] = packets[i]
      BY <1>9, QueuePutElements
    <3> QED BY <1>0, <1>9, <2>1, <2>2, <3>1
  <2>3. Current' => Current
    BY <1>9, <2>1 DEF Current, GotFlush, HandSame
  <2> QED BY <1>6, <1>9, <2>1, <2>2, <2>3
<1> QED BY <1>2, <1>3, <1>4, <1>5, <1>7, <1>8, <1>9, FrameSteps DEF NullPut

(* Of a new serial nothing has been read.                                  *)
LEMMA ReadNew ==
  ASSUME Base, [Next]_vars, OrderInv, NEW m \in Nat,
         DecoderOpened \/ (readAt = "putFlush" /\ QueuePut("flush", 0))
  PROVE  ReadUpTo(m)'
<1>0. serial \in Nat /\ pktSerial \in Int /\ pktSerial <= serial /\ Len(packets) \in Nat
  BY FrameNumbers
<1>1. serial' = serial + 1 /\ pktSerial' # serial'
  BY <1>0 DEF DecoderOpened, QueueOpened, QueuePut
<1>2. ASSUME NEW k \in 1..Len(packets')
      PROVE  packets'[k].kind # "data"
  <2>1. CASE DecoderOpened
    <3>1. Len(packets') = 1 /\ packets'[1].kind = "flush"
      BY <2>1 DEF DecoderOpened, QueueOpened
    <3> QED BY <1>2, <3>1
  <2>2. CASE readAt = "putFlush" /\ QueuePut("flush", 0)
    <3>1. /\ Len(packets') = Len(packets) + 1
          /\ packets'[Len(packets) + 1] = [kind |-> "flush", at |-> 0, serial |-> serial']
          /\ \A i \in 1..Len(packets) : packets'[i] = packets[i]
      BY <2>2, QueuePutElements
    <3>2. \A i \in 1..Len(packets) : packets[i].kind = "flush"
      BY <2>2 DEF Base, QueueInv
    <3> QED BY <1>0, <1>2, <3>1, <3>2
  <2> QED BY <2>1, <2>2
<1>3. ASSUME NEW x \in Pics'
      PROVE  x.serial # serial'
  <2>1. ~NewPicture
    BY <1>0, <1>1 DEF NewPicture
  <2>2. x.serial <= serial /\ x.serial \in Nat
    BY <2>1, PicsStep, FrameNumbers DEF OrderInv, PicInv
  <2> QED BY <1>0, <1>1, <2>2
<1> QED BY <1>1, <1>2, <1>3 DEF ReadUpTo, Current

LEMMA ReadStep ==
  ASSUME Base, [Next]_vars, OrderInv
  PROVE  ReadInv'
<1> SUFFICES ASSUME ~abort', readAt' \notin {"flush", "putFlush"}
             PROVE  ReadUpTo(Limit)'
  BY DEF ReadInv
<1>0. PICK m : m = Limit'
  OBVIOUS
<1>1. m \in Nat /\ Limit \in Nat
  <2>1. TypeOK' /\ PlaceInv' /\ TypeOK /\ PlaceInv
    BY BaseStep DEF Base
  <2>2. pos \in Nat /\ pos' \in Nat
    BY <2>1, Constants DEF TypeOK, ReadType
  <2>3. (readAt \in {"put", "queue"} => pos > 0) /\ (readAt' \in {"put", "queue"} => pos' > 0)
    BY <2>1 DEF PlaceInv
  <2>4. Limit \in Nat
    BY <2>2, <2>3 DEF Limit
  <2>5. Limit' \in Nat
    <3>1. CASE readAt' \in {"put", "queue"}
      <4>1. Limit' = pos' - 1
        BY <3>1 DEF Limit
      <4>2. pos' > 0
        BY <2>3, <3>1
      <4>3. \A n \in Nat : n > 0 => n - 1 \in Nat
        OBVIOUS
      <4> QED BY <2>2, <4>1, <4>2, <4>3
    <3>2. CASE readAt' \notin {"put", "queue"}
      <4>1. Limit' = pos'
        BY <3>2 DEF Limit
      <4> QED BY <2>2, <4>1
    <3> QED BY <3>1, <3>2
  <2> QED BY <1>0, <2>4, <2>5
<1>2. ReadUpTo(m)'
  <2>1. CASE DecoderOpened \/ (readAt = "putFlush" /\ QueuePut("flush", 0))
    BY <1>1, <2>1, ReadNew
  <2>2. CASE /\ ~DecoderOpened /\ ~abort /\ readAt \notin {"flush", "putFlush"} /\ Limit <= m
             /\ readAt = "queue" => m = pos \/ (readAt' = "queue" /\ pos' = pos)
    <3>1. ReadUpTo(Limit)
      BY <2>2 DEF OrderInv, ReadInv
    <3>2. ReadUpTo(m)
      <4>1. \A n \in Nat : n <= Limit => n <= m
        BY <1>1, <2>2
      <4>2. \A x \in Pics : x.at <= Limit => x.at <= m
        BY <4>1, FrameNumbers
      <4>3. \A k \in 1..Len(packets) : packets[k].at <= Limit => packets[k].at <= m
        BY <4>1, FrameNumbers
      <4>4. \A k \in 1..Len(held) : held[k] <= Limit => held[k] <= m
        BY <4>1, FrameNumbers
      <4>5. GotData => (pkt.at <= Limit => pkt.at <= m)
        BY <4>1, FrameNumbers DEF GotData
      <4> QED BY <3>1, <4>2, <4>3, <4>4, <4>5 DEF ReadUpTo
    <3> QED BY <1>1, <2>2, <3>2, ReadUpToKept
  <2> QED BY <1>0, <2>1, <2>2, LimitSteps
<1> QED BY <1>0, <1>2 DEF ReadUpTo

LEMMA OrderStep ==
  ASSUME Base, [Next]_vars, OrderInv
  PROVE  OrderInv'
<1>1. ASSUME NEW x \in Pics'
      PROVE  PicInv(x)'
  <2>1. CASE x \in Pics
    BY <2>1, PicInvStep
  <2>2. CASE x \notin Pics
    <3>1. NewPicture
      BY <2>2, PicsStep
    <3>2. x = frame'
      <4>1. ASSUME NEW i \in 0..InRing' - 1
            PROVE  At(i)' \in Pics
        BY <3>1 DEF NewPicture, RingSame, Pics, At
      <4> QED BY <2>2, <4>1 DEF Pics
    <3> QED BY <3>1, <3>2, NewPicInv DEF PicInv
  <2> QED BY <2>1, <2>2
<1> QED BY <1>1, RingOrderStep, HeldStep, ReadStep DEF OrderInv

(* The pictures appear in order: only Display changes what is shown, to    *)
(* the first picture of pictq, which is the one shown or comes after it.   *)
THEOREM ShowsInOrderCorrect == Spec => ShowsInOrder
<1>1. Init => Base /\ OrderInv
  BY InitBase, InitOrder
<1>2. Base /\ OrderInv /\ [Next]_vars => (Base /\ OrderInv)'
  BY BaseStep, OrderStep
<1>3. Base /\ OrderInv /\ [Next]_vars =>
        [shown' # shown =>
           /\ shown' # None
           /\ shown # None =>
                \/ shown'.serial > shown.serial
                \/ shown'.serial = shown.serial /\ shown'.at > shown.at]_vars
  <2> SUFFICES ASSUME Base, OrderInv, [Next]_vars, shown' # shown
               PROVE  /\ shown' # None
                      /\ shown # None =>
                           \/ shown'.serial > shown.serial
                           \/ shown'.serial = shown.serial /\ shown'.at > shown.at
    OBVIOUS
  <2>1. Display
    BY Steps, ReaderRest, DecoderLeaves, UserLeaves, CloseLeaves
    DEF MainRest, Refresh, VideoRefresh, TooSoon, TakePicture, FrameQueueNext, FrameQueueLess, showVars
  <2>2. shown' = queue[rindex] /\ InRing > 0 /\ 0 \in 0..InRing - 1
    BY <2>1, RingNumbers DEF Display, Base, RingInv
  <2>3. shown' = At(0) /\ At(0) \in Pictures
    <3>1. (rindex + 0) % PictQueue = rindex
      BY Wrap, RingNumbers
    <3>2. At(0) = queue[rindex]
      BY <3>1, Zenon DEF At
    <3> QED BY <2>2, <3>2 DEF Base, RingInv
  <2>4. shown # None => shown \in Pictures /\ Earlier(shown, At(0))
    BY <2>3 DEF OrderInv, RingOrder, Base, TypeOK, MainType
  <2>5. \A x \in Pictures : x # None /\ x.serial \in Nat /\ x.at \in Nat
    BY PicTypes, Constants
  <2> QED BY <2>3, <2>4, <2>5 DEF Earlier
<1> QED BY <1>1, <1>2, <1>3, PTL DEF Spec, ShowsInOrder

-----------------------------------------------------------------------------
(* The end of the file.                                                    *)

(* The decoder is through with the serial, or is being drained of it.      *)
Finished  == finished = serial /\ serial > 0
Draining  == Current /\ (draining \/ (decAt = "got" /\ pkt.kind = "null"))
NullWaits == \E k \in 1..Len(packets) : packets[k].kind = "null"
NoData    == ~GotData /\ \A k \in 1..Len(packets) : packets[k].kind # "data"
IsPlacing == decAt \in {"room", "roomWait", "write", "push"}

(* The reader is at the end of the file, or about to tell of a seek.       *)
AtEnd == readAt \in {"flush", "putFlush", "ended"} \/ (pos = Length /\ readAt \notin {"put", "queue"})

(* What follows from the null packet at the end of the file.               *)
OverInv ==
  /\ ~abort /\ (Finished \/ Draining \/ NullWaits) => AtEnd
  /\ \A i, j \in 1..Len(packets) :
       i < j /\ packets[i].kind = "null" => packets[j].kind # "data"
  /\ Draining => NoData
  /\ Finished => Current /\ NoData /\ held = <<>> /\ ~IsPlacing
  /\ finished <= serial

LEMMA InitOver == Init => OverInv
<1> SUFFICES ASSUME Init PROVE OverInv
  OBVIOUS
<1>1. Len(packets) = 0 /\ ~Finished /\ ~Draining /\ finished <= serial
  BY DEF Init, Finished, Draining, Current
<1> QED BY <1>1 DEF OverInv, NullWaits

(* Where nothing is over there is nothing to know.                         *)
LEMMA OverNot ==
  ASSUME ~Finished', ~Draining', ~NullWaits', finished' <= serial'
  PROVE  OverInv'
BY DEF OverInv, NullWaits

LEMMA OverNumbers ==
  ASSUME Base
  PROVE  /\ serial \in Nat /\ pktSerial \in Int /\ pktSerial <= serial /\ finished \in Nat
         /\ Len(packets) \in Nat
         /\ decAt = "got" => pkt.kind \in {"flush", "data", "null"} /\ pkt.serial = pktSerial
BY FrameNumbers, Numbers DEF Base

(* Steps that change nothing of the decoder but where it is.               *)
DrainSame ==
  /\ UNCHANGED <<serial, pktSerial, finished, held, draining>>
  /\ decAt' = "got" <=> decAt = "got"
  /\ decAt = "got" => pkt' = pkt
  /\ IsPlacing' => IsPlacing

LEMMA DrainSameFacts ==
  ASSUME DrainSame
  PROVE  /\ Finished' <=> Finished
         /\ Draining' <=> Draining
         /\ Current' <=> Current
         /\ GotData' <=> GotData
         /\ held' = held /\ finished' = finished /\ serial' = serial
BY DEF DrainSame, Finished, Draining, Current, GotFlush, GotData

LEMMA OverSame ==
  ASSUME OverInv, DrainSame, packets' = packets, ~abort' => ~abort, ~abort' /\ AtEnd => AtEnd'
  PROVE  OverInv'
<1>1. (NullWaits' <=> NullWaits) /\ (NoData' <=> NoData)
  BY DrainSameFacts DEF NullWaits, NoData
<1>2. ~abort' /\ (Finished' \/ Draining' \/ NullWaits') => AtEnd'
  BY <1>1, DrainSameFacts DEF OverInv
<1>3. Finished' => Current' /\ NoData' /\ held' = <<>> /\ ~IsPlacing'
  BY <1>1, DrainSameFacts DEF OverInv, DrainSame
<1>4. Draining' => NoData'
  BY <1>1, DrainSameFacts DEF OverInv
<1> QED BY <1>2, <1>3, <1>4, DrainSameFacts DEF OverInv

(* The decoder's own steps.                                                *)
LEMMA OverVideo ==
  ASSUME Base, OverInv, VideoThread
  PROVE  OverInv'
<1>0. /\ serial \in Nat /\ pktSerial \in Int /\ pktSerial <= serial /\ finished \in Nat
      /\ decAt = "got" => pkt.kind \in {"flush", "data", "null"}
  BY OverNumbers
<1>1. /\ serial' = serial /\ abort' = abort /\ (AtEnd' <=> AtEnd)
  BY DecoderLeaves DEF ReadRest, AtEnd
<1> USE DEF decVars, codecVars, queueVars
<1>2. CASE DrainSame /\ packets' = packets
  BY <1>1, <1>2, OverSame
<1>3. CASE DecodeTop \/ PeekWritable \/ WritePicture \/ FrameQueuePush
  <2>1. DrainSame /\ packets' = packets
    BY <1>1, <1>3 DEF DecodeTop, PeekWritable, WritePicture, FrameQueuePush, DrainSame, IsPlacing
  <2> QED BY <1>2, <2>1
<1>4. CASE ReceiveFrame
  <2>0. /\ decAt = "receive" /\ decAt' # "got" /\ packets' = packets /\ pktSerial' = pktSerial
        /\ ~GotFlush /\ ~GotFlush' /\ ~GotData /\ ~GotData'
    BY <1>4 DEF ReceiveFrame, FilterFails, GotFlush, GotData
  <2>1. CASE held # <<>> /\ held' = Tail(held) /\ finished' = finished /\ draining' = draining
    <3>1. /\ ~Finished /\ ~Finished' /\ (Draining' => Draining)
          /\ (NullWaits' <=> NullWaits) /\ (NoData' <=> NoData)
      BY <1>1, <2>0, <2>1 DEF OverInv, Finished, Draining, Current, NullWaits, NoData
    <3> QED BY <1>1, <2>0, <2>1, <3>1 DEF OverInv
  <2>2. CASE /\ draining /\ held = <<>> /\ held' = held
             /\ finished' = pktSerial /\ ~draining' /\ decAt' = "top"
    <3>1. ~Draining' /\ (NullWaits' <=> NullWaits) /\ (NoData' <=> NoData) /\ ~IsPlacing'
      BY <2>0, <2>2 DEF Draining, NullWaits, NoData, IsPlacing
    <3>2. Finished' => Draining /\ Current'
      BY <1>1, <2>0, <2>2 DEF Finished, Draining, Current
    <3> QED BY <1>0, <1>1, <2>0, <2>2, <3>1, <3>2 DEF OverInv
  <2>3. CASE UNCHANGED <<finished, held, draining>> /\ decAt' \in {"ended", "get"}
    <3>1. DrainSame
      BY <1>1, <2>0, <2>3 DEF DrainSame, IsPlacing
    <3> QED BY <1>2, <2>0, <3>1
  <2>4. Len(held) > Delay => held # <<>>
    BY Constants
  <2> QED BY <1>4, <2>1, <2>2, <2>3, <2>4 DEF ReceiveFrame
<1>5. CASE GetPacket /\ decAt' # "got"
  <2>1. DrainSame /\ packets' = packets
    BY <1>1, <1>5 DEF GetPacket, DrainSame, IsPlacing
  <2> QED BY <1>2, <2>1
<1>6. CASE GetPacket /\ decAt' = "got"
  <2>1. /\ QueueGot /\ UNCHANGED <<finished, held, draining>> /\ ~GotFlush /\ ~GotData
        /\ decAt = "get" /\ ~IsPlacing'
    BY <1>1, <1>6, DecoderLeaves DEF GetPacket, QueueGot, ReadRest, GotFlush, GotData, IsPlacing
  <2>2. /\ pkt' = packets[1] /\ 1 \in 1..Len(packets) /\ pktSerial' = packets[1].serial /\ decAt' = "got"
        /\ packets[1].kind = "flush" => pktSerial < packets[1].serial
        /\ packets[1].kind # "flush" => pktSerial = serial /\ packets[1].serial = serial
        /\ packets[1].serial <= serial /\ packets[1].serial \in Nat
        /\ Len(packets') = Len(packets) - 1 /\ Len(packets) \in Nat
        /\ \A k \in 1..Len(packets') : packets'[k] = packets[k + 1] /\ k + 1 \in 1..Len(packets)
    BY <2>1, QueueGotTail, FrameNumbers
  <2>3. NullWaits' => NullWaits
    BY <2>2 DEF NullWaits
  <2>4. Finished' <=> Finished
    BY <1>1, <2>1 DEF Finished
  <2>5. Draining' => Draining \/ packets[1].kind = "null"
    BY <1>1, <2>1, <2>2 DEF Draining, Current, GotFlush
  <2>6. NoData => NoData'
    BY <2>2 DEF NoData, GotData
  <2>7. packets[1].kind = "null" => NoData' /\ NullWaits
    <3>1. \A k \in 1..Len(packets') : 1 < k + 1
      BY <2>2
    <3> QED BY <2>2, <3>1 DEF OverInv, NoData, NullWaits, GotData
  <2>8. Current => Current'
    BY <1>0, <1>1, <2>1, <2>2 DEF Current, GotFlush
  <2>9. ASSUME NEW i \in 1..Len(packets'), NEW j \in 1..Len(packets'), i < j, packets'[i].kind = "null"
        PROVE  packets'[j].kind # "data"
    <3>1. i + 1 < j + 1
      BY <2>2, <2>9
    <3> QED BY <2>2, <2>9, <3>1 DEF OverInv
  <2>10. ~abort' /\ (Finished' \/ Draining' \/ NullWaits') => AtEnd'
    BY <1>1, <2>3, <2>4, <2>5, <2>7 DEF OverInv
  <2>11. Finished' => Current' /\ NoData' /\ held' = <<>> /\ ~IsPlacing'
    BY <2>1, <2>4, <2>6, <2>8 DEF OverInv
  <2>12. Draining' => NoData'
    BY <2>5, <2>6, <2>7 DEF OverInv
  <2> QED BY <1>1, <2>1, <2>9, <2>10, <2>11, <2>12 DEF OverInv
<1>7. CASE GotPacket
  <2>0. /\ decAt = "got" /\ decAt' \in {"get", "top"} /\ packets' = packets /\ pktSerial' = pktSerial
        /\ ~GotFlush' /\ ~GotData' /\ ~IsPlacing' /\ (NullWaits' <=> NullWaits) /\ (NoData => NoData')
    BY <1>7 DEF GotPacket, GotFlush, GotData, NullWaits, NoData, IsPlacing
  <2>1. CASE serial # pktSerial /\ UNCHANGED <<finished, held, draining>>
    <3>1. ~Current /\ ~Current'
      BY <1>1, <2>0, <2>1 DEF Current
    <3>2. ~Finished' /\ ~Draining'
      BY <1>1, <2>1, <3>1 DEF OverInv, Finished, Draining
    <3> QED BY <1>1, <2>0, <2>1, <3>2 DEF OverInv
  <2>2. CASE serial = pktSerial /\ pkt.kind = "flush" /\ Decode
    <3>1. finished' = 0 /\ ~draining'
      BY <2>2 DEF Decode
    <3>2. ~Finished' /\ ~Draining'
      BY <1>0, <1>1, <2>0, <3>1 DEF Finished, Draining
    <3> QED BY <1>0, <1>1, <2>0, <3>1, <3>2 DEF OverInv
  <2>3. CASE serial = pktSerial /\ pkt.kind = "null" /\ Decode
    <3>1. finished' = finished /\ held' = held
      BY <2>3 DEF Decode
    <3>2. Current /\ Current' /\ Draining /\ (Finished' <=> Finished)
      BY <1>1, <2>0, <2>3, <3>1 DEF Draining, Current, GotFlush, Finished
    <3> QED BY <1>0, <1>1, <2>0, <3>1, <3>2 DEF OverInv
  <2>4. CASE serial = pktSerial /\ pkt.kind = "data" /\ Decode
    <3>1. finished' = finished /\ (draining' <=> draining)
      BY <2>4 DEF Decode
    <3>2. ~NoData /\ Current
      BY <2>0, <2>4 DEF NoData, GotData, Current, GotFlush
    <3>3. ~Finished /\ ~Draining
      BY <3>2 DEF OverInv
    <3>4. ~Finished' /\ ~Draining'
      BY <1>1, <2>0, <3>1, <3>2, <3>3 DEF Finished, Draining
    <3> QED BY <1>1, <2>0, <3>1, <3>4 DEF OverInv
  <2> QED BY <1>0, <1>7, <2>0, <2>1, <2>2, <2>3, <2>4 DEF GotPacket
<1> QED BY <1>3, <1>4, <1>5, <1>6, <1>7 DEF VideoThread

(* The reader leaves the end of the file only to begin a new serial.       *)
LEMMA AtEndKept ==
  ASSUME Base, [Next]_vars, AtEnd, ~abort'
  PROVE  AtEnd' \/ (readAt = "putFlush" /\ QueuePut("flush", 0))
<1>0. PlaceInv /\ pos \in 0..Length /\ Length \in Nat
  BY FrameNumbers, Constants DEF Base, TypeOK, ReadType
<1> USE DEF AtEnd
<1>1. CASE ReadThread
  <2>1. CASE OpenFile
    BY <2>1 DEF OpenFile
  <2>2. abort' = abort \/ OpenFile
    BY <1>1, ReaderStream
  <2>3. CASE ReadLoop
    <3>1. ~abort /\ readAt = "loop" /\ readAt' \notin {"put", "queue"}
      BY <2>2, <2>3 DEF ReadLoop, OpenFile
    <3>2. videoStream >= 0 \/ videoStream < 0
      BY DEF Base, TypeOK, StreamType, Streams
    <3>3. pos' = pos \/ readAt' = "flush"
      BY <1>0, <2>3, <3>1, <3>2 DEF ReadLoop, PlaceInv, Closed
    <3> QED BY <3>1, <3>3
  <2>4. CASE FlushQueue
    BY <2>4 DEF FlushQueue
  <2>5. CASE PutFlush
    BY <2>2, <2>5, PutCases DEF PutFlush, QueuePut, OpenFile, decVars
  <2>6. CASE Sought \/ IfFull \/ IfEnd \/ PutNull \/ PutLast \/ ComparePacket \/ PutPacket
    BY <2>6 DEF Sought, IfFull, IfEnd, PutNull, PutLast, ComparePacket, PutPacket
  <2>7. CASE ReadFrame \/ WaitAfterError \/ SetEof
    BY <1>0, <2>7 DEF ReadFrame, FailedRead, MarkEnd, WaitAfterError, SetEof
  <2> QED BY <1>1, <2>1, <2>3, <2>4, <2>5, <2>6, <2>7 DEF ReadThread
<1>2. CASE ~ReadThread
  <2>1. readAt' = readAt /\ pos' = pos
    BY <1>2, Steps, DecoderLeaves, RefreshLeaves, UserLeaves, CloseLeaves DEF ReadRest
  <2> QED BY <2>1
<1> QED BY <1>1, <1>2

LEMMA OverStep ==
  ASSUME Base, [Next]_vars, OverInv
  PROVE  OverInv'
<1>0. /\ serial \in Nat /\ pktSerial \in Int /\ pktSerial <= serial /\ finished \in Nat
      /\ Len(packets) \in Nat /\ finished <= serial /\ PlaceInv
  BY OverNumbers DEF OverInv, Base
<1>1. CASE VideoThread
  BY <1>1, OverVideo
<1>2. CASE DecoderOpened
  <2>1. Len(packets') = 1 /\ packets'[1].kind = "flush"
    BY <1>2 DEF DecoderOpened, QueueOpened
  <2>2. serial' = serial + 1 /\ pktSerial' = -1 /\ finished' = 0
    BY <1>2 DEF DecoderOpened, QueueOpened
  <2>3. ~Finished' /\ ~Draining' /\ ~NullWaits' /\ finished' <= serial'
    BY <1>0, <2>1, <2>2 DEF Finished, Draining, Current, NullWaits
  <2> QED BY <2>3, OverNot
<1>3. CASE DecoderWoken
  <2>0. ~abort' => ~abort
    BY <1>3 DEF DecoderWoken
  <2>1. serial' = serial => DrainSame
    BY <1>3 DEF DecoderWoken, DrainSame, IsPlacing
  <2>2. ~QueueGot /\ ~QueueOpened
    BY <1>3 DEF DecoderWoken, QueueGot, QueueOpened
  <2>3. CASE readAt = "putFlush" /\ QueuePut("flush", 0)
    <3>1. serial' = serial + 1 /\ pktSerial' = pktSerial /\ finished' = finished
      BY <1>3, <2>3 DEF QueuePut, DecoderWoken
    <3>2. ~NullWaits'
      <4>1. /\ Len(packets') = Len(packets) + 1
            /\ packets'[Len(packets) + 1] = [kind |-> "flush", at |-> 0, serial |-> serial']
            /\ \A i \in 1..Len(packets) : packets'[i] = packets[i]
        BY <2>3, QueuePutElements
      <4>2. \A i \in 1..Len(packets) : packets[i].kind = "flush"
        BY <2>3 DEF Base, QueueInv
      <4>3. \A i \in 1..Len(packets') : packets'[i].kind = "flush"
        BY <1>0, <4>1, <4>2
      <4> QED BY <4>3 DEF NullWaits
    <3>3. ~Finished' /\ ~Draining' /\ finished' <= serial'
      BY <1>0, <3>1 DEF Finished, Draining, Current
    <3> QED BY <3>2, <3>3, OverNot
  <2>4. CASE readAt = "queue" /\ QueuePut("data", pos)
    <3>1. DrainSame /\ ~abort /\ ~AtEnd
      BY <2>1, <2>4 DEF QueuePut, AtEnd
    <3>2. ~Finished /\ ~Draining /\ ~NullWaits
      BY <3>1 DEF OverInv
    <3>3. ~NullWaits'
      <4>1. /\ Len(packets') = Len(packets) + 1
            /\ packets'[Len(packets) + 1] = [kind |-> "data", at |-> pos, serial |-> serial']
            /\ \A i \in 1..Len(packets) : packets'[i] = packets[i]
        BY <2>4, QueuePutElements
      <4>2. \A i \in 1..Len(packets') : packets'[i].kind # "null"
        BY <1>0, <3>2, <4>1 DEF NullWaits
      <4> QED BY <4>2 DEF NullWaits
    <3> QED BY <1>0, <3>1, <3>2, <3>3, DrainSameFacts, OverNot
  <2>5. CASE NullPut
    <3>1. DrainSame /\ ~abort
      BY <2>1, <2>5 DEF QueuePut, NullPut
    <3>2. /\ Len(packets') = Len(packets) + 1
          /\ packets'[Len(packets) + 1] = [kind |-> "null", at |-> 0, serial |-> serial']
          /\ \A i \in 1..Len(packets) : packets'[i] = packets[i]
      BY <2>5, QueuePutElements DEF NullPut
    <3>3. AtEnd'
      <4>1. CASE readAt = "putNull"
        <5>1. AtEnd /\ ~abort'
          BY <1>0, <2>5, <4>1 DEF PlaceInv, AtEnd, QueuePut, NullPut
        <5> QED BY <4>1, <5>1, AtEndKept
      <4>2. CASE readAt' = "ended"
        BY <4>2 DEF AtEnd
      <4> QED BY <2>5, <4>1, <4>2 DEF NullPut
    <3>4. NoData => NoData'
      BY <1>0, <3>1, <3>2, DrainSameFacts DEF NoData
    <3>5. ASSUME NEW i \in 1..Len(packets'), NEW j \in 1..Len(packets'), i < j, packets'[i].kind = "null"
          PROVE  packets'[j].kind # "data"
      BY <1>0, <3>2, <3>5 DEF OverInv
    <3>6. Finished' => Current' /\ NoData' /\ held' = <<>> /\ ~IsPlacing'
      BY <3>1, <3>4, DrainSameFacts DEF OverInv, DrainSame
    <3> QED BY <3>1, <3>3, <3>4, <3>5, <3>6, DrainSameFacts DEF OverInv
  <2>6. CASE QueueSame
    <3>1. DrainSame /\ packets' = packets
      BY <2>1, <2>6 DEF QueueSame
    <3>2. ~QueuePut("flush", 0)
      BY <1>0, <2>6 DEF QueueSame, QueuePut
    <3> QED BY <2>0, <3>1, <3>2, AtEndKept, OverSame
  <2>7. CASE QueueEmptied
    <3>1. DrainSame /\ Len(packets') = 0
      BY <2>1, <2>7 DEF QueueEmptied
    <3>2. ~NullWaits' /\ (NoData => NoData')
      BY <3>1, DrainSameFacts DEF NullWaits, NoData
    <3>3. ~QueuePut("flush", 0)
      BY <1>0, <2>7 DEF QueueEmptied, QueuePut
    <3>4. ~abort' /\ AtEnd => AtEnd'
      BY <3>3, AtEndKept
    <3>5. Finished' => Current' /\ NoData' /\ held' = <<>> /\ ~IsPlacing'
      BY <3>1, <3>2, DrainSameFacts DEF OverInv, DrainSame
    <3> QED BY <2>0, <3>1, <3>2, <3>4, <3>5, DrainSameFacts DEF OverInv
  <2> QED BY <2>2, <2>3, <2>4, <2>5, <2>6, <2>7, QueueSteps
<1> QED BY <1>1, <1>2, <1>3, DecoderSteps

-----------------------------------------------------------------------------
(* What is on the screen, or about to be.                                  *)

(* The last picture of pictq is of the current serial.                     *)
Last == At(InRing - 1)
HasCurrent == InRing > 0 /\ Last.serial = serial

(* The clock of the current serial was set by a picture that was in pictq. *)
ClockInv == vidclk <= serial /\ (vidclk = serial => HasCurrent)

(* The decoder drops no frame before one of its serial was put in pictq.   *)
FrameInv ==
  /\ frame # None /\ frame.serial = serial
  /\ decAt \in {"top", "receive", "get", "getWait", "got", "push"} \/ Finished
  => HasCurrent

(* The main thread drops no picture that is the last of the serial.        *)
DropInv ==
  /\ mainAt = "next" /\ dropping => NbRemaining > 1 \/ At(rindexShown).serial < serial
  /\ mainAt = "less" /\ dropping => NbRemaining > 1 \/ At(0).serial < serial

(* A picture that was taken and has no other behind it is displayed.       *)
LoneInv ==
  rindexShown = 1 /\ size = 1 /\ mainAt # "display" /\ At(0).serial = serial =>
    shown # None /\ shown.serial = serial

ShowInv == ClockInv /\ FrameInv /\ DropInv /\ LoneInv

LEMMA InitShow == Init => ShowInv
<1> SUFFICES ASSUME Init PROVE ShowInv
  OBVIOUS
<1>1. vidclk = -1 /\ serial = 0 /\ frame = None /\ mainAt = "events" /\ rindexShown = 0
  BY DEF Init
<1> QED BY <1>1 DEF ShowInv, ClockInv, FrameInv, DropInv, LoneInv

(* A picture of the current serial in pictq makes the last one of it, ...  *)
LEMMA RingCurrent ==
  ASSUME Base, OrderInv, NEW i \in 0..InRing - 1
  PROVE  /\ At(i).serial \in Nat /\ At(i).serial <= serial
         /\ At(i).serial = serial => HasCurrent
<1>1. /\ InRing \in Nat /\ serial \in Nat
      /\ \A j \in 0..InRing - 1 : At(j).serial \in Nat /\ At(j).serial <= serial
  BY RingNumbers, PicTypes, FrameNumbers DEF OrderInv, PicInv
<1>2. i < InRing - 1 => Earlier(At(i), At(InRing - 1))
  BY <1>1 DEF OrderInv, RingOrder
<1> QED BY <1>1, <1>2 DEF HasCurrent, Last, Earlier

(* ... and it stays so until the serial is another.                        *)
LEMMA CurrentKept ==
  ASSUME Base, [Next]_vars, OrderInv, HasCurrent, serial' = serial
  PROVE  HasCurrent'
<1>1. InRing \in Nat /\ InRing > 0 /\ serial \in Nat /\ At(InRing - 1).serial = serial
  BY RingNumbers, FrameNumbers DEF HasCurrent, Last
<1>2. CASE RingSame
  BY <1>1, <1>2 DEF RingSame, HasCurrent, Last, At
<1>3. CASE WritePicture /\ RingGrows
  <2>1. InRing' > 0 /\ InRing' - 1 = InRing
    BY <1>1, <1>3 DEF RingGrows
  <2>2. Last' = frame
    <3>1. Last' = queue'[(rindex' + (InRing' - 1)) % PictQueue]
      BY DEF Last, At
    <3> QED BY <1>3, <2>1, <3>1, Zenon DEF RingGrows
  <2>3. IsComing
    BY <1>3 DEF WritePicture, IsComing
  <2>4. Earlier(At(InRing - 1), frame) /\ frame \in Pictures /\ frame.serial <= serial
    BY <1>1, <2>3, PicTypes DEF OrderInv, RingOrder, Base, DecoderInv
  <2>5. frame.serial \in Nat
    BY <2>4, PicTypes
  <2> QED BY <1>1, <2>1, <2>2, <2>4, <2>5 DEF HasCurrent, Earlier
<1>4. CASE RingShrinks
  <2>1. InRing' > 0 /\ InRing' - 1 \in 0..InRing - 2 /\ (InRing' - 1) + 1 = InRing - 1
    BY <1>1, <1>4 DEF RingShrinks
  <2>2. Last' = At(InRing - 1)
    <3>1. PICK n : n = InRing' - 1
      OBVIOUS
    <3>2. At(n)' = At(n + 1)
      BY <1>4, <2>1, <3>1 DEF RingShrinks
    <3>3. Last' = At(n)'
      BY <3>1 DEF Last, At
    <3> QED BY <2>1, <3>1, <3>2, <3>3
  <2> QED BY <1>1, <2>1, <2>2 DEF HasCurrent
<1> QED BY <1>2, <1>3, <1>4, RingSteps

(* What the others leave of the main thread's view.                        *)
LEMMA ShowSteps ==
  ASSUME [Next]_vars
  PROVE  \/ VideoRefresh \/ TakePicture \/ FrameQueueNext \/ FrameQueueLess \/ Display
         \/ /\ UNCHANGED <<shown, vidclk, dropping, rindexShown>>
            /\ \/ mainAt' = mainAt
               \/ {mainAt, mainAt'} \cap {"next", "less", "display"} = {}
<1>1. CASE VideoThread
  BY <1>1, DecoderLeaves DEF MainRest
<1>2. CASE ReadThread
  BY <1>2, ReaderRest DEF MainRest, RingRest
<1>3. CASE TooSoon
  BY <1>3 DEF TooSoon, showVars, pictVars
<1>4. CASE Key \/ CycleChannel \/ StreamClose
  <2>1. mainAt' = mainAt \/ {mainAt, mainAt'} \cap {"next", "less", "display"} = {}
    BY <1>4 DEF Key, CycleChannel, StreamClose
  <2> QED BY <1>4, <2>1, UserLeaves DEF RingRest
<1>5. CASE Close
  <2>1. mainAt' = mainAt \/ {mainAt, mainAt'} \cap {"next", "less", "display"} = {}
    BY <1>5 DEF Close, JoinReader, Abort, Signal, JoinDecoder, UnsetStream, OpenOther
  <2> QED BY <1>5, <2>1, CloseLeaves DEF RingRest
<1>6. CASE MainRest /\ RingRest
  BY <1>6 DEF MainRest, RingRest
<1> QED BY <1>1, <1>2, <1>3, <1>4, <1>5, <1>6, Steps DEF Refresh

LEMMA ClockStep ==
  ASSUME Base, [Next]_vars, OrderInv, ShowInv
  PROVE  ClockInv'
<1>0. /\ serial \in Nat /\ serial' \in Nat /\ serial' >= serial /\ vidclk \in Int
      /\ vidclk <= serial /\ (vidclk = serial => HasCurrent)
  <2>1. serial' \in Nat /\ serial' >= serial
    BY TypeStep, SerialGrows, SerialRange DEF TypeOK, StreamType
  <2>2. vidclk \in Int
    BY SerialRange DEF Base, TypeOK, MainType
  <2> QED BY <2>1, <2>2, FrameNumbers DEF ShowInv, ClockInv
<1>1. CASE TakePicture
  <2>1. /\ vidclk' = At(rindexShown).serial /\ serial' = serial /\ mainAt = "peeked"
    BY <1>1 DEF TakePicture, Peek, At, queueVars
  <2>2. rindexShown \in 0..InRing - 1
    BY <2>1, RingNumbers DEF Base, RingInv
  <2> QED BY <1>0, <2>1, <2>2, RingCurrent, CurrentKept DEF ClockInv
<1>2. CASE ~TakePicture
  <2>1. vidclk' = vidclk
    BY <1>2, ShowSteps DEF VideoRefresh, FrameQueueNext, FrameQueueLess, Display, showVars
  <2> QED BY <1>0, <2>1, CurrentKept DEF ClockInv
<1> QED BY <1>1, <1>2

LEMMA FrameStep ==
  ASSUME Base, [Next]_vars, OrderInv, OverInv, ShowInv
  PROVE  FrameInv'
<1> DEFINE Past == decAt \in {"top", "receive", "get", "getWait", "got", "push"}
<1>0. /\ serial \in Nat /\ serial' \in Nat /\ serial' >= serial /\ pktSerial \in Int
      /\ frame \in Pictures \cup {None}
      /\ frame # None => frame.serial \in Nat /\ frame.serial <= serial
  <2>1. serial' \in Nat /\ serial' >= serial
    BY TypeStep, SerialGrows, SerialRange DEF TypeOK, StreamType
  <2>2. frame \in Pictures \cup {None}
    BY DEF Base, TypeOK, DecoderType
  <2>3. frame \in Pictures => frame.serial \in Nat /\ frame.serial <= serial
    BY PicTypes DEF Base, DecoderInv
  <2> QED BY <2>1, <2>2, <2>3, FrameNumbers
<1> SUFFICES ASSUME frame' # None, frame'.serial = serial', Past' \/ Finished'
             PROVE  HasCurrent'
  BY DEF FrameInv
<1>1. CASE ReceiveFrame
  <2>0. /\ decAt = "receive" /\ serial' = serial /\ pktSerial' = pktSerial
    BY <1>1 DEF ReceiveFrame, queueVars
  <2>1. CASE frame' = frame
    <3>1. HasCurrent
      BY <2>0, <2>1 DEF ShowInv, FrameInv
    <3> QED BY <2>0, <3>1, CurrentKept
  <2>2. CASE /\ held # <<>> /\ frame' = [serial |-> pktSerial, at |-> Head(held)] /\ finished' = finished
             /\ decAt' = "room" \/ (DropEarly /\ decAt' = "top") \/ decAt' = "ended"
    <3>1. ~Finished'
      BY <2>0, <2>2 DEF OverInv, Finished
    <3>2. DropEarly
      BY <2>2, <3>1
    <3>3. vidclk = serial
      BY <2>0, <2>2, <3>2 DEF DropEarly
    <3> QED BY <2>0, <3>3, CurrentKept DEF ShowInv, ClockInv
  <2>3. Len(held) > Delay => held # <<>>
    BY Constants
  <2> QED BY <1>1, <2>1, <2>2, <2>3 DEF ReceiveFrame, FilterFails, codecVars
<1>2. CASE ~ReceiveFrame
  <2>1. frame' = frame
    BY <1>2, DecoderSteps
    DEF VideoThread, DecodeTop, GetPacket, GotPacket, PeekWritable, WritePicture, FrameQueuePush,
        DecoderWoken, DecoderOpened, decVars, codecVars
  <2>2. serial' = serial /\ frame # None /\ frame.serial = serial
    BY <1>0, <2>1
  <2>3. CASE WritePicture
    <3>1. RingGrows
      BY <2>3, RingWrite
    <3>2. InRing \in Nat /\ InRing' > 0 /\ InRing' - 1 = InRing
      BY <3>1, RingNumbers DEF RingGrows
    <3>3. Last' = frame
      <4>1. Last' = queue'[(rindex' + (InRing' - 1)) % PictQueue]
        BY DEF Last, At
      <4> QED BY <3>1, <3>2, <4>1, Zenon DEF RingGrows
    <3> QED BY <2>2, <3>2, <3>3 DEF HasCurrent
  <2>4. CASE ~WritePicture
    <3>1. Past \/ Finished
      <4>1. CASE VideoThread
        <5>1. CASE DecodeTop \/ GetPacket \/ GotPacket \/ FrameQueuePush
          BY <5>1 DEF DecodeTop, GetPacket, GotPacket, FrameQueuePush
        <5>2. CASE PeekWritable
          BY <2>2, <5>2 DEF PeekWritable, Finished, decVars
        <5> QED BY <1>2, <2>4, <4>1, <5>1, <5>2 DEF VideoThread
      <4>2. CASE DecoderWoken
        BY <2>2, <4>2 DEF DecoderWoken, Finished
      <4>3. ~DecoderOpened
        BY <1>0, <2>2 DEF DecoderOpened, QueueOpened
      <4> QED BY <4>1, <4>2, <4>3, DecoderSteps
    <3>2. HasCurrent
      BY <2>2, <3>1 DEF ShowInv, FrameInv
    <3> QED BY <2>2, <3>2, CurrentKept
  <2> QED BY <2>3, <2>4
<1> QED BY <1>1, <1>2

(* Who counts pictq, and who moves in it.                                  *)
LEMMA SizeSteps ==
  ASSUME Base, [Next]_vars
  PROVE  \/ size' = size
         \/ FrameQueuePush /\ size' = size + 1
         \/ FrameQueueLess /\ size' = size - 1
<1>1. CASE VideoThread
  BY <1>1 DEF VideoThread, DecodeTop, ReceiveFrame, GetPacket, GotPacket, PeekWritable,
     WritePicture, FrameQueuePush, pictVars
<1>2. CASE Refresh \/ TooSoon
  BY <1>2 DEF Refresh, TooSoon, VideoRefresh, TakePicture, FrameQueueNext, FrameQueueLess,
     Display, pictVars
<1> QED BY <1>1, <1>2, Steps, ReaderRest, UserLeaves, CloseLeaves DEF RingRest

LEMMA ShownSteps ==
  ASSUME [Next]_vars, ~FrameQueueNext
  PROVE  rindexShown' = rindexShown
BY ShowSteps DEF VideoRefresh, TakePicture, FrameQueueLess, Display, pictVars

LEMMA AtKept ==
  ASSUME Base, [Next]_vars, ~FrameQueueNext
  PROVE  \A i \in 0..InRing - 1 : At(i)' = At(i)
<1>1. CASE RingSame
  BY <1>1 DEF RingSame, At
<1> QED BY <1>1, RingSteps DEF RingGrows

LEMMA DropStep ==
  ASSUME Base, [Next]_vars, OrderInv, ShowInv
  PROVE  DropInv'
<1>0. /\ serial \in Nat /\ serial' \in Nat /\ serial' >= serial /\ InRing \in Nat
      /\ size \in Nat /\ size' \in Nat /\ rindexShown \in {0, 1} /\ DropInv
      /\ mainAt # "less" => InRing >= size
  <2>1. serial' \in Nat /\ serial' >= serial
    BY TypeStep, SerialGrows, SerialRange DEF TypeOK, StreamType
  <2>2. size' \in Nat
    BY TypeStep, Constants DEF TypeOK, RingType
  <2> QED BY <2>1, <2>2, FrameNumbers, RingNumbers DEF ShowInv
<1>1. CASE VideoRefresh
  <2>1. CASE NbRemaining > 0 /\ Peek.serial # serial /\ mainAt' = "next"
    <3>1. /\ rindexShown \in 0..InRing - 1 /\ At(rindexShown).serial # serial
          /\ serial' = serial /\ rindexShown' = rindexShown /\ rindex' = rindex /\ queue' = queue
      BY <1>0, <1>1, <2>1 DEF VideoRefresh, NbRemaining, Peek, At, queueVars, pictVars
    <3>2. At(rindexShown).serial < serial
      BY <1>0, <3>1, RingCurrent
    <3>3. At(rindexShown)' = At(rindexShown)
      <4>1. At(rindexShown)' = queue'[(rindex' + rindexShown') % PictQueue]
        BY DEF At
      <4> QED BY <3>1, <4>1, Zenon DEF At
    <3>4. At(rindexShown)'.serial < serial'
      BY <3>1, <3>2, <3>3
    <3> QED BY <2>1, <3>4 DEF DropInv
  <2>2. CASE mainAt' \notin {"next", "less"}
    BY <2>2 DEF DropInv
  <2> QED BY <1>1, <2>1, <2>2 DEF VideoRefresh
<1>2. CASE TakePicture
  <2>1. dropping' => NbRemaining' > 1
    BY <1>2 DEF TakePicture, NbRemaining, pictVars
  <2>2. mainAt' = "next"
    BY <1>2 DEF TakePicture
  <2> QED BY <2>1, <2>2 DEF DropInv
<1>3. CASE FrameQueueNext
  <2>0. /\ dropping' = dropping /\ size' = size /\ serial' = serial /\ mainAt = "next"
    BY <1>3 DEF FrameQueueNext, showVars, queueVars
  <2>1. CASE rindexShown = 0
    BY <1>3, <2>1 DEF FrameQueueNext, AfterNext, DropInv
  <2>2. CASE rindexShown = 1
    <3>1. mainAt' = "less" /\ rindexShown' = rindexShown
      BY <1>3, <2>2 DEF FrameQueueNext
    <3>2. RingShrinks
      BY <1>3, <2>2, RingNext
    <3>3. At(0)' = At(1)
      <4>1. 0 \in 0..InRing - 2 /\ 0 + 1 = 1
        BY <1>0, <3>2 DEF RingShrinks
      <4> QED BY <3>2, <4>1 DEF RingShrinks
    <3>4. dropping => NbRemaining > 1 \/ At(1).serial < serial
      BY <1>0, <2>0, <2>2 DEF DropInv
    <3>5. dropping' => NbRemaining' > 1 \/ At(0)'.serial < serial'
      BY <2>0, <3>1, <3>3, <3>4 DEF NbRemaining
    <3> QED BY <3>1, <3>5 DEF DropInv
  <2> QED BY <1>0, <2>1, <2>2
<1>4. CASE FrameQueueLess \/ Display
  BY <1>4 DEF FrameQueueLess, Display, AfterNext, DropInv
<1>5. CASE ~(VideoRefresh \/ TakePicture \/ FrameQueueNext \/ FrameQueueLess \/ Display)
  <2>1. /\ UNCHANGED <<dropping, rindexShown>>
        /\ mainAt' = mainAt \/ mainAt' \notin {"next", "less"}
    BY <1>5, ShowSteps
  <2>2. size' >= size
    BY <1>0, <1>5, SizeSteps
  <2>3. NbRemaining > 1 => NbRemaining' > 1
    <3>1. NbRemaining = size - rindexShown /\ NbRemaining' = size' - rindexShown
      BY <2>1 DEF NbRemaining
    <3>2. ASSUME NEW a \in Nat, NEW b \in Nat, NEW r \in {0, 1}, b >= a
          PROVE  a - r > 1 => b - r > 1
      BY <3>2
    <3>3. size - rindexShown > 1 => size' - rindexShown > 1
      BY <1>0, <2>2, <3>2
    <3> QED BY <3>1, <3>3, Zenon
  <2>4. CASE mainAt' = "next" /\ dropping'
    <3>1. mainAt = "next" /\ dropping
      BY <2>1, <2>4
    <3>2. rindexShown \in 0..InRing - 1
      BY <1>0, <3>1 DEF Base, RingInv
    <3>3. At(rindexShown)' = At(rindexShown)
      <4>1. PICK r : r = rindexShown
        OBVIOUS
      <4>2. At(r)' = At(r)
        BY <1>5, <3>2, <4>1, AtKept
      <4>3. At(rindexShown)' = At(r)'
        BY <2>1, <4>1, Zenon DEF At
      <4> QED BY <4>1, <4>2, <4>3
    <3>4. At(rindexShown).serial \in Nat
      BY <3>2, RingCurrent
    <3>5. NbRemaining' > 1 \/ At(rindexShown)'.serial < serial'
      BY <1>0, <2>3, <3>1, <3>3, <3>4 DEF DropInv
    <3> QED BY <2>4, <3>5 DEF DropInv
  <2>5. CASE mainAt' = "less" /\ dropping'
    <3>1. mainAt = "less" /\ dropping
      BY <2>1, <2>5
    <3>2. 0 \in 0..InRing - 1
      BY <1>0, <3>1, RingNumbers DEF Base, RingInv, Bit
    <3>3. At(0)' = At(0) /\ At(0).serial \in Nat
      BY <1>5, <3>2, AtKept, RingCurrent
    <3>5. NbRemaining' > 1 \/ At(0)'.serial < serial'
      BY <1>0, <2>3, <3>1, <3>3 DEF DropInv
    <3> QED BY <2>5, <3>5 DEF DropInv
  <2> QED BY <2>4, <2>5 DEF DropInv
<1> QED BY <1>1, <1>2, <1>3, <1>4, <1>5

LEMMA LoneStep ==
  ASSUME Base, [Next]_vars, OrderInv, ShowInv
  PROVE  LoneInv'
<1> SUFFICES ASSUME rindexShown' = 1, size' = 1, mainAt' # "display", At(0)'.serial = serial'
             PROVE  shown' # None /\ shown'.serial = serial'
  BY DEF LoneInv
<1>0. /\ serial \in Nat /\ serial' \in Nat /\ serial' >= serial /\ InRing \in Nat
      /\ size \in Nat /\ rindexShown \in {0, 1} /\ rindexShown <= size
      /\ mainAt # "less" => InRing >= size
  <2>1. serial' \in Nat /\ serial' >= serial
    BY TypeStep, SerialGrows, SerialRange DEF TypeOK, StreamType
  <2> QED BY <2>1, FrameNumbers, RingNumbers
<1>1. CASE FrameQueueNext
  <2>0. /\ size' = size /\ serial' = serial /\ mainAt = "next" /\ size > rindexShown
    BY <1>1 DEF FrameQueueNext, queueVars, Base, RingInv
  <2>1. rindexShown = 0 /\ rindex' = rindex /\ queue' = queue /\ mainAt' = AfterNext
    BY <1>0, <1>1, <2>0 DEF FrameQueueNext
  <2>2. dropping
    BY <2>1 DEF AfterNext
  <2>3. At(0).serial < serial
    BY <2>0, <2>1, <2>2 DEF ShowInv, DropInv, NbRemaining
  <2>4. At(0)' = At(0)
    BY <2>1, Zenon DEF At
  <2> QED BY <1>0, <2>0, <2>3, <2>4
<1>2. CASE FrameQueueLess
  <2>0. /\ size' = size - 1 /\ serial' = serial /\ mainAt = "less" /\ mainAt' = AfterNext
    BY <1>2 DEF FrameQueueLess, queueVars
  <2>1. size = 2 /\ rindexShown = 1 /\ dropping
    BY <1>0, <2>0 DEF AfterNext, Base, RingInv
  <2>2. At(0).serial < serial
    BY <2>0, <2>1 DEF ShowInv, DropInv, NbRemaining
  <2>3. 0 \in 0..InRing - 1
    BY <1>0, <2>0, <2>1, RingNumbers DEF Bit
  <2>4. At(0)' = At(0) /\ At(0).serial \in Nat
    <3>1. ~FrameQueueNext
      BY <2>0 DEF FrameQueueNext
    <3> QED BY <2>3, <3>1, AtKept, RingCurrent
  <2> QED BY <1>0, <2>0, <2>2, <2>4
<1>3. CASE ~FrameQueueNext /\ ~FrameQueueLess
  <2>1. rindexShown = 1 /\ size = 1
    <3>1. size' = size \/ size' = size + 1
      BY <1>3, SizeSteps
    <3> QED BY <1>0, <1>3, <3>1, ShownSteps
  <2>2. 0 \in 0..InRing - 1
    BY <1>0, <2>1 DEF Base, RingInv
  <2>3. At(0)' = At(0) /\ At(0).serial \in Nat /\ At(0).serial <= serial
    BY <1>3, <2>2, AtKept, RingCurrent
  <2>4. serial' = serial /\ At(0).serial = serial
    BY <1>0, <2>3
  <2>5. CASE Display
    <3>1. (rindex + 0) % PictQueue = rindex
      BY Wrap, RingNumbers
    <3>2. At(0) = queue[rindex]
      BY <3>1, Zenon DEF At
    <3>3. At(0) \in Pictures
      BY <2>2 DEF Base, RingInv
    <3>4. shown' = At(0) /\ At(0) # None
      BY <2>5, <3>2, <3>3, Constants, PicTypes DEF Display
    <3> QED BY <2>4, <3>4
  <2>6. CASE ~Display
    <3>1. shown' = shown /\ mainAt # "display"
      BY <1>3, <2>6, ShowSteps DEF VideoRefresh, TakePicture, showVars
    <3> QED BY <2>1, <2>4, <3>1 DEF ShowInv, LoneInv
  <2> QED BY <2>5, <2>6
<1> QED BY <1>1, <1>2, <1>3

LEMMA ShowStep ==
  ASSUME Base, [Next]_vars, OrderInv, OverInv, ShowInv
  PROVE  ShowInv'
BY ClockStep, FrameStep, DropStep, LoneStep DEF ShowInv

-----------------------------------------------------------------------------
(* The reader ends the program, and itself, when the last picture has been *)
(* taken; then only another stream can bring a new one.                    *)
EndInv ==
  /\ quit = "end" => readAt = "ended"
  /\ quit = "end" /\ ~cycled /\ videoSt => Finished /\ pos = Length /\ NbRemaining = 0

LEMMA InitEnd == Init => EndInv
BY DEF Init, EndInv

LEMMA EndStep ==
  ASSUME Base, [Next]_vars, OverInv, EndInv
  PROVE  EndInv'
<1>0. /\ PlaceInv /\ serial \in Nat /\ size \in Nat /\ rindexShown \in {0, 1}
  BY FrameNumbers, RingNumbers DEF Base
<1>1. CASE IfEnd
  <2>0. /\ readAt = "end" /\ pos' = pos
        /\ UNCHANGED <<serial, finished, size, rindexShown, cycled, videoSt>>
    BY <1>1 DEF IfEnd, queueVars, decVars, pictVars, userVars, streamVars
  <2>1. CASE AllShown /\ readAt' = "ended"
    <3>1. SUFFICES ASSUME ~cycled, videoSt
                   PROVE  Finished /\ pos = Length /\ NbRemaining = 0
      BY <2>0, <2>1 DEF EndInv, Finished, NbRemaining
    <3>2. Finished /\ NbRemaining = 0
      BY <1>0, <2>1, <3>1 DEF AllShown, Finished, PlaceInv
    <3>3. ~abort
      BY <1>0, <2>0, <3>1 DEF PlaceInv
    <3> QED BY <2>0, <3>2, <3>3 DEF OverInv, AtEnd
  <2>2. CASE quit' = quit
    BY <2>0, <2>2 DEF EndInv
  <2> QED BY <1>1, <2>1, <2>2 DEF IfEnd
<1>2. CASE ReadThread /\ ~IfEnd
  <2>1. readAt # "ended"
    BY <1>2 DEF ReadThread, OpenFile, ReadLoop, FlushQueue, PutFlush, Sought, IfFull, ReadFrame,
       FailedRead, MarkEnd, WaitAfterError, SetEof, PutNull, PutLast, ComparePacket, PutPacket
  <2>2. quit' = quit \/ quit' = "error"
    BY <1>2 DEF ReadThread, OpenFile, ReadLoop, FlushQueue, PutFlush, Sought, IfFull, ReadFrame,
       FailedRead, MarkEnd, WaitAfterError, SetEof, PutNull, PutLast, ComparePacket, PutPacket, exitVars
  <2> QED BY <2>1, <2>2 DEF EndInv
<1>3. CASE ~ReadThread
  <2>1. /\ readAt' = readAt /\ pos' = pos
        /\ quit' = "end" => quit = "end"
        /\ ~cycled' => ~cycled
    <3>1. ~cycled' => ~cycled
      <4>1. CASE Key \/ CycleChannel \/ StreamClose
        BY <4>1 DEF Key, CycleChannel, StreamClose, userVars
      <4> QED BY <1>3, <4>1, Steps, DecoderLeaves, RefreshLeaves, CloseLeaves DEF MainRest
    <3> QED BY <1>3, <3>1, Steps, DecoderLeaves, RefreshLeaves, UserLeaves, CloseLeaves DEF ReadRest
  <2> SUFFICES ASSUME quit = "end", ~cycled', videoSt'
               PROVE  Finished' /\ pos' = Length /\ NbRemaining' = 0
    BY <2>1 DEF EndInv
  <2>2. ~OpenOther
    BY <1>0, <2>1 DEF OpenOther, PlaceInv
  <2>3. serial' = serial /\ videoSt
    <3>1. CASE Close
      BY <2>2, <3>1, CloseDecoder
      DEF Close, JoinReader, Abort, Signal, JoinDecoder, UnsetStream, streamVars
    <3> QED BY <1>3, <3>1, Steps, DecoderLeaves, RefreshLeaves, UserLeaves DEF StreamRest
  <2>4. Finished /\ pos = Length /\ NbRemaining = 0
    BY <2>1, <2>3 DEF EndInv
  <2>5. Current /\ ~IsPlacing
    BY <2>4 DEF OverInv
  <2>6. Finished'
    <3>1. CASE VideoThread
      <4>1. finished' = finished \/ (finished' = pktSerial /\ ReceiveFrame)
        BY <2>5, <3>1
        DEF VideoThread, DecodeTop, ReceiveFrame, GetPacket, GotPacket, PeekWritable, WritePicture,
            FrameQueuePush, Decode, Current, GotFlush, decVars, codecVars
      <4> QED BY <2>3, <2>4, <2>5, <4>1 DEF Finished, Current
    <3>2. CASE ~VideoThread
      <4>1. finished' = finished
        BY <1>3, <2>2, <3>2, Steps, RefreshLeaves, UserLeaves, CloseDecoder DEF DecoderRest
      <4> QED BY <2>3, <2>4, <4>1 DEF Finished
    <3> QED BY <3>1, <3>2
  <2>7. NbRemaining' = 0
    <3>1. ~FrameQueuePush
      BY <2>5 DEF FrameQueuePush, IsPlacing
    <3>2. ~FrameQueueNext /\ ~FrameQueueLess
      <4>1. size = rindexShown
        BY <1>0, <2>4 DEF NbRemaining
      <4> QED BY <1>0, <4>1 DEF FrameQueueNext, FrameQueueLess, Base, RingInv
    <3>3. size' = size /\ rindexShown' = rindexShown
      BY <3>1, <3>2, SizeSteps, ShownSteps
    <3> QED BY <2>4, <3>3 DEF NbRemaining
  <2> QED BY <2>1, <2>4, <2>6, <2>7
<1> QED BY <1>1, <1>2, <1>3

(* -autoexit, "exit at the end" (ffplay.c:3595): the reader ends the       *)
(* program only when all of the file is decoded and shown or dropped, and  *)
(* a last pass that had a frame has put one on the screen.                 *)
THEOREM ExitsAfterLastCorrect == Spec => []ExitsAfterLast
<1> DEFINE Inv == Base /\ OrderInv /\ OverInv /\ ShowInv /\ EndInv
<1>1. Init => Inv
  BY InitBase, InitOrder, InitOver, InitShow, InitEnd
<1>2. Inv /\ [Next]_vars => Inv'
  BY BaseStep, OrderStep, OverStep, ShowStep, EndStep
<1>3. Inv => ExitsAfterLast
  <2> SUFFICES ASSUME Inv, quit = "end", ~cycled, videoSt
               PROVE  /\ pos = Length /\ held = <<>> /\ NbRemaining = 0
                      /\ \A i \in 1..Len(packets) : packets[i].kind # "data"
                      /\ (frame # None /\ frame.serial = serial /\ mainAt # "display") =>
                           shown # None /\ shown.serial = serial
    BY DEF ExitsAfterLast
  <2>1. Finished /\ pos = Length /\ NbRemaining = 0
    BY DEF EndInv
  <2>2. NoData /\ held = <<>> /\ ~IsPlacing
    BY <2>1 DEF OverInv
  <2>3. ASSUME frame # None, frame.serial = serial, mainAt # "display"
        PROVE  shown # None /\ shown.serial = serial
    <3>1. HasCurrent
      BY <2>1, <2>3 DEF ShowInv, FrameInv
    <3>2. size = rindexShown /\ rindexShown \in {0, 1} /\ mainAt # "less"
      BY <2>1, RingNumbers DEF NbRemaining, Base, RingInv
    <3>3. InRing = size /\ InRing > 0
      BY <2>2, <3>1, <3>2, RingNumbers DEF IsPlacing, HasCurrent, Bit
    <3>4. size = 1 /\ rindexShown = 1 /\ At(0).serial = serial
      BY <3>1, <3>2, <3>3 DEF HasCurrent, Last
    <3> QED BY <2>3, <3>4 DEF ShowInv, LoneInv
  <2> QED BY <2>1, <2>2, <2>3 DEF NoData
<1> QED BY <1>1, <1>2, <1>3, PTL DEF Spec

-----------------------------------------------------------------------------
(* Nil pointers.                                                           *)

(* The streams are closed when the reader has ended, and not before: while *)
(* the user has not changed the stream, a nil pointer is followed only for *)
(* a reader that had no mutex and has ended before it opened anything.     *)
NilOnlyUnopened ==
  crashed /\ ~cycled => readAt = "ended" /\ serial = 0 /\ "mutex" \in Faults

(* A reader that reads has a stream, if nobody changes it; a stream index  *)
(* without an open input is left by a reader that had no mutex.            *)
NilInv ==
  /\ ~cycled /\ readAt \notin {"open", "ended"} => videoSt
  /\ ~cycled /\ readAt = "ended" /\ videoStream >= 0 /\ ~videoSt =>
       mainAt = "unset" \/ (serial = 0 /\ "mutex" \in Faults)
  /\ NilOnlyUnopened

LEMMA NilStep ==
  ASSUME Base, [Next]_vars, NilInv
  PROVE  NilInv'
<1>0. PlaceInv
  BY DEF Base
<1>1. CASE OpenFile
  <2>0. readAt = "open" /\ serial = 0 /\ ~cycled /\ (crashed' => crashed)
    BY <1>0, <1>1 DEF OpenFile, PlaceInv
  <2>1. ~crashed
    BY <2>0 DEF NilInv, NilOnlyUnopened
  <2>2. CASE OpenComponent(0) /\ videoStream' = 0 /\ readAt' = "loop"
    <3>1. videoSt'
      BY <2>2 DEF OpenComponent
    <3> QED BY <2>0, <2>1, <2>2, <3>1 DEF NilInv, NilOnlyUnopened
  <2>3. CASE videoStream' = -1 /\ readAt' = "ended"
    <3>1. ~(videoStream' >= 0)
      BY <2>3
    <3> QED BY <2>0, <2>1, <2>3, <3>1 DEF NilInv, NilOnlyUnopened
  <2>4. CASE serial' = serial /\ readAt' = "ended" /\ "mutex" \in Faults
    BY <2>0, <2>1, <2>4 DEF NilInv, NilOnlyUnopened
  <2> QED BY <1>1, <2>2, <2>3, <2>4 DEF OpenFile, queueVars
<1>2. CASE ReadThread /\ ~OpenFile
  <2>1. readAt \notin {"open", "ended"} /\ readAt' # "open"
    BY <1>2 DEF ReadThread, ReadLoop, FlushQueue, PutFlush, Sought, IfFull, IfEnd, ReadFrame,
       FailedRead, MarkEnd, WaitAfterError, SetEof, PutNull, PutLast, ComparePacket, PutPacket
  <2>2. videoSt' = videoSt /\ (cycled' <=> cycled)
    BY <1>2, ReaderStream, ReaderRest DEF MainRest
  <2>3. ~cycled => videoSt /\ ~crashed
    BY <2>1 DEF NilInv, NilOnlyUnopened
  <2>4. videoSt => (crashed' <=> crashed)
    BY <1>2 DEF ReadThread, ReadLoop, FlushQueue, PutFlush, Sought, IfFull, IfEnd, ReadFrame,
       FailedRead, MarkEnd, WaitAfterError, SetEof, PutNull, PutLast, ComparePacket, PutPacket, exitVars
  <2> QED BY <2>1, <2>2, <2>3, <2>4 DEF NilInv, NilOnlyUnopened
<1>3. CASE Close
  <2>0. /\ readAt' = readAt /\ (cycled' <=> cycled)
    BY <1>3, CloseLeaves DEF ReadRest
  <2> SUFFICES ASSUME ~cycled
               PROVE  NilInv'
    BY <2>0 DEF NilInv, NilOnlyUnopened
  <2>1. ~OpenOther
    BY <1>0 DEF OpenOther, PlaceInv
  <2>2. serial' = serial
    BY <1>3, <2>1, CloseDecoder
  <2>3. CASE JoinReader
    <3>1. /\ readAt = "ended" /\ mainAt = "joinReader"
          /\ UNCHANGED <<videoStream, videoSt>>
          /\ crashed' => crashed \/ (videoStream >= 0 /\ ~videoSt)
      BY <2>3 DEF JoinReader, streamVars
    <3> QED BY <2>0, <2>2, <3>1 DEF NilInv, NilOnlyUnopened
  <2>4. CASE Abort \/ Signal
    <3>1. UNCHANGED <<videoStream, videoSt, crashed>> /\ mainAt # "unset"
      BY <2>4 DEF Abort, Signal, streamVars, exitVars
    <3> QED BY <2>0, <2>2, <3>1 DEF NilInv, NilOnlyUnopened
  <2>5. CASE JoinDecoder
    <3>1. readAt = "ended" /\ mainAt' = "unset" /\ crashed' = crashed
      BY <1>0, <2>5 DEF JoinDecoder, PlaceInv, exitVars
    <3> QED BY <2>0, <2>2, <3>1 DEF NilInv, NilOnlyUnopened
  <2>6. CASE UnsetStream
    <3>1. videoStream' = -1 /\ videoSt' = videoSt /\ crashed' = crashed
      BY <2>6 DEF UnsetStream, exitVars
    <3> QED BY <2>0, <2>2, <3>1 DEF NilInv, NilOnlyUnopened
  <2> QED BY <1>3, <2>1, <2>3, <2>4, <2>5, <2>6 DEF Close
<1>4. CASE ~ReadThread /\ ~Close
  <2>1. /\ readAt' = readAt /\ crashed' = crashed /\ serial' = serial
        /\ UNCHANGED <<videoStream, videoSt>>
    BY <1>4, Steps, DecoderLeaves, RefreshLeaves, UserLeaves DEF ReadRest, StreamRest
  <2>2. /\ ~cycled' => ~cycled
        /\ mainAt = "unset" => mainAt' = "unset"
    <3>1. CASE Key \/ CycleChannel \/ StreamClose
      BY <3>1 DEF Key, CycleChannel, StreamClose, userVars
    <3>2. CASE Refresh \/ TooSoon
      <4>1. mainAt # "unset"
        BY <3>2 DEF Refresh, VideoRefresh, TooSoon, TakePicture, FrameQueueNext, FrameQueueLess,
           Display
      <4> QED BY <3>2, <4>1, RefreshLeaves
    <3> QED BY <1>4, <3>1, <3>2, Steps, DecoderLeaves DEF MainRest
  <2> QED BY <2>1, <2>2 DEF NilInv, NilOnlyUnopened
<1> QED BY <1>1, <1>2, <1>3, <1>4

(* Until the user changes the stream, nothing follows a nil pointer but    *)
(* stream_close after a reader that had no mutex: while a stream is read   *)
(* it is open, and stream_close waits for the reader (ffplay.c:1265).      *)
THEOREM NilOnlyUnopenedCorrect == Spec => []NilOnlyUnopened
<1>1. Init => Base /\ NilInv
  <2>1. Init => NilInv
    BY DEF Init, NilInv, NilOnlyUnopened
  <2> QED BY <2>1, InitBase
<1>2. Base /\ NilInv /\ [Next]_vars => (Base /\ NilInv)'
  BY BaseStep, NilStep
<1>3. NilInv => NilOnlyUnopened
  BY DEF NilInv
<1> QED BY <1>1, <1>2, <1>3, PTL DEF Spec
=============================================================================
