------------------------------ MODULE Ffplay ------------------------------
(***************************************************************************)
(* The player ffplay.c, playing the video of a file with -autoexit: the    *)
(* main thread with its event loop and video_refresh, read_thread, which   *)
(* fills the packet queue videoq, and video_thread, which decodes from     *)
(* videoq into the picture queue pictq.                                    *)
(*                                                                         *)
(* A seek makes a new serial: the reader empties videoq and puts a flush   *)
(* packet, whoever holds something with an older serial throws it away.    *)
(* The queues have a lock each, but serial, size and the flags are read    *)
(* without it: an action holds one lock, or reads at once what it tests.   *)
(* Frames are named by their place in the file.  Whether it is time for a  *)
(* picture, or too late, is left open.                                     *)
(***************************************************************************)
EXTENDS Integers, Sequences

CONSTANTS
  Length,     \* packets of a file
  Files,      \* the files: of each packet, to which of two video streams it belongs
  Delay,      \* frames the decoder holds back
  MinFrames,  \* packets videoq has enough with (MIN_FRAMES)
  PictQueue,  \* pictures pictq has room for (VIDEO_PICTURE_QUEUE_SIZE)
  Loops,      \* how often the file is played (loop)
  MaxKeys,    \* bound: keys the user presses
  None,       \* no packet, frame or picture
  Faults      \* what may go wrong, a subset of FaultKinds

FaultKinds ==
  { "mutex",    \* read_thread cannot make its mutex
    "open",     \* the file cannot be opened or has no stream to play
    "codec",    \* no decoder for the other stream
    "thread",   \* video_thread cannot be made
    "filter",   \* a frame cannot be filtered
    "read",     \* a read fails before the end of the file
    "seek" }    \* avformat_seek_file fails

ASSUME FfplayAssumption ==
  /\ {Length, Delay, MinFrames, MaxKeys} \subseteq Nat
  /\ {PictQueue, Loops} \subseteq Nat \ {0}
  /\ Files \subseteq [1..Length -> {0, 1}]
  /\ Faults \subseteq FaultKinds

Streams == {0, 1}
Places  == 1..Length

VARIABLES
  file,
  readAt, pos, eof, loop,          \* read_thread: its step, place in the file, variables
  seekReq, seekPos,                \* what stream_seek leaves for it
  abortRequest,  \* stream_close has begun
  quit,          \* the quit event in the event queue: "no", "error" or "end"
  videoStream, videoSt, lastStream, \* index of the stream or -1, whether video_st is set
  packets, serial, abort,          \* videoq
  decAt, pkt, pktSerial, finished, \* video_thread and its Decoder
  held, draining, frame,           \* libavcodec: frames held back; the last frame given
  queue, rindex, windex, size, rindexShown,  \* pictq
  mainAt, dropping, vidclk,        \* the main thread; the serial of the video clock
  shown,         \* the picture on the screen
  paused, step,
  keys, cycled,  \* keys pressed, whether the stream was changed
  crashed        \* a nil pointer was followed

readVars   == <<readAt, pos, eof, loop>>
seekVars   == <<seekReq, seekPos>>
streamVars == <<videoStream, videoSt, lastStream>>
queueVars  == <<packets, serial, abort>>
codecVars  == <<held, draining, frame>>
decVars    == <<pkt, pktSerial, finished, codecVars>>
pictVars   == <<queue, rindex, windex, size, rindexShown>>
showVars   == <<dropping, vidclk, shown>>
userVars   == <<paused, step, keys, cycled>>
exitVars   == <<abortRequest, quit, crashed>>
vars == <<file, readVars, seekVars, streamVars, queueVars, decAt, decVars, pictVars,
          mainAt, showVars, userVars, exitVars>>

MaxSerial == Loops + MaxKeys
Serials == 0..MaxSerial
Packets == [kind : {"flush", "null"}, at : {0}, serial : Serials]
             \cup [kind : {"data"}, at : Places, serial : Serials]
Pictures == [serial : Serials, at : Places]

ASSUME NoneAssumption == None \notin Packets \cup Pictures

ReadType ==
  /\ readAt \in {"open", "loop", "flush", "putFlush", "sought", "full", "end",
                 "read", "failed", "putNull", "setEof", "putLast", "put", "queue", "ended"}
  /\ pos \in 0..Length /\ eof \in BOOLEAN /\ loop \in 1..Loops
  /\ seekReq \in BOOLEAN /\ seekPos \in 0..Length /\ file \in Files

StreamType ==
  /\ videoStream \in Streams \cup {-1} /\ videoSt \in BOOLEAN /\ lastStream \in Streams
  /\ packets \in Seq(Packets) /\ serial \in Serials /\ abort \in BOOLEAN

DecPlaces == {"none", "top", "receive", "get", "getWait", "got", "room", "roomWait",
              "write", "push", "ended"}
DecoderType ==
  /\ decAt \in DecPlaces
  /\ pkt \in Packets \cup {None} /\ pktSerial \in Serials \cup {-1} /\ finished \in Serials
  /\ held \in Seq(Places) /\ draining \in BOOLEAN /\ frame \in Pictures \cup {None}

RingType ==
  /\ queue \in [0..PictQueue - 1 -> Pictures \cup {None}]
  /\ {rindex, windex} \subseteq 0..PictQueue - 1
  /\ size \in 0..PictQueue /\ rindexShown \in {0, 1}

MainPlaces == {"events", "retry", "peeked", "next", "less", "display", "joinReader",
               "abort", "signal", "join", "unset", "open", "closed"}
MainType ==
  /\ abortRequest \in BOOLEAN /\ quit \in {"no", "error", "end"}
  /\ mainAt \in MainPlaces
  /\ dropping \in BOOLEAN /\ vidclk \in Serials \cup {-1} /\ shown \in Pictures \cup {None}
  /\ paused \in BOOLEAN /\ step \in BOOLEAN /\ crashed \in BOOLEAN
  /\ keys \in 0..MaxKeys /\ cycled \in BOOLEAN

TypeOK == ReadType /\ StreamType /\ DecoderType /\ RingType /\ MainType

(* stream_open: everything is zero but what it sets.                       *)
Init ==
  /\ file \in Files
  /\ readAt = "open" /\ pos = 0 /\ eof = FALSE /\ loop = Loops
  /\ seekReq = FALSE /\ seekPos = 0
  /\ abortRequest = FALSE /\ quit = "no"
  /\ videoStream = 0 /\ videoSt = FALSE /\ lastStream = 0
  /\ packets = <<>> /\ serial = 0 /\ abort = TRUE
  /\ decAt = "none" /\ pkt = None /\ pktSerial = -1 /\ finished = 0
  /\ held = <<>> /\ draining = FALSE /\ frame = None
  /\ queue = [i \in 0..PictQueue - 1 |-> None]
  /\ rindex = 0 /\ windex = 0 /\ size = 0 /\ rindexShown = 0
  /\ mainAt = "events" /\ dropping = FALSE /\ vidclk = -1 /\ shown = None
  /\ paused = FALSE /\ step = FALSE
  /\ keys = 0 /\ cycled = FALSE /\ crashed = FALSE

-----------------------------------------------------------------------------
(* The queues.                                                             *)

Woken(wait, ready) == IF decAt = wait THEN ready ELSE decAt
NbRemaining == size - rindexShown

(* packet_queue_put: the only waiter is signalled, unless the queue is     *)
(* aborted; a flush packet makes a new serial.                             *)
Put(kind, at) ==
  \/ abort /\ UNCHANGED <<queueVars, decAt>>
  \/ /\ ~abort
     /\ serial' = IF kind = "flush" THEN serial + 1 ELSE serial
     /\ packets' = Append(packets, [kind |-> kind, at |-> at, serial |-> serial'])
     /\ decAt' = Woken("getWait", "get")
     /\ UNCHANGED abort

(* stream_component_open: the file is not at its end for the new stream;   *)
(* decoder_init, and packet_queue_start.  Without a thread the stream is   *)
(* set all the same.                                                       *)
OpenComponent(s) ==
  /\ lastStream' = s
  /\ \/ /\ eof' = FALSE
        /\ videoStream' = s /\ videoSt' = TRUE
        /\ pktSerial' = -1 /\ finished' = 0 /\ pkt' = None
        /\ held' = <<>> /\ draining' = FALSE
        /\ abort' = FALSE
        /\ serial' = serial + 1
        /\ packets' = Append(packets, [kind |-> "flush", at |-> 0, serial |-> serial'])
        /\ \/ decAt' = "top"
           \/ "thread" \in Faults /\ decAt' = "none"
     \/ /\ "codec" \in Faults
        /\ videoStream' = -1 /\ videoSt' = FALSE
        /\ UNCHANGED <<eof, queueVars, decAt, pkt, pktSerial, finished, held, draining>>
  /\ UNCHANGED frame

-----------------------------------------------------------------------------
(* read_thread.                                                            *)

(* A reader that fails before it has set video_stream leaves it zero.      *)
OpenFile ==
  /\ readAt = "open"
  /\ \/ /\ OpenComponent(0)
        /\ \/ videoStream' = 0 /\ readAt' = "loop" /\ UNCHANGED quit
           \/ videoStream' = -1 /\ readAt' = "ended" /\ quit' = "error"
     \/ /\ {"mutex", "open"} \cap Faults # {}
        /\ \/ "mutex" \in Faults /\ UNCHANGED videoStream
           \/ "open" \in Faults /\ videoStream' = -1
        /\ readAt' = "ended" /\ quit' = "error"
        /\ UNCHANGED <<eof, videoSt, lastStream, queueVars, decAt, decVars>>
  /\ UNCHANGED <<file, pos, loop, seekVars, pictVars, mainAt, showVars, userVars,
                 abortRequest, crashed>>

(* The head of the loop, up to avformat_seek_file.                         *)
ReadLoop ==
  /\ readAt = "loop"
  /\ \/ abortRequest /\ readAt' = "ended" /\ UNCHANGED pos
     \/ ~abortRequest /\ ~seekReq /\ readAt' = "full" /\ UNCHANGED pos
     \/ /\ ~abortRequest /\ seekReq
        /\ \/ pos' = seekPos /\ readAt' = IF videoStream >= 0 THEN "flush" ELSE "sought"
           \/ "seek" \in Faults /\ readAt' = "sought" /\ UNCHANGED pos
  /\ UNCHANGED <<file, eof, loop, seekVars, streamVars, queueVars, decAt, decVars, pictVars,
                 mainAt, showVars, userVars, exitVars>>

FlushQueue ==
  /\ readAt = "flush"
  /\ packets' = <<>>
  /\ readAt' = "putFlush"
  /\ UNCHANGED <<file, pos, eof, loop, seekVars, streamVars, serial, abort, decAt, decVars,
                 pictVars, mainAt, showVars, userVars, exitVars>>

PutFlush ==
  /\ readAt = "putFlush"
  /\ Put("flush", 0)
  /\ readAt' = "sought"
  /\ UNCHANGED <<file, pos, eof, loop, seekVars, streamVars, decVars, pictVars, mainAt,
                 showVars, userVars, exitVars>>

(* After a seek, good or bad; a paused player goes on for one picture.     *)
Sought ==
  /\ readAt = "sought"
  /\ seekReq' = FALSE /\ eof' = FALSE
  /\ paused' = FALSE
  /\ step' = (step \/ paused)
  /\ readAt' = "full"
  /\ UNCHANGED <<file, pos, loop, seekPos, streamVars, queueVars, decAt, decVars, pictVars,
                 mainAt, showVars, keys, cycled, exitVars>>

(* With enough packets, or no stream at all, the reader sleeps 10 ms.      *)
IfFull ==
  /\ readAt = "full"
  /\ readAt' = IF videoStream < 0 \/ abort \/ Len(packets) > MinFrames THEN "loop" ELSE "end"
  /\ UNCHANGED <<file, pos, eof, loop, seekVars, streamVars, queueVars, decAt, decVars,
                 pictVars, mainAt, showVars, userVars, exitVars>>

(* Faulty form: the pictures that wait are not looked at.                  *)
AllDecoded == ~paused /\ (~videoSt \/ finished = serial)

(* Everything read has been decoded, and shown or dropped.                 *)
AllShown == ~paused /\ (~videoSt \/ (finished = serial /\ NbRemaining = 0))

(* The file is played again, or, with -autoexit, the program is to end.    *)
IfEnd ==
  /\ readAt = "end"
  /\ \/ /\ AllShown /\ loop > 1
        /\ loop' = loop - 1
        /\ seekReq' = TRUE
        /\ seekPos' = IF seekReq THEN seekPos ELSE 0
        /\ readAt' = "read"
        /\ UNCHANGED quit
     \/ /\ AllShown /\ loop = 1
        /\ quit' = "end" /\ readAt' = "ended"
        /\ UNCHANGED <<loop, seekVars>>
     \/ /\ ~AllShown
        /\ readAt' = "read"
        /\ UNCHANGED <<quit, loop, seekVars>>
  /\ UNCHANGED <<file, pos, eof, streamVars, queueVars, decAt, decVars, pictVars, mainAt,
                 showVars, userVars, abortRequest, crashed>>

MarkEnd == IF videoStream >= 0 THEN "putNull" ELSE "setEof"

(* An error of av_read_frame.  It may pass: the reader sleeps 10 ms.  It   *)
(* may be one of the input: the loop is left without a quit event, after a *)
(* null packet if avio_feof holds too.  Or avio_feof holds alone: the last *)
(* packet is cut off.                                                      *)
FailedRead ==
  /\ "read" \in Faults \/ abortRequest
  /\ \/ readAt' \in {"failed", "ended"} /\ UNCHANGED <<pos, eof>>
     \/ ~eof /\ videoStream >= 0 /\ readAt' = "putLast" /\ UNCHANGED <<pos, eof>>
     \/ ~eof /\ videoStream < 0 /\ readAt' = "ended" /\ eof' = TRUE /\ UNCHANGED pos
     \/ ~eof /\ pos = Length - 1 /\ pos' = Length /\ readAt' = MarkEnd /\ UNCHANGED eof

(* av_read_frame.  The reader has the null packet put, and marks the end,  *)
(* if it is not marked yet.                                                *)
ReadFrame ==
  /\ readAt = "read"
  /\ \/ /\ pos < Length
        /\ pos' = pos + 1
        /\ eof' = FALSE
        /\ readAt' = "put"
     \/ /\ pos = Length
        /\ readAt' = IF eof THEN "loop" ELSE MarkEnd
        /\ UNCHANGED <<pos, eof>>
     \/ FailedRead
  /\ UNCHANGED <<file, loop, seekVars, streamVars, queueVars, decAt, decVars, pictVars, mainAt,
                 showVars, userVars, exitVars>>

WaitAfterError ==
  /\ readAt = "failed"
  /\ readAt' = "loop"
  /\ UNCHANGED <<file, pos, eof, loop, seekVars, streamVars, queueVars, decAt, decVars, pictVars,
                 mainAt, showVars, userVars, exitVars>>

PutNull ==
  /\ readAt = "putNull"
  /\ Put("null", 0)
  /\ readAt' = "setEof"
  /\ UNCHANGED <<file, pos, eof, loop, seekVars, streamVars, decVars, pictVars, mainAt,
                 showVars, userVars, exitVars>>

SetEof ==
  /\ readAt = "setEof"
  /\ eof' = TRUE
  /\ readAt' = "loop"
  /\ UNCHANGED <<file, pos, loop, seekVars, streamVars, queueVars, decAt, decVars, pictVars,
                 mainAt, showVars, userVars, exitVars>>

(* The null packet before the loop is left; no one reads eof any more.     *)
PutLast ==
  /\ readAt = "putLast"
  /\ Put("null", 0)
  /\ eof' = TRUE
  /\ readAt' = "ended"
  /\ UNCHANGED <<file, pos, loop, seekVars, streamVars, decVars, pictVars, mainAt, showVars,
                 userVars, exitVars>>

(* A packet of another stream than the one played is dropped, ...          *)
ComparePacket ==
  /\ readAt = "put"
  /\ readAt' = IF file[pos] = videoStream THEN "queue" ELSE "loop"
  /\ UNCHANGED <<file, pos, eof, loop, seekVars, streamVars, queueVars, decAt, decVars, pictVars,
                 mainAt, showVars, userVars, exitVars>>

(* ... of one that is put video_st is followed, changed or not.            *)
PutPacket ==
  /\ readAt = "queue"
  /\ readAt' = "loop"
  /\ \/ videoSt /\ Put("data", pos) /\ UNCHANGED crashed
     \/ ~videoSt /\ crashed' = TRUE /\ UNCHANGED <<queueVars, decAt>>
  /\ UNCHANGED <<file, pos, eof, loop, seekVars, streamVars, decVars, pictVars, mainAt,
                 showVars, userVars, abortRequest, quit>>

ReadThread == OpenFile \/ ReadLoop \/ FlushQueue \/ PutFlush \/ Sought \/ IfFull \/ IfEnd
              \/ ReadFrame \/ WaitAfterError \/ PutNull \/ SetEof \/ PutLast
              \/ ComparePacket \/ PutPacket

-----------------------------------------------------------------------------
(* video_thread, with decoder_decode_frame inside it.                      *)

DecodeTop ==
  /\ decAt = "top"
  /\ decAt' = IF serial = pktSerial THEN "receive" ELSE "get"
  /\ UNCHANGED <<file, readVars, seekVars, streamVars, queueVars, decVars, pictVars, mainAt,
                 showVars, userVars, exitVars>>

(* get_video_frame drops a frame that is late already, but never before a  *)
(* picture of its serial has set the clock, or when no packets wait.       *)
DropEarly == vidclk = pktSerial /\ packets # <<>>

(* A frame that cannot be filtered ends the thread, and the program if it  *)
(* is the filters that cannot be configured for it.                        *)
FilterFails ==
  /\ "filter" \in Faults
  /\ decAt' = "ended"
  /\ quit' \in {quit, IF quit = "no" THEN "error" ELSE quit}

(* avcodec_receive_frame gives a frame, wants a packet, or is at its end.  *)
ReceiveFrame ==
  /\ decAt = "receive"
  /\ \/ /\ abort /\ decAt' = "ended"
        /\ UNCHANGED <<finished, codecVars, quit>>
     \/ /\ ~abort
        /\ \/ /\ Len(held) > Delay \/ (draining /\ held # <<>>)
              /\ frame' = [serial |-> pktSerial, at |-> Head(held)]
              /\ held' = Tail(held)
              /\ \/ decAt' = "room" /\ UNCHANGED quit
                 \/ DropEarly /\ decAt' = "top" /\ UNCHANGED quit
                 \/ FilterFails
              /\ UNCHANGED <<finished, draining>>
           \/ /\ draining /\ held = <<>>
              /\ finished' = pktSerial
              /\ draining' = FALSE
              /\ decAt' = "top"
              /\ UNCHANGED <<held, frame, quit>>
           \/ /\ ~draining /\ Len(held) <= Delay
              /\ decAt' = "get"
              /\ UNCHANGED <<finished, codecVars, quit>>
  /\ UNCHANGED <<file, readVars, seekVars, streamVars, queueVars, pkt, pktSerial, pictVars,
                 mainAt, showVars, userVars, abortRequest, crashed>>

(* packet_queue_get, in its lock.                                          *)
GetPacket ==
  /\ decAt = "get"
  /\ \/ abort /\ decAt' = "ended" /\ UNCHANGED <<pkt, pktSerial, packets>>
     \/ /\ ~abort /\ packets # <<>>
        /\ pkt' = Head(packets)
        /\ pktSerial' = pkt'.serial
        /\ packets' = Tail(packets)
        /\ decAt' = "got"
     \/ ~abort /\ packets = <<>> /\ decAt' = "getWait" /\ UNCHANGED <<pkt, pktSerial, packets>>
  /\ UNCHANGED <<file, readVars, seekVars, streamVars, serial, abort, finished, codecVars,
                 pictVars, mainAt, showVars, userVars, exitVars>>

(* Faulty form: the decoder is not flushed.                                *)
DecodeUnflushed ==
  /\ finished' = IF pkt.kind = "flush" THEN 0 ELSE finished
  /\ held' = IF pkt.kind = "data" THEN Append(held, pkt.at) ELSE held
  /\ draining' = (pkt.kind = "null" \/ (pkt.kind = "data" /\ draining))

(* A flush packet empties the decoder, a packet without data drains it.    *)
Decode ==
  /\ finished' = IF pkt.kind = "flush" THEN 0 ELSE finished
  /\ held' = CASE pkt.kind = "flush" -> <<>>
               [] pkt.kind = "data"  -> Append(held, pkt.at)
               [] pkt.kind = "null"  -> held
  /\ draining' = (pkt.kind = "null" \/ (pkt.kind = "data" /\ draining))

(* A packet of an older serial is thrown away.                             *)
GotPacket ==
  /\ decAt = "got"
  /\ pkt' = None
  /\ \/ serial # pktSerial /\ decAt' = "get" /\ UNCHANGED <<finished, held, draining>>
     \/ serial = pktSerial /\ decAt' = "top" /\ Decode
  /\ UNCHANGED <<file, readVars, seekVars, streamVars, queueVars, pktSerial, frame, pictVars,
                 mainAt, showVars, userVars, exitVars>>

(* Faulty form: one picture too many.                                      *)
RoomTooMuch == size <= PictQueue

Room == size < PictQueue

(* frame_queue_peek_writable, in the lock of pictq.                        *)
PeekWritable ==
  /\ decAt = "room"
  /\ decAt' = IF abort THEN "ended" ELSE IF Room THEN "write" ELSE "roomWait"
  /\ UNCHANGED <<file, readVars, seekVars, streamVars, queueVars, decVars, pictVars, mainAt,
                 showVars, userVars, exitVars>>

(* queue_picture fills the slot outside the lock, ...                      *)
WritePicture ==
  /\ decAt = "write"
  /\ queue' = [queue EXCEPT ![windex] = frame]
  /\ windex' = (windex + 1) % PictQueue
  /\ decAt' = "push"
  /\ UNCHANGED <<file, readVars, seekVars, streamVars, queueVars, decVars, rindex, size,
                 rindexShown, mainAt, showVars, userVars, exitVars>>

(* ... and frame_queue_push counts it inside.                              *)
FrameQueuePush ==
  /\ decAt = "push"
  /\ size' = size + 1
  /\ decAt' = "top"
  /\ UNCHANGED <<file, readVars, seekVars, streamVars, queueVars, decVars, queue, rindex,
                 windex, rindexShown, mainAt, showVars, userVars, exitVars>>

VideoThread == DecodeTop \/ ReceiveFrame \/ GetPacket \/ GotPacket \/ PeekWritable
               \/ WritePicture \/ FrameQueuePush

-----------------------------------------------------------------------------
(* video_refresh, called between events while the player is not paused.    *)

Peek == queue[(rindex + rindexShown) % PictQueue]

(* Nothing to show, a picture of an older serial, or one to look at; with  *)
(* "dropping" video_refresh tries again after frame_queue_next.            *)
VideoRefresh ==
  /\ mainAt = "retry" \/ (mainAt = "events" /\ quit = "no" /\ ~paused)
  /\ videoSt
  /\ \/ NbRemaining = 0 /\ mainAt' = "events" /\ dropping' = FALSE
     \/ /\ NbRemaining > 0 /\ Peek.serial # serial
        /\ mainAt' = "next" /\ dropping' = TRUE
     \/ /\ NbRemaining > 0 /\ Peek.serial = serial
        /\ mainAt' = "peeked" /\ dropping' = FALSE
  /\ UNCHANGED <<file, readVars, seekVars, streamVars, queueVars, decAt, decVars, pictVars,
                 vidclk, shown, userVars, exitVars>>

(* It is not yet time for the picture.                                     *)
TooSoon ==
  /\ mainAt = "peeked"
  /\ mainAt' = "events"
  /\ UNCHANGED <<file, readVars, seekVars, streamVars, queueVars, decAt, decVars, pictVars,
                 showVars, userVars, exitVars>>

(* It is time; or it is late for the picture, and another one waits.       *)
TakePicture ==
  /\ mainAt = "peeked"
  /\ vidclk' = Peek.serial
  /\ dropping' \in {FALSE} \cup {~step /\ NbRemaining > 1}
  /\ mainAt' = "next"
  /\ UNCHANGED <<file, readVars, seekVars, streamVars, queueVars, decAt, decVars, pictVars,
                 shown, userVars, exitVars>>

AfterNext == IF dropping THEN "retry" ELSE "display"

(* frame_queue_next: the first picture stays, as the one last shown; later *)
(* ones push the one before them out, outside the lock, ...                *)
FrameQueueNext ==
  /\ mainAt = "next"
  /\ \/ /\ rindexShown = 0
        /\ rindexShown' = 1
        /\ mainAt' = AfterNext
        /\ UNCHANGED <<queue, rindex>>
     \/ /\ rindexShown = 1
        /\ queue' = [queue EXCEPT ![rindex] = None]
        /\ rindex' = (rindex + 1) % PictQueue
        /\ mainAt' = "less"
        /\ UNCHANGED rindexShown
  /\ UNCHANGED <<file, readVars, seekVars, streamVars, queueVars, decAt, decVars, windex, size,
                 showVars, userVars, exitVars>>

(* ... and are counted inside it.                                          *)
FrameQueueLess ==
  /\ mainAt = "less"
  /\ size' = size - 1
  /\ decAt' = Woken("roomWait", "room")
  /\ mainAt' = AfterNext
  /\ UNCHANGED <<file, readVars, seekVars, streamVars, queueVars, decVars, queue, rindex,
                 windex, rindexShown, showVars, userVars, exitVars>>

(* The picture is displayed, and a stepping player pauses again.           *)
Display ==
  /\ mainAt = "display"
  /\ shown' = queue[rindex]
  /\ paused' = (paused \/ step)
  /\ mainAt' = "events"
  /\ UNCHANGED <<file, readVars, seekVars, streamVars, queueVars, decAt, decVars, pictVars,
                 dropping, vidclk, step, keys, cycled, exitVars>>

Refresh == VideoRefresh \/ TakePicture \/ FrameQueueNext \/ FrameQueueLess \/ Display

-----------------------------------------------------------------------------
(* Keys, which count once a picture has opened the window.                 *)
Key ==
  /\ mainAt = "events" /\ shown # None /\ keys < MaxKeys
  /\ keys' = keys + 1
  /\ \/ /\ seekReq' = TRUE          \* stream_seek, unless a seek is under way
        /\ seekPos' \in IF seekReq THEN {seekPos} ELSE 0..Length
        /\ UNCHANGED <<paused, step>>
     \/ /\ paused' = ~paused        \* toggle_pause
        /\ step' = FALSE
        /\ UNCHANGED seekVars
     \/ /\ paused' = FALSE          \* step_to_next_frame
        /\ step' = TRUE
        /\ UNCHANGED seekVars
  /\ UNCHANGED <<file, readVars, streamVars, queueVars, decAt, decVars, pictVars, mainAt,
                 showVars, cycled, exitVars>>

(* stream_cycle_channel: the stream played is closed, the other opened.    *)
CycleChannel ==
  /\ mainAt = "events" /\ shown # None /\ keys < MaxKeys
  /\ keys' = keys + 1
  /\ cycled' = TRUE
  /\ mainAt' = IF videoStream >= 0 THEN "abort" ELSE "open"
  /\ UNCHANGED <<file, readVars, seekVars, streamVars, queueVars, decAt, decVars, pictVars,
                 showVars, paused, step, exitVars>>

(* stream_close, for a quit event of the window or of the reader.          *)
StreamClose ==
  /\ mainAt = "events"
  /\ abortRequest' = TRUE
  /\ mainAt' = "joinReader"
  /\ UNCHANGED <<file, readVars, seekVars, streamVars, queueVars, decAt, decVars, pictVars,
                 showVars, userVars, quit, crashed>>

(* A stream index without an open input is a nil pointer.                  *)
JoinReader ==
  /\ mainAt = "joinReader" /\ readAt = "ended"
  /\ \/ videoStream < 0 /\ mainAt' = "closed" /\ UNCHANGED crashed
     \/ videoStream >= 0 /\ videoSt /\ mainAt' = "abort" /\ UNCHANGED crashed
     \/ videoStream >= 0 /\ ~videoSt /\ crashed' = TRUE /\ UNCHANGED mainAt
  /\ UNCHANGED <<file, readVars, seekVars, streamVars, queueVars, decAt, decVars, pictVars,
                 showVars, userVars, abortRequest, quit>>

(* decoder_abort: videoq is aborted in its lock, ...                       *)
Abort ==
  /\ mainAt = "abort"
  /\ abort' = TRUE
  /\ decAt' = Woken("getWait", "get")
  /\ mainAt' = "signal"
  /\ UNCHANGED <<file, readVars, seekVars, streamVars, packets, serial, decVars, pictVars,
                 showVars, userVars, exitVars>>

(* Faulty form: pictq is not signalled.                                    *)
SignalNot ==
  /\ mainAt = "signal"
  /\ mainAt' = "join"
  /\ UNCHANGED <<file, readVars, seekVars, streamVars, queueVars, decAt, decVars, pictVars,
                 showVars, userVars, exitVars>>

(* ... pictq is signalled in its own, ...                                  *)
Signal ==
  /\ mainAt = "signal"
  /\ decAt' = Woken("roomWait", "room")
  /\ mainAt' = "join"
  /\ UNCHANGED <<file, readVars, seekVars, streamVars, queueVars, decVars, pictVars,
                 showVars, userVars, exitVars>>

(* ... and when the thread has ended videoq is flushed and video_st reset. *)
JoinDecoder ==
  /\ mainAt = "join" /\ decAt \in {"ended", "none"}
  /\ packets' = <<>>
  /\ videoSt' = FALSE
  /\ decAt' = "none"
  /\ mainAt' = "unset"
  /\ UNCHANGED <<file, readVars, seekVars, videoStream, lastStream, serial, abort, decVars,
                 pictVars, showVars, userVars, exitVars>>

UnsetStream ==
  /\ mainAt = "unset"
  /\ videoStream' = -1
  /\ mainAt' = IF abortRequest THEN "closed" ELSE "open"
  /\ UNCHANGED <<file, readVars, seekVars, videoSt, lastStream, queueVars, decAt, decVars,
                 pictVars, showVars, userVars, exitVars>>

OpenOther ==
  /\ mainAt = "open"
  /\ OpenComponent(1 - lastStream)
  /\ mainAt' = "events"
  /\ UNCHANGED <<file, readAt, pos, loop, seekVars, pictVars, showVars, userVars, exitVars>>

Close == JoinReader \/ Abort \/ Signal \/ JoinDecoder \/ UnsetStream \/ OpenOther

-----------------------------------------------------------------------------
Next ==
  /\ ~crashed
  /\ ReadThread \/ VideoThread \/ Refresh \/ TooSoon \/ Key \/ CycleChannel \/ StreamClose
     \/ Close

(* Threads run; a picture's time comes; a quit event is handled.           *)
Fairness ==
  /\ WF_vars(~crashed /\ ReadThread)
  /\ WF_vars(~crashed /\ VideoThread)
  /\ WF_vars(~crashed /\ (Refresh \/ Close \/ TooSoon))
  /\ SF_vars(~crashed /\ TakePicture)
  /\ WF_vars(~crashed /\ quit # "no" /\ StreamClose)

Spec == Init /\ [][Next]_vars /\ Fairness

-----------------------------------------------------------------------------
(* Properties.                                                             *)

(* What appears on the screen is a picture of pictq, of the same pass as   *)
(* the one before and from further on in the file, or of a later serial:   *)
(* after a seek, another loop or another stream nothing that was queued,   *)
(* or held back by the decoder, before it comes after what was read since. *)
ShowsInOrder ==
  [][shown' # shown =>
       /\ shown' # None
       /\ shown # None =>
            \/ shown'.serial > shown.serial
            \/ shown'.serial = shown.serial /\ shown'.at > shown.at]_vars

(* -autoexit, "exit at the end" (ffplay.c:3595): the reader ends the       *)
(* program only when what it has read is decoded and shown or dropped, and *)
(* if the last pass had a frame, one of its pictures is or was on screen.  *)
ExitsAfterLast ==
  (quit = "end" /\ ~cycled /\ videoSt) =>
    /\ pos = Length /\ held = <<>> /\ NbRemaining = 0
    /\ \A i \in 1..Len(packets) : packets[i].kind # "data"
    /\ (frame # None /\ frame.serial = serial /\ mainAt # "display") =>
         shown # None /\ shown.serial = serial

(* video_thread was not made, or has ended at a frame it could not filter. *)
Undecoded == videoSt /\ ~abort /\ decAt \in {"none", "ended"}

(* The reader has left its loop at an error of the input.                  *)
Broken == readAt = "ended" /\ quit = "no" /\ ~abortRequest

(* The other stream was opened between the reader's look at eof and its    *)
(* mark of the end: the null packet went to the old queue, or to none.     *)
Starved == cycled /\ eof /\ ~abort /\ packets = <<>> /\ decAt = "getWait"

(* The steps of a stream that is closed, or changed for the other.         *)
Closing == mainAt \in {"joinReader", "abort", "signal", "join", "unset", "open"}

(* A nil pointer is followed only by a reader that has no mutex, or that   *)
(* has a packet for a stream that is being changed.                        *)
MayCrash == cycled \/ (readAt = "ended" /\ "mutex" \in Faults)

(* A stream that begins to be closed, for the end or for another one, is   *)
(* closed, with its threads joined; and a video that is played ends,       *)
(* whatever seeks and reads failed, unless the user has it paused, reads   *)
(* fail for ever, the reader was broken off by the input, the stream       *)
(* changed to has no decoder, its frames cannot be decoded, or the null    *)
(* packet was lost in the change.                                          *)
Ends ==
  /\ Closing ~> (~Closing \/ crashed)
  /\ \/ <>(mainAt = "closed" \/ (crashed /\ MayCrash))
     \/ []<>(readAt = "failed")
     \/ <>[]paused \/ <>[]Undecoded \/ <>[]Broken \/ <>[]Starved \/ <>[](videoStream < 0)
=============================================================================
