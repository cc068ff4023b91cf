----------------------------- MODULE M3u8Player -----------------------------
(***************************************************************************)
(* m3u8Test, the FFmpeg player, and MtkMgr, which shows a file: an image,  *)
(* loaded once, or a video, a pixel buffer of the player per draw.  TestVC *)
(* makes the player, whose initWithFrame calls play, hands it to MtkMgr    *)
(* and has it display a file, now this one and now that.                   *)
(*                                                                         *)
(* Everything runs on the main thread, one step of the code per action.    *)
(* The file is a sequence of packets; the decoder (libavcodec) holds back  *)
(* Delay frames and gives the k-th frame for the packet Delay after its    *)
(* own.  Frames are named by their place in that order.  Of a frame's      *)
(* planes the sizes are modelled, of pixel buffers how many there are.     *)
(***************************************************************************)
EXTENDS Naturals, Sequences

CONSTANTS
  MaxPackets,  \* the longest file
  Delay,       \* frames the decoder holds back
  Sizes,       \* what the planes of a frame may look like
  Images,      \* the jpeg and png files
  MaxBuffers,  \* pixel buffers there is memory for
  NULL,        \* a nil pixel buffer, and a frame without data
  Garbage,     \* what is read from memory after it was freed
  Faults       \* what may go wrong in FFmpeg, a subset of FaultKinds

FaultKinds ==
  { "open", "info",   \* avformat_open_input, avformat_find_stream_info
    "stream",         \* the file has no video stream
    "codec",          \* no decoder, or it cannot be set up or opened
    "read",           \* av_read_frame fails before the end of the file
    "image" }         \* an image cannot be read or made a texture

ASSUME PlayerAssumption ==
  /\ MaxPackets \in Nat /\ Delay \in Nat /\ MaxBuffers \in Nat
  /\ NULL \notin Nat /\ Garbage \notin Nat /\ NULL # Garbage
  /\ Sizes \subseteq [height : Nat, y : Nat, cb : Nat, cr : Nat] /\ NULL \notin Sizes
  /\ NULL \notin Images /\ "mp4" \notin Images
  /\ Faults \subseteq FaultKinds

PacketKinds == {"video", "damaged", "other"}   \* damaged: the decoder refuses it

VARIABLES
  file,           \* the packets of the file
  pos,            \* packets read
  packets,        \* packets read that hold their data still
  formatContext,  \* "nil" or "open"
  codecContext,   \* "nil", "made", "open" or "closed"
  avFrame,        \* "nil", "live" or "freed"
  data,           \* the frame in avFrame, or NULL
  frameSize,      \* its height and linesizes, of plane Y, Cb and Cr
  fed,            \* video packets the decoder has accepted
  pc,             \* where the main thread is
  decodeFinished, \* the variable of getBuffer
  pixelBuffer,    \* what getBuffer returns to this draw
  pixelBufferPool, \* the sizes it was created for, or NULL
  retained,       \* pixel buffers that have not been released
  shown,          \* the buffers drawn so far
  fileUrl,        \* the file displayed: an image, "mp4", or NULL
  texture,        \* the image loaded, or NULL
  crashed         \* the process has been ended by a fault or an assertion

contextVars == <<formatContext, codecContext>>
readVars    == <<pos, packets, data, frameSize, fed, decodeFinished>>
bufferVars  == <<pixelBufferPool, retained, fileUrl, texture>>
vars == <<file, contextVars, avFrame, readVars, pc, pixelBuffer, bufferVars, shown, crashed>>

Steps   == {"prase", "seek", "alloc", "idle", "read", "release", "convert", "draw"}
Files   == UNION {[1..n -> PacketKinds] : n \in 0..MaxPackets}
Frames  == 1..MaxPackets
Buffers == Frames \cup {NULL, Garbage}

TypeOK ==
  /\ file \in Files
  /\ pos \in 0..Len(file)
  /\ packets \in 0..Len(file)
  /\ formatContext \in {"nil", "open"}
  /\ codecContext \in {"nil", "made", "open", "closed"}
  /\ avFrame \in {"nil", "live", "freed"}
  /\ data \in Frames \cup {NULL}
  /\ frameSize \in Sizes \cup {NULL}
  /\ fed \in 0..Len(file)
  /\ pc \in Steps
  /\ decodeFinished \in {0, 1}
  /\ pixelBuffer \in Buffers
  /\ pixelBufferPool \in Sizes \cup {NULL}
  /\ retained \in 0..MaxBuffers
  /\ shown \in Seq(Buffers)
  /\ fileUrl \in Images \cup {"mp4", NULL}
  /\ texture \in Images \cup {NULL}
  /\ crashed \in BOOLEAN

Init ==
  /\ file \in Files
  /\ pos = 0
  /\ packets = 0
  /\ formatContext = "nil"
  /\ codecContext = "nil"
  /\ avFrame = "nil"
  /\ data = NULL
  /\ frameSize = NULL
  /\ fed = 0
  /\ pc = "prase"
  /\ decodeFinished = 0
  /\ pixelBuffer = NULL
  /\ pixelBufferPool = NULL
  /\ retained = 0
  /\ shown = <<>>
  /\ fileUrl = NULL
  /\ texture = NULL
  /\ crashed = FALSE

-----------------------------------------------------------------------------
(* play, called once from initWithFrame.                                   *)

(* prase returns at its first error: with no input when it could not be    *)
(* opened or probed, with an open input but no decoder when there is no    *)
(* stream or no decoder for it, with a decoder that is not open otherwise. *)
Prase ==
  /\ pc = "prase"
  /\ \/ /\ formatContext' = "open" /\ codecContext' = "open"
     \/ /\ {"open", "info"} \cap Faults # {}
        /\ UNCHANGED contextVars
     \/ /\ {"stream", "codec"} \cap Faults # {}
        /\ formatContext' = "open"
        /\ \/ UNCHANGED codecContext
           \/ "codec" \in Faults /\ codecContext' = "made"
  /\ pc' = "seek"
  /\ UNCHANGED <<file, avFrame, readVars, pixelBuffer, bufferVars, shown, crashed>>

(* seekTime rewinds the input and flushes the decoder whatever prase has   *)
(* answered; without an input or an open decoder it follows a nil pointer. *)
SeekTime ==
  /\ pc = "seek"
  /\ pc' = "alloc"
  /\ \/ formatContext = "open" /\ codecContext = "open" /\ UNCHANGED crashed
     \/ /\ formatContext = "nil" \/ codecContext # "open"
        /\ crashed' = TRUE
  /\ UNCHANGED <<file, contextVars, avFrame, readVars, pixelBuffer, bufferVars, shown>>

AllocFrame ==
  /\ pc = "alloc"
  /\ avFrame' = "live"
  /\ pc' = "idle"
  /\ UNCHANGED <<file, contextVars, readVars, pixelBuffer, bufferVars, shown, crashed>>

-----------------------------------------------------------------------------
(* displayImageFile, between two draws; other files are refused.           *)
DisplayImageFile ==
  /\ pc = "idle"
  /\ fileUrl' \in Images \cup {"mp4"}
  /\ UNCHANGED <<file, contextVars, avFrame, readVars, pc, pixelBuffer, pixelBufferPool,
                 retained, texture, shown, crashed>>

(* A draw of an image: the getter of texture loads it if none was loaded;  *)
(* if that fails an assertion fails, or a nil texture is added.            *)
DrawImage ==
  /\ pc = "idle" /\ fileUrl \in Images
  /\ \/ texture' = (IF texture = NULL THEN fileUrl ELSE texture) /\ UNCHANGED crashed
     \/ /\ texture = NULL /\ "image" \in Faults
        /\ crashed' = TRUE
        /\ UNCHANGED texture
  /\ UNCHANGED <<file, contextVars, avFrame, readVars, pc, pixelBuffer, pixelBufferPool,
                 retained, fileUrl, shown>>

-----------------------------------------------------------------------------
(* A draw of the video: drawInMTKView, with getBuffer inside it.           *)

(* Without a render pass descriptor a draw does not call getBuffer.        *)
DrawBegin ==
  /\ pc = "idle" /\ fileUrl = "mp4"
  /\ pc' = "read"
  /\ decodeFinished' = 0
  /\ pixelBuffer' = NULL
  /\ UNCHANGED <<file, contextVars, avFrame, pos, packets, data, frameSize, fed,
                 bufferVars, shown, crashed>>

(* avcodec_decode_video2 of a packet: a frame once Delay are held back.    *)
Decode(kind) ==
  \/ /\ kind = "video"
     /\ fed' = fed + 1
     /\ decodeFinished' = IF fed' > Delay THEN 1 ELSE 0
     /\ \/ fed' > Delay /\ data' = fed' - Delay /\ frameSize' \in Sizes
        \/ fed' <= Delay /\ data' = NULL /\ UNCHANGED frameSize
  \/ /\ kind = "damaged"
     /\ data' \in {data, NULL}
     /\ decodeFinished' = 0
     /\ UNCHANGED <<fed, frameSize>>
  \/ /\ kind = "other"
     /\ UNCHANGED <<data, frameSize, fed, decodeFinished>>

(* Faulty form: the packets are read on after a frame was decoded.         *)
ReadPacketOn ==
  /\ pc = "read"
  /\ formatContext = "open"
  /\ pos < Len(file)
  /\ pos' = pos + 1
  /\ packets' = packets + 1
  /\ Decode(file[pos'])
  /\ UNCHANGED <<file, contextVars, avFrame, pc, pixelBuffer, bufferVars, shown, crashed>>

(* The body of getBuffer's loop: av_read_frame gives the next packet, of   *)
(* the video stream or not, and a packet of the video stream is decoded.   *)
(* Nothing releases the data of the packet read before.                    *)
ReadPacket ==
  /\ pc = "read"
  /\ decodeFinished = 0
  /\ formatContext = "open"
  /\ pos < Len(file)
  /\ pos' = pos + 1
  /\ packets' = packets + 1
  /\ Decode(file[pos'])
  /\ UNCHANGED <<file, contextVars, avFrame, pc, pixelBuffer, bufferVars, shown, crashed>>

(* The loop ends with a frame, or at the end of the file or a read error.  *)
ReadDone ==
  /\ pc = "read"
  /\ \/ decodeFinished = 1 /\ pc' = "convert"
     \/ /\ decodeFinished = 0
        /\ formatContext = "open"
        /\ pos = Len(file) \/ "read" \in Faults
        /\ pc' = "release"
  /\ UNCHANGED <<file, contextVars, avFrame, readVars, pixelBuffer, bufferVars, shown, crashed>>

(* av_read_frame on the input an earlier draw has closed.                  *)
ReadClosed ==
  /\ pc = "read"
  /\ decodeFinished = 0
  /\ formatContext = "nil"
  /\ crashed' = TRUE
  /\ UNCHANGED <<file, contextVars, avFrame, readVars, pc, pixelBuffer, bufferVars, shown>>

(* Faulty form: the packet is unreferenced once more than it was filled.   *)
ReleaseUnread ==
  /\ pc = "release"
  /\ packets' = packets - 1
  /\ avFrame' = "freed"
  /\ codecContext' = "closed"
  /\ formatContext' = "nil"
  /\ pc' = "convert"
  /\ UNCHANGED <<file, pos, data, frameSize, fed, decodeFinished, pixelBuffer, bufferVars, shown, crashed>>

(* No frame: getBuffer releases the last packet (if any), the frame, the   *)
(* decoder and the input, and goes on to look at the frame.                *)
Release ==
  /\ pc = "release"
  /\ packets' = IF packets > 0 THEN packets - 1 ELSE 0
  /\ avFrame' = "freed"
  /\ codecContext' = "closed"
  /\ formatContext' = "nil"
  /\ pc' = "convert"
  /\ UNCHANGED <<file, pos, data, frameSize, fed, decodeFinished, pixelBuffer, bufferVars, shown, crashed>>

(* The rows of the pool's buffers are aligned to the linesize of the frame *)
(* it was created for.  Faulty form: a chroma plane has as many rows as Y. *)
OverrunsAll(pool, frame) == pool.y * frame.height > 2 * ((frame.cb * frame.height) \div 2)

(* The copies read more than the frame's planes and the interleaved ones   *)
(* have, or write more than the planes of the pool's buffers have.         *)
Overruns(pool, frame) ==
  LET chroma == (pool.y * frame.height) \div 2 IN
  \/ pool.y * frame.height > frame.y * frame.height
  \/ chroma > 2 * ((frame.cb * frame.height) \div 2)
  \/ frame.height > pool.height
  \/ chroma > pool.y * ((pool.height + 1) \div 2)

(* The pool is created for the first frame; each frame is copied into a    *)
(* buffer of the pool, which nobody releases.  A frame without data, or    *)
(* one whose chroma rows differ, is refused; the copy into a buffer that   *)
(* could not be made may fault, or copy nothing and give no buffer.        *)
ConvertFrame ==
  /\ avFrame = "live"
  /\ pixelBufferPool' = IF data # NULL /\ pixelBufferPool = NULL THEN frameSize ELSE pixelBufferPool
  /\ \/ /\ data = NULL \/ frameSize.cb # frameSize.cr
        /\ pixelBuffer' = NULL
        /\ UNCHANGED <<retained, crashed>>
     \/ /\ data # NULL /\ frameSize.cb = frameSize.cr
        /\ \/ /\ retained < MaxBuffers
              /\ retained' = retained + 1
              /\ pixelBuffer' = data
              /\ \/ UNCHANGED crashed
                 \/ Overruns(pixelBufferPool', frameSize) /\ crashed' = TRUE
           \/ /\ retained = MaxBuffers
              /\ pixelBuffer' = NULL
              /\ crashed' \in BOOLEAN
              /\ UNCHANGED retained

(* A freed frame reads as anything, and following its planes may fault.    *)
ConvertFreed ==
  /\ avFrame = "freed"
  /\ \/ pixelBuffer' = NULL /\ UNCHANGED <<pixelBufferPool, retained, crashed>>
     \/ /\ pixelBuffer' = Garbage /\ retained < MaxBuffers
        /\ retained' = retained + 1
        /\ pixelBufferPool' \in IF pixelBufferPool = NULL THEN Sizes ELSE {pixelBufferPool}
        /\ UNCHANGED crashed
     \/ crashed' = TRUE /\ UNCHANGED <<pixelBuffer, pixelBufferPool, retained>>

(* The frame becomes a pixel buffer, or NULL.                              *)
Convert ==
  /\ pc = "convert"
  /\ pc' = "draw"
  /\ ConvertFrame \/ ConvertFreed
  /\ UNCHANGED <<file, contextVars, avFrame, readVars, fileUrl, texture, shown>>

(* getVideoTextures asserts its pixel buffer before it draws it.           *)
DrawTextures ==
  /\ pc = "draw"
  /\ pc' = "idle"
  /\ \/ pixelBuffer = NULL /\ crashed' = TRUE /\ UNCHANGED shown
     \/ /\ pixelBuffer # NULL
        /\ shown' = Append(shown, pixelBuffer)
        /\ UNCHANGED crashed
  /\ UNCHANGED <<file, contextVars, avFrame, readVars, pixelBuffer, bufferVars>>

-----------------------------------------------------------------------------
Play == Prase \/ SeekTime \/ AllocFrame
GetBuffer == ReadPacket \/ ReadDone \/ ReadClosed \/ Release \/ Convert

Next ==
  /\ ~crashed
  /\ Play \/ DisplayImageFile \/ DrawImage \/ DrawBegin \/ GetBuffer \/ DrawTextures

Spec == Init /\ [][Next]_vars

-----------------------------------------------------------------------------
(* Properties.                                                             *)

(* prase has succeeded: the decoder has been opened.                       *)
PraseSuccess == codecContext \in {"open", "closed"}

(* getBuffer has found the end of the file and released the player.        *)
Ended == avFrame = "freed"

(* Frames the decoder has given.                                           *)
Out == IF fed > Delay THEN fed - Delay ELSE 0

(* Each packet that makes the decoder give a frame has that frame drawn    *)
(* before the next packet is read: between two draws the screen has had    *)
(* everything that was decoded, each frame once and in the order of the    *)
(* file, damaged packets, images shown in between and the end of the file  *)
(* or not.  Only the frames the decoder holds back are lost at the end; a  *)
(* picture from freed memory may follow.                                   *)
DrawsWhatIsDecoded ==
  (pc = "idle" /\ ~crashed) =>
    /\ \/ Len(shown) = Out
       \/ Ended /\ Len(shown) = Out + 1 /\ shown[Out + 1] = Garbage
    /\ \A i \in 1..Out : shown[i] = i

(* A frame like the first: planar 4:2:0 with the sizes of the pool.        *)
LikeTheFirst ==
  /\ frameSize \in Sizes /\ frameSize = pixelBufferPool
  /\ frameSize.y = 2 * frameSize.cb /\ frameSize.cb = frameSize.cr
  /\ frameSize.cb % 2 = 0

(* From a successful prase to the end of the file the player follows no    *)
(* nil pointer, uses nothing it has freed, copies within the planes and    *)
(* fails no assertion, until the buffers that nobody releases have used up *)
(* the memory or a frame comes that is not like the first.                 *)
SafeUntilEnd ==
  crashed =>
    \/ ~PraseSuccess \/ Ended
    \/ retained = MaxBuffers \/ ~LikeTheFirst
    \/ fileUrl \in Images /\ "image" \in Faults

(* "NSAssert(pixelBuffer, ...)" at MtkMgr.m:251: every draw of a player    *)
(* that has parsed its file gets a pixel buffer.                           *)
PixelBufferNotNil == pc = "draw" => pixelBuffer # NULL

(* "In both cases the packet must be freed with av_packet_unref when it    *)
(* is no longer needed" (libavformat/avformat.h:2395-2396): at most the    *)
(* packet being decoded holds its data.                                    *)
PacketsUnreferenced == packets <= 1
=============================================================================
