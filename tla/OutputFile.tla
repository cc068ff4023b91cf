----------------------------- MODULE OutputFile -----------------------------
(***************************************************************************)
(* The output side of the ported ffmpeg program for one output file: the   *)
(* loop of transcode that chooses an output stream and reads a packet for  *)
(* it, the encoders, and write_packet, which keeps the packets of a stream *)
(* in its muxing queue until every stream is initialized and the header    *)
(* has been written.                                                       *)
(*                                                                         *)
(* An input file is the sequence of its packets, and a packet is the       *)
(* number of the stream it is for, or NoFrame if nothing comes of it; its  *)
(* timestamp is its place in the file.  Each output stream has an input    *)
(* stream and, if it is encoded, a filter graph of its own.  ffmpeg_cleanup *)
(* returns in this port, to code that uses what it has freed: "overflow"   *)
(* is where that happens for a full muxing queue, "failed" where it does   *)
(* for another error.                                                      *)
(***************************************************************************)
EXTENDS Integers, Sequences

CONSTANTS
  Files,        \* the input files
  NbStreams,    \* nb_output_streams
  FileOf,       \* the input file of a stream
  Copied,       \* the streams with stream_copy, the others are encoded
  Video,        \* the encoded streams that are video, the others are audio
  Delay,        \* frames an encoder holds back
  InitialSize,  \* packets a muxing queue has room for at first (ffmpeg_opt.c:1565)
  MaxSize,      \* max_muxing_queue_size, in packets (ffmpeg_opt.c:1542)
  MaxFrames,    \* max_frames of a stream
  NbPackets,    \* packets of an input file, at most
  Inputs,       \* the contents the input files may have
  MayStop,      \* whether SIGTERM or 'q' may end the loop early
  Faults        \* what may fail: "open", "header", "filter", "format", "encode", "write"

Streams == 1..NbStreams
Encoded == Streams \ Copied
NoFrame == 0
Room    == IF MaxSize > InitialSize THEN MaxSize ELSE InitialSize

ASSUME OutputAssumption ==
  /\ NbStreams \in Nat \ {0} /\ Delay \in Nat
  /\ InitialSize \in Nat \ {0} /\ MaxSize \in Nat
  /\ FileOf \in [Streams -> Files]
  /\ Copied \subseteq Streams /\ Video \subseteq Encoded
  /\ MaxFrames \in [Streams -> Nat]
  /\ NbPackets \in Nat
  /\ Inputs \subseteq [Files -> Seq(Streams \cup {NoFrame})]
  /\ \A i \in Inputs : \A f \in Files :
       /\ Len(i[f]) <= NbPackets
       /\ \A k \in 1..Len(i[f]) : i[f][k] \in Streams => FileOf[i[f][k]] = f
  /\ MayStop \in BOOLEAN
  /\ Faults \subseteq {"open", "header", "filter", "format", "encode", "write"}

VARIABLES
  input,            \* the packets of an input file
  pos,              \* how many of them have been read
  eagain,           \* whether the file had nothing to give
  eof_reached,      \* whether its end has been acted on
  graph,            \* the filter graph of an encoded stream: not configured
                    \* ("none", or "known" once it can be), "open", "closed"
  held,             \* the frames its encoder holds back
  initialized,      \* whether the stream's encoder is open
  unavailable,      \* whether its input had nothing to give
  finished,         \* of {"encoder", "muxer"}
  frame_number,     \* packets, or frames of encoded video, it counts
  muxing_queue,     \* the packets that wait for the header
  size,             \* the packets the queue has been allocated for
  header_written,
  written,          \* the packets given to av_interleaved_write_frame
  trailer,          \* whether av_write_trailer has been called
  main_return_code,
  main,             \* where the main thread is
  cur,              \* the stream it is at
  back              \* where it goes on after the muxing queues are flushed;
                    \* where it was, after an overflow

inputVars  == <<input, pos, eagain, eof_reached>>
encodeVars == <<graph, held, initialized, unavailable>>
muxVars    == <<finished, frame_number, muxing_queue, size, written, main_return_code>>
fileVars   == <<header_written, trailer>>
vars == <<inputVars, encodeVars, muxVars, fileVars, main, cur, back>>

Places == {"init", "loop", "step", "input", "frame", "receive", "mux", "closing",
           "flush", "drain", "trailer", "end", "overflow", "failed"}

TypeOK ==
  /\ input \in [Files -> Seq(Streams \cup {NoFrame})]
  /\ pos \in [Files -> Nat] /\ \A f \in Files : pos[f] <= Len(input[f])
  /\ eagain \in [Files -> BOOLEAN] /\ eof_reached \in [Files -> BOOLEAN]
  /\ graph \in [Streams -> {"none", "known", "open", "closed"}]
  /\ held \in [Streams -> Seq(Nat)]
  /\ \A s \in Streams : Len(held[s]) <= Delay + 1
  /\ initialized \in [Streams -> BOOLEAN] /\ unavailable \in [Streams -> BOOLEAN]
  /\ finished \in [Streams -> SUBSET {"encoder", "muxer"}]
  /\ frame_number \in [Streams -> Nat]
  /\ \A s \in Streams : frame_number[s] <= MaxFrames[s]
  /\ muxing_queue \in [Streams -> Seq(Nat)] /\ size \in [Streams -> Nat]
  /\ \A s \in Streams : Len(muxing_queue[s]) <= size[s] /\ size[s] <= Room
  /\ written \in [Streams -> Seq(Nat)]
  /\ header_written \in BOOLEAN /\ trailer \in BOOLEAN /\ main_return_code \in {0, 1}
  /\ main \in Places /\ cur \in Streams /\ back \in Places

Init ==
  /\ input \in Inputs
  /\ pos = [f \in Files |-> 0]
  /\ eagain = [f \in Files |-> FALSE]
  /\ eof_reached = [f \in Files |-> FALSE]
  /\ graph = [s \in Streams |-> "none"]
  /\ held = [s \in Streams |-> <<>>]
  /\ initialized = [s \in Streams |-> FALSE]
  /\ unavailable = [s \in Streams |-> FALSE]
  /\ finished = [s \in Streams |-> {}]
  /\ frame_number = [s \in Streams |-> 0]
  /\ muxing_queue = [s \in Streams |-> <<>>]
  /\ size = [s \in Streams |-> InitialSize]
  /\ header_written = FALSE
  /\ written = [s \in Streams |-> <<>>]
  /\ trailer = FALSE
  /\ main_return_code = 0
  /\ main = "init"
  /\ cur = 1
  /\ back = "loop"

(* s is the stream of S that comes first.                                  *)
First(s, S) == s \in S /\ \A t \in S : s <= t

-----------------------------------------------------------------------------
(* write_packet of packet t of stream s; where says what the code comes to *)
(* when it returns.                                                        *)

(* av_interleaved_write_frame.  A muxer that fails has every stream closed.*)
Mux(s, t, where) ==
  /\ written' = [written EXCEPT ![s] = Append(@, t)]
  /\ \/ UNCHANGED <<finished, main_return_code>>
     \/ /\ "write" \in Faults
        /\ main_return_code' = 1
        /\ finished' = [o \in Streams |-> finished[o] \cup
                          IF o = s THEN {"encoder", "muxer"} ELSE {"encoder"}]
  /\ main' = where

(* Faulty form: the queue grows without limit.                             *)
NewSizeUnlimited(s) == 2 * size[s]

(* The new size of a full queue; it is no larger if the limit is reached.  *)
NewSize(s) == IF 2 * size[s] < MaxSize THEN 2 * size[s] ELSE MaxSize

(* The muxer is not initialized yet: the packet is buffered.               *)
Enqueue(s, t, where) ==
  LET isFull == Len(muxing_queue[s]) = size[s] IN
  \/ /\ isFull /\ NewSize(s) <= size[s]
     /\ main' = "overflow" /\ back' = main
     /\ UNCHANGED <<muxing_queue, size>>
  \/ /\ isFull => NewSize(s) > size[s]
     /\ muxing_queue' = [muxing_queue EXCEPT ![s] = Append(@, t)]
     /\ size' = [size EXCEPT ![s] = IF isFull THEN NewSize(s) ELSE @]
     /\ main' = where /\ UNCHANGED back

(* Frames of encoded video are counted before they are encoded.            *)
Counted(s) == s \notin Video

(* Faulty form: the muxer is not waited for.                               *)
WritePacketAtOnce(s, t, where) ==
  IF Counted(s) /\ frame_number[s] >= MaxFrames[s]
  THEN main' = where /\ UNCHANGED <<muxVars, back>>
  ELSE /\ frame_number' = [frame_number EXCEPT ![s] = IF Counted(s) THEN @ + 1 ELSE @]
       /\ Mux(s, t, where) /\ UNCHANGED <<muxing_queue, size, back>>

WritePacket(s, t, where) ==
  IF Counted(s) /\ frame_number[s] >= MaxFrames[s]
  THEN main' = where /\ UNCHANGED <<muxVars, back>>
  ELSE /\ frame_number' = [frame_number EXCEPT ![s] = IF Counted(s) THEN @ + 1 ELSE @]
       /\ IF header_written
          THEN Mux(s, t, where) /\ UNCHANGED <<muxing_queue, size, back>>
          ELSE Enqueue(s, t, where) /\ UNCHANGED <<written, finished, main_return_code>>

-----------------------------------------------------------------------------
(* init_output_stream and check_init_output_file.  The stream that is      *)
(* initialized last has the header written and the muxing queues flushed.  *)

(* Faulty form: the packets that wait for the header are forgotten.        *)
InitOutputStreamOnly(s, where) ==
  /\ initialized' = [initialized EXCEPT ![s] = TRUE]
  /\ header_written' = \A o \in Streams \ {s} : initialized[o]
  /\ main' = where /\ UNCHANGED back

(* An error goes through ffmpeg_cleanup, back to the caller.               *)
InitOutputStream(s, where) ==
  \/ /\ initialized' = [initialized EXCEPT ![s] = TRUE]
     /\ IF \A o \in Streams \ {s} : initialized[o]
        THEN \/ header_written' = TRUE /\ main' = "mux" /\ back' = where
             \/ "header" \in Faults /\ main' = "failed" /\ UNCHANGED <<header_written, back>>
        ELSE main' = where /\ UNCHANGED <<header_written, back>>
  \/ /\ "open" \in Faults /\ main' = "failed"
     /\ UNCHANGED <<initialized, header_written, back>>

Waiting == {s \in Streams : muxing_queue[s] # <<>>}

(* Faulty form: a packet is counted when it is taken out of the queue too. *)
FlushMuxingQueuesCounting ==
  /\ main = "mux"
  /\ \/ /\ Waiting = {}
        /\ main' = back /\ UNCHANGED muxVars
     \/ \E s \in Streams :
          /\ First(s, Waiting)
          /\ muxing_queue' = [muxing_queue EXCEPT ![s] = Tail(@)]
          /\ frame_number' = [frame_number EXCEPT ![s] = @ + 1]
          /\ Mux(s, Head(muxing_queue[s]), "mux")
          /\ UNCHANGED size
  /\ UNCHANGED <<inputVars, encodeVars, fileVars, cur, back>>

FlushMuxingQueues ==
  /\ main = "mux"
  /\ \/ /\ Waiting = {}
        /\ main' = back /\ UNCHANGED muxVars
     \/ \E s \in Streams :
          /\ First(s, Waiting)
          /\ muxing_queue' = [muxing_queue EXCEPT ![s] = Tail(@)]
          /\ Mux(s, Head(muxing_queue[s]), "mux")
          /\ UNCHANGED <<frame_number, size>>
  /\ UNCHANGED <<inputVars, encodeVars, fileVars, cur, back>>

(* transcode_init opens the streams that no filter graph feeds.            *)
TranscodeInit ==
  /\ main = "init"
  /\ \/ /\ initialized' = [s \in Streams |-> s \in Copied]
        /\ header_written' = (Copied = Streams)
        /\ main' = "loop"
     \/ "open" \in Faults /\ main' = "end" /\ UNCHANGED <<initialized, header_written>>
  /\ UNCHANGED <<inputVars, graph, held, unavailable, muxVars, trailer, cur, back>>

-----------------------------------------------------------------------------
(* The loop of transcode: need_output and choose_output.                   *)

Unfinished == {s \in Streams : finished[s] = {}}

(* need_output looks no further than the first stream that is unfinished:  *)
(* at its limit it has all streams closed.                                 *)
NeedOutput ==
  \E s \in Streams : First(s, Unfinished) /\ frame_number[s] < MaxFrames[s]

(* cur_dts, -1 while it is AV_NOPTS_VALUE.                                 *)
CurDts(s) == IF written[s] = <<>> THEN -1 ELSE written[s][Len(written[s])]

(* The streams that are least far.                                         *)
Least == {s \in Unfinished : \A o \in Unfinished : CurDts(s) <= CurDts(o)}

(* Faulty form: streams that are not initialized have no precedence.       *)
ChooseLeast(s) == First(s, Least)

(* The first stream to be initialized, or the first that is least far.     *)
ChooseOutput(s) ==
  LET closed == {o \in Streams : ~initialized[o]}
  IN First(s, IF closed # {} THEN closed ELSE Least)

ResetEagain ==
  /\ eagain' = [f \in Files |-> FALSE]
  /\ unavailable' = [s \in Streams |-> FALSE]

LoopUnchanged == UNCHANGED <<muxVars, fileVars, back>>

(* Nothing is done for an initialized stream whose input had nothing to    *)
(* give.                                                                   *)
Choose ==
  /\ main = "loop" /\ NeedOutput
  /\ \E s \in Streams :
       /\ ChooseOutput(s)
       /\ IF initialized[s] /\ unavailable[s]
          THEN ResetEagain /\ UNCHANGED <<main, cur>>
          ELSE main' = "step" /\ cur' = s /\ UNCHANGED <<eagain, unavailable>>
  /\ UNCHANGED <<input, pos, eof_reached, graph, held, initialized>> /\ LoopUnchanged

(* close_output_stream, of every stream there is.                          *)
CloseAll == finished' = [s \in Streams |-> finished[s] \cup {"encoder"}]

LeaveLoop ==
  /\ main = "loop" /\ ~NeedOutput
  /\ CloseAll
  /\ main' = "closing"
  /\ UNCHANGED <<inputVars, encodeVars, frame_number, muxing_queue, size, written,
                 main_return_code, fileVars, cur, back>>

Stop ==
  /\ main = "loop" /\ MayStop
  /\ main' = "closing"
  /\ UNCHANGED <<inputVars, encodeVars, cur>> /\ LoopUnchanged

-----------------------------------------------------------------------------
(* transcode_step, from the chosen stream to process_input.                *)

Configure ==
  /\ main = "step" /\ graph[cur] = "known"
  /\ \/ graph' = [graph EXCEPT ![cur] = "closed"] /\ UNCHANGED main
     \/ "filter" \in Faults /\ main' = "closing" /\ UNCHANGED graph
  /\ UNCHANGED <<inputVars, held, initialized, unavailable, cur>> /\ LoopUnchanged

InitInStep ==
  /\ main = "step" /\ graph[cur] \in {"open", "closed"} /\ ~initialized[cur]
  /\ InitOutputStream(cur, "step")
  /\ UNCHANGED <<inputVars, graph, held, unavailable, muxVars, trailer, cur>>

(* transcode_from_filter: the graph has given everything.                  *)
FilterEnd ==
  /\ main = "step" /\ graph[cur] = "closed" /\ initialized[cur]
  /\ finished' = [finished EXCEPT ![cur] = @ \cup {"encoder"}]
  /\ main' = "loop"
  /\ UNCHANGED <<inputVars, encodeVars, frame_number, muxing_queue, size, written,
                 main_return_code, fileVars, cur, back>>

(* transcode_from_filter gives up if the input of an open graph had nothing *)
(* to give.                                                                *)
WantInput ==
  /\ main = "step" /\ graph[cur] \in {"none", "open"}
  /\ IF graph[cur] = "open" /\ eagain[FileOf[cur]]
     THEN main' = "loop" /\ unavailable' = [unavailable EXCEPT ![cur] = TRUE]
     ELSE main' = "input" /\ UNCHANGED unavailable
  /\ UNCHANGED <<inputVars, graph, held, initialized, cur>> /\ LoopUnchanged

-----------------------------------------------------------------------------
(* process_input.                                                          *)

File == FileOf[cur]

InputAgain ==
  /\ main = "input"
  /\ eagain' = [eagain EXCEPT ![File] = TRUE]
  /\ unavailable' = [unavailable EXCEPT ![cur] = TRUE]
  /\ main' = "loop"
  /\ UNCHANGED <<input, pos, eof_reached, graph, held, initialized, cur>> /\ LoopUnchanged

(* A packet of stream s, or of none, is read.                              *)
Read(s) ==
  /\ main = "input" /\ pos[File] < Len(input[File])
  /\ input[File][pos[File] + 1] = s
  /\ pos' = [pos EXCEPT ![File] = @ + 1]
  /\ ResetEagain
  /\ UNCHANGED <<input, eof_reached, held, initialized, fileVars>>

ReadNothing ==
  /\ Read(NoFrame)
  /\ main' = "loop"
  /\ UNCHANGED <<graph, muxVars, cur, back>>

(* do_streamcopy, for a stream check_output_constraints lets through.      *)
CopyPacket(s) ==
  /\ Read(s) /\ s \in Copied
  /\ IF finished[s] = {} THEN WritePacket(s, pos[File] + 1, "loop")
     ELSE main' = "loop" /\ UNCHANGED <<muxVars, back>>
  /\ UNCHANGED <<graph, cur>>

(* ifilter_send_frame: the first frame of a stream configures its filter   *)
(* graph, where reap_filters finds the frame.                              *)
SendFrame(s) ==
  \/ graph' = [graph EXCEPT ![s] = "open"] /\ main' = "frame"
  \/ graph[s] = "none" /\ "filter" \in Faults /\ main' = "failed" /\ UNCHANGED graph

DecodePacket(s) ==
  /\ Read(s) /\ s \in Encoded
  /\ SendFrame(s)
  /\ cur' = s
  /\ UNCHANGED <<muxVars, back>>

(* ifilter_send_eof for the encoded streams of S.                          *)
SendEof(S, where) ==
  \/ /\ graph' = [s \in Streams |->
                    IF s \notin S THEN graph[s]
                    ELSE IF graph[s] = "none" THEN "known" ELSE "closed"]
     /\ main' = where
  \/ /\ "format" \in Faults /\ \E s \in S : graph[s] = "none"
     /\ main' = "failed" /\ UNCHANGED graph

(* Faulty form: the streams that are copied are left unfinished.           *)
ReadEofUnfinished ==
  /\ main = "input" /\ pos[File] = Len(input[File])
  /\ SendEof({s \in Encoded : FileOf[s] = File}, "loop")
  /\ eof_reached' = [eof_reached EXCEPT ![File] = TRUE]
  /\ unavailable' = [unavailable EXCEPT ![cur] = @ \/ eagain[File]]
  /\ UNCHANGED <<input, pos, eagain, held, initialized, muxVars, fileVars, cur, back>>

ReadEof ==
  /\ main = "input" /\ pos[File] = Len(input[File])
  /\ SendEof({s \in Encoded : FileOf[s] = File}, "loop")
  /\ finished' = [s \in Streams |->
                    IF s \in Copied /\ FileOf[s] = File THEN {"encoder", "muxer"}
                    ELSE finished[s]]
  /\ eof_reached' = [eof_reached EXCEPT ![File] = TRUE]
  /\ unavailable' = [unavailable EXCEPT ![cur] = @ \/ eagain[File]]
  /\ UNCHANGED <<input, pos, eagain, held, initialized, frame_number, muxing_queue, size,
                 written, main_return_code, fileVars, cur, back>>

-----------------------------------------------------------------------------
(* reap_filters, with do_video_out and do_audio_out.                       *)

InitForFrame ==
  /\ main = "frame" /\ ~initialized[cur]
  /\ InitOutputStream(cur, "frame")
  /\ UNCHANGED <<inputVars, graph, held, unavailable, muxVars, trailer, cur>>

DropFrame ==
  /\ main = "frame" /\ initialized[cur]
  /\ \/ finished[cur] # {}
     \/ cur \in Video /\ frame_number[cur] >= MaxFrames[cur]
  /\ main' = "loop"
  /\ UNCHANGED <<inputVars, encodeVars, cur>> /\ LoopUnchanged

EncodeFrame ==
  /\ main = "frame" /\ initialized[cur]
  /\ finished[cur] = {}
  /\ cur \in Video => frame_number[cur] < MaxFrames[cur]
  /\ \/ held' = [held EXCEPT ![cur] = Append(@, pos[File])] /\ main' = "receive"
     \/ "encode" \in Faults /\ main' = "failed" /\ UNCHANGED held
  /\ UNCHANGED <<inputVars, graph, initialized, unavailable, cur>> /\ LoopUnchanged

(* The encoder's next packet goes to the output.                           *)
OutputPacket ==
  /\ held' = [held EXCEPT ![cur] = Tail(@)]
  /\ WritePacket(cur, Head(held[cur]), main)

ReceivePacket ==
  /\ main = "receive" /\ Len(held[cur]) > Delay
  /\ OutputPacket
  /\ UNCHANGED <<inputVars, graph, initialized, unavailable, fileVars, cur>>

FrameDone ==
  /\ main = "receive" /\ Len(held[cur]) <= Delay
  /\ frame_number' = [frame_number EXCEPT ![cur] = IF Counted(cur) THEN @ ELSE @ + 1]
  /\ main' = "loop"
  /\ UNCHANGED <<inputVars, encodeVars, finished, muxing_queue, size, written,
                 main_return_code, fileVars, cur, back>>

-----------------------------------------------------------------------------
(* The end of transcode: the filters are closed, flush_encoders, trailer.  *)

CloseFilters ==
  /\ main = "closing"
  /\ SendEof({s \in Encoded : ~eof_reached[FileOf[s]]}, "flush")
  /\ cur' = 1
  /\ UNCHANGED <<inputVars, held, initialized, unavailable>> /\ LoopUnchanged

NextStream ==
  IF cur = NbStreams THEN main' = "trailer" /\ UNCHANGED cur
  ELSE main' = "flush" /\ cur' = cur + 1

FlushCopied ==
  /\ main = "flush" /\ cur \in Copied
  /\ NextStream
  /\ UNCHANGED <<inputVars, encodeVars>> /\ LoopUnchanged

(* Faulty form: a stream without frames is passed over.                    *)
FlushUninitializedNot ==
  /\ main = "flush" /\ cur \in Encoded /\ graph[cur] = "known"
  /\ NextStream
  /\ UNCHANGED <<inputVars, encodeVars>> /\ LoopUnchanged

(* finish_output_stream: no packet of the stream is to be written.         *)
FlushUninitialized ==
  /\ main = "flush" /\ cur \in Encoded /\ graph[cur] = "known"
  /\ \/ /\ graph' = [graph EXCEPT ![cur] = "closed"]
        /\ finished' = [finished EXCEPT ![cur] = {"encoder", "muxer"}]
        /\ InitOutputStream(cur, "drain")
     \/ /\ "filter" \in Faults /\ main' = "failed"
        /\ UNCHANGED <<graph, finished, initialized, header_written, back>>
  /\ UNCHANGED <<inputVars, held, unavailable, frame_number, muxing_queue, size, written,
                 main_return_code, trailer, cur>>

FlushInitialized ==
  /\ main = "flush" /\ cur \in Encoded /\ initialized[cur]
  /\ main' = "drain"
  /\ UNCHANGED <<inputVars, encodeVars, cur>> /\ LoopUnchanged

DrainPacket ==
  /\ main = "drain" /\ held[cur] # <<>>
  /\ \/ "muxer" \notin finished[cur] /\ OutputPacket
     \/ /\ "muxer" \in finished[cur]
        /\ held' = [held EXCEPT ![cur] = Tail(@)]
        /\ UNCHANGED <<muxVars, main, back>>
     \/ /\ "encode" \in Faults /\ main' = "failed"
        /\ UNCHANGED <<held, muxVars, back>>
  /\ UNCHANGED <<inputVars, graph, initialized, unavailable, fileVars, cur>>

Drained ==
  /\ main = "drain" /\ held[cur] = <<>>
  /\ NextStream
  /\ UNCHANGED <<inputVars, encodeVars>> /\ LoopUnchanged

WriteTrailer ==
  /\ main = "trailer"
  /\ trailer' = header_written
  /\ main' = "end"
  /\ UNCHANGED <<inputVars, encodeVars, muxVars, header_written, cur, back>>

Terminated == main \in {"end", "overflow", "failed"} /\ UNCHANGED vars

-----------------------------------------------------------------------------
ReadPacket ==
  \/ ReadNothing
  \/ \E s \in Streams : CopyPacket(s) \/ DecodePacket(s)
  \/ ReadEof

Step ==
  \/ TranscodeInit \/ FlushMuxingQueues
  \/ Choose \/ LeaveLoop
  \/ Configure \/ InitInStep \/ FilterEnd \/ WantInput
  \/ InputAgain \/ ReadPacket
  \/ InitForFrame \/ DropFrame \/ EncodeFrame \/ ReceivePacket \/ FrameDone
  \/ CloseFilters \/ FlushCopied \/ FlushUninitialized \/ FlushInitialized
  \/ DrainPacket \/ Drained \/ WriteTrailer

Next == Step \/ Stop \/ Terminated

Spec == Init /\ [][Next]_vars

(* The program runs, and a file does not answer EAGAIN for ever.           *)
FairSpec == Spec /\ WF_vars(Step) /\ SF_vars(ReadPacket)

-----------------------------------------------------------------------------
(* Properties.                                                             *)

Alive == main \notin {"overflow", "failed"}

(* The packets of stream s that have been read.                            *)
Seen(s) == {k \in 1..pos[FileOf[s]] : input[FileOf[s]][k] = s}

(* Where those are that have not been dropped, the oldest first.           *)
InFlight(s) ==
  IF cur = s /\ (main = "frame" \/ (main = "mux" /\ back = "frame"))
  THEN <<pos[FileOf[s]]>> ELSE <<>>
Kept(s)  == written[s] \o muxing_queue[s] \o held[s] \o InFlight(s)
Given(s) == Len(written[s]) + Len(muxing_queue[s])

(* The packets of a stream come out in the order they were read, whether   *)
(* they had to wait for the header or not, and none is missing, unless     *)
(* the stream has got its max_frames or the muxer has failed.              *)
PacketsInOrder ==
  Alive => \A s \in Streams :
    LET kept == Kept(s) IN
    /\ \A i, j \in 1..Len(kept) : i < j => kept[i] < kept[j]
    /\ \A i \in 1..Len(kept) : kept[i] \in Seen(s)
    /\ main_return_code = 0 /\ frame_number[s] < MaxFrames[s] =>
         \A k \in Seen(s) : \E i \in 1..Len(kept) : kept[i] = k

(* frame_number counts each packet once, though one that had to wait comes *)
(* through write_packet twice: max_frames is kept to.                      *)
CountedOnce ==
  Alive => \A s \in Streams : Counted(s) => frame_number[s] = Given(s)

(* A muxing queue overflows only for the sake of a stream that has had no  *)
(* frame yet and, before the end, is read from the same file.              *)
OverflowsOnlyIfApart ==
  main = "overflow" =>
    \E s, o \in Streams :
      /\ s \in Encoded /\ Seen(s) = {}
      /\ Len(muxing_queue[o]) >= Room
      /\ back # "drain" => FileOf[s] = FileOf[o]

(* A program that comes to its end has written a whole file, or had not    *)
(* read anything: no packet stays in a muxing queue or an encoder.         *)
EndsComplete ==
  main = "end" =>
    \/ \A f \in Files : pos[f] = 0 /\ ~header_written
    \/ trailer /\ \A s \in Streams : muxing_queue[s] = <<>> /\ held[s] = <<>>

(* The muxer is given what it is to be given.                              *)
Muxer == INSTANCE MuxedFile WITH
  Times <- 1..NbPackets,
  header <- header_written, packets <- written, trailer <- trailer
ImplementsMuxer == Muxer!Spec

(* The program comes to its end, or to where it misuses what it has freed. *)
Ends == <>(main \in {"end", "overflow", "failed"})
=============================================================================
