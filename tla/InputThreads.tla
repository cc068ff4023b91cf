---------------------------- MODULE InputThreads ----------------------------
(***************************************************************************)
(* The input side of the ported ffmpeg program when it has several input   *)
(* files: a thread per file demuxes packets into the file's message queue, *)
(* and the main thread takes them out, one process_input call at a time;   *)
(* at the end of a file that loops it ends the file's thread, seeks and    *)
(* starts another.                                                         *)
(*                                                                         *)
(* A packet is the number it has in its file.  The outputs are abstracted  *)
(* to the file each draws from, one output for a file, and a decoder to    *)
(* the number of frames it holds back.                                     *)
(***************************************************************************)
EXTENDS MessageQueue

CONSTANTS
  NbFiles,      \* nb_input_files
  NbPackets,    \* packets of a file
  NonBlocking,  \* the files with non_blocking set
  RateEmu,      \* the files with rate_emu set
  Loops,        \* loop, the times a file is played again
  Delay,        \* frames a decoder holds back
  MayStop,      \* whether SIGTERM, 'q' or full outputs may stop it early
  Faults        \* what may fail: "create", "recreate", "read", "seek"

Files == Queues
Main  == 0       \* the main thread; a file's thread has the file's number
Flag  == {0, 1}

ASSUME InputAssumption ==
  /\ NbFiles \in Nat /\ NbFiles >= 2 /\ Files = 1..NbFiles
  /\ NbPackets \in Nat /\ Loops \in Nat /\ Delay \in Nat
  /\ NonBlocking \subseteq Files /\ RateEmu \subseteq Files
  /\ MayStop \in BOOLEAN
  /\ Faults \subseteq {"create", "recreate", "read", "seek"}

VARIABLES
  thread,    \* where a file's thread is; "none" when there is none
  flags,     \* 1 while its sends are non-blocking
  pos,       \* packets demuxed since the file's start
  hasQueue,  \* 1 when in_thread_queue is not NULL
  main,      \* where the main thread is
  cur,       \* the file it is at
  ending,    \* 1 once it is in free_input_threads
  taken,     \* packets process_input took since the file's start
  held,      \* frames in the file's decoder
  loop,      \* the times the file is still to be played again
  eagain,    \* 1 when the file had nothing to give
  eof        \* eof_reached

demuxVars  == <<thread, flags, pos>>
streamVars == <<taken, held, loop, eagain, eof>>
mainVars   == <<hasQueue, main, cur, ending>>
vars == <<queueVars, demuxVars, streamVars, mainVars>>

Packets == 1..NbPackets
IsLast(f) == f = NbFiles

InputType ==
  /\ thread \in [Files -> {"none", "read", "send", "unsent", "done"}]
  /\ flags \in [Files -> Flag]
  /\ pos \in [Files -> 0..NbPackets]
  /\ hasQueue \in [Files -> Flag]
  /\ main \in {"init", "choose", "receive", "flush", "close", "empty", "join",
               "seek", "start", "startAtEnd", "again", "eof", "closed", "end",
               "crashed"}
  /\ cur \in Files
  /\ ending \in Flag
  /\ taken \in [Files -> 0..NbPackets]
  /\ held \in [Files -> 0..Delay]
  /\ loop \in [Files -> 0..Loops]
  /\ eagain \in [Files -> Flag]
  /\ eof \in [Files -> Flag]

TypeOK == QueueType(Packets, Files \cup {Main}) /\ InputType

Init ==
  /\ QueueInit
  /\ thread = [f \in Files |-> "none"]
  /\ flags = [f \in Files |-> 0]
  /\ pos = [f \in Files |-> 0]
  /\ hasQueue = [f \in Files |-> 0]
  /\ main = "init"
  /\ cur = 1
  /\ ending = 0
  /\ taken = [f \in Files |-> 0]
  /\ held = [f \in Files |-> 0]
  /\ loop = [f \in Files |-> Loops]
  /\ eagain = [f \in Files |-> 0]
  /\ eof = [f \in Files |-> 0]

-----------------------------------------------------------------------------
(* input_thread.  A read that answers EAGAIN is tried again: a stutter,    *)
(* and so is one that never answers.                                       *)

ReadPacket(f) ==
  /\ thread[f] = "read" /\ pos[f] < NbPackets
  /\ pos' = [pos EXCEPT ![f] = @ + 1]
  /\ thread' = [thread EXCEPT ![f] = "send"]
  /\ UNCHANGED <<queueVars, flags, streamVars, mainVars>>

ReadEnd(f) ==
  /\ thread[f] = "read"
  /\ pos[f] = NbPackets \/ "read" \in Faults
  /\ SetErrRecv(f)
  /\ thread' = [thread EXCEPT ![f] = "done"]
  /\ UNCHANGED <<flags, pos, streamVars, mainVars>>

(* Faulty form: after EAGAIN the packet is forgotten.                      *)
SendPacketOnce(f) ==
  /\ thread[f] = "send" /\ f \notin sendWait[f]
  /\ \/ SendOk(f, pos[f]) /\ thread' = [thread EXCEPT ![f] = "read"] /\ UNCHANGED flags
     \/ SendError(f) /\ thread' = [thread EXCEPT ![f] = "unsent"] /\ UNCHANGED flags
     \/ /\ flags[f] = 1 /\ SendAgain(f)
        /\ flags' = [flags EXCEPT ![f] = 0]
        /\ thread' = [thread EXCEPT ![f] = "read"]
     \/ flags[f] = 0 /\ SendWait(f, f) /\ UNCHANGED <<thread, flags>>
  /\ UNCHANGED <<pos, streamVars, mainVars>>

(* The first time the queue is full the flags are cleared for good.        *)
SendPacket(f) ==
  /\ thread[f] = "send" /\ f \notin sendWait[f]
  /\ \/ SendOk(f, pos[f]) /\ thread' = [thread EXCEPT ![f] = "read"] /\ UNCHANGED flags
     \/ SendError(f) /\ thread' = [thread EXCEPT ![f] = "unsent"] /\ UNCHANGED flags
     \/ flags[f] = 1 /\ SendAgain(f) /\ flags' = [flags EXCEPT ![f] = 0] /\ UNCHANGED thread
     \/ flags[f] = 0 /\ SendWait(f, f) /\ UNCHANGED <<thread, flags>>
  /\ UNCHANGED <<pos, streamVars, mainVars>>

GiveUp(f) ==
  /\ thread[f] = "unsent"
  /\ SetErrRecv(f)
  /\ thread' = [thread EXCEPT ![f] = "done"]
  /\ UNCHANGED <<flags, pos, streamVars, mainVars>>

Wakeup(f) ==
  SpuriousWakeup(f) /\ UNCHANGED <<demuxVars, streamVars, mainVars>>

-----------------------------------------------------------------------------
(* init_input_thread, when the queue and the thread can be made.           *)
StartThread(f) ==
  /\ Alloc(f)
  /\ hasQueue' = [hasQueue EXCEPT ![f] = 1]
  /\ thread' = [thread EXCEPT ![f] = "read"]
  /\ flags' = [flags EXCEPT ![f] = IF f \in NonBlocking THEN 1 ELSE 0]
  /\ UNCHANGED pos

(* To free_input_threads, from the first file.                             *)
GoFreeAll == main' = "close" /\ cur' = 1 /\ ending' = 1

InitInputThreads ==
  /\ main = "init"
  /\ \/ /\ StartThread(cur)
        /\ IF IsLast(cur) THEN main' = "choose" /\ UNCHANGED cur
                          ELSE cur' = cur + 1 /\ UNCHANGED main
        /\ UNCHANGED ending
     \/ /\ "create" \in Faults
        /\ GoFreeAll
        /\ UNCHANGED <<queueVars, demuxVars, hasQueue>>
  /\ UNCHANGED streamVars

-----------------------------------------------------------------------------
(* transcode and transcode_step, as far as they choose the next input.     *)
Available(f) == eof[f] = 0 /\ eagain[f] = 0

Unavailable(f) ==
  /\ eagain' = [eagain EXCEPT ![f] = 1]
  /\ main' = "choose"
  /\ UNCHANGED <<taken, held, loop, eof>>

(* get_input_packet: rate_emu holds the next packet back.                  *)
TooEarly(f) == f \in RateEmu /\ Unavailable(f)

(* process_input is called for the file.                                   *)
Choose(f) ==
  /\ main = "choose" /\ Available(f)
  /\ cur' = f
  /\ \/ main' = "receive" /\ UNCHANGED streamVars
     \/ TooEarly(f)
  /\ UNCHANGED <<queueVars, demuxVars, hasQueue, ending>>

(* No output is available, some is only for now: reset_eagain and a nap.   *)
ResetEagain ==
  /\ main = "choose"
  /\ \A f \in Files : ~Available(f)
  /\ \E f \in Files : eof[f] = 0
  /\ eagain' = [f \in Files |-> 0]
  /\ UNCHANGED <<queueVars, demuxVars, mainVars, taken, held, loop, eof>>

Stop ==
  /\ main = "choose"
  /\ MayStop \/ \A f \in Files : eof[f] = 1
  /\ GoFreeAll
  /\ UNCHANGED <<queueVars, demuxVars, streamVars, hasQueue>>

-----------------------------------------------------------------------------
(* process_input and get_input_packet.                                     *)

DecodeOne(f) ==
  held' = [held EXCEPT ![f] = IF @ < Delay THEN @ + 1 ELSE @]
DrainOne(f) == held[f] > 0 /\ held' = [held EXCEPT ![f] = @ - 1]

(* Faulty form: a file is played again whatever its loop says.             *)
GoOnAtEndAlways == main' = IF main = "receive" THEN "flush" ELSE "eof"

(* The first error of a call plays the file again, if it is to be.         *)
GoOnAtEnd ==
  main' = IF main = "receive" /\ loop[cur] > 0 THEN "flush" ELSE "eof"

Receive ==
  /\ main \in {"receive", "again"} /\ hasQueue[cur] = 1
  /\ Main \notin recvWait[cur]
  /\ \/ /\ RecvOk(cur)
        /\ taken' = [taken EXCEPT ![cur] = Head(fifo[cur])]
        /\ DecodeOne(cur)
        /\ eagain' = [f \in Files |-> 0]
        /\ main' = "choose"
        /\ UNCHANGED <<loop, eof>>
     \/ cur \in NonBlocking /\ RecvAgain(cur) /\ Unavailable(cur)
     \/ /\ cur \notin NonBlocking /\ RecvWait(cur, Main)
        /\ UNCHANGED <<main, streamVars>>
     \/ /\ RecvError(cur)
        /\ GoOnAtEnd
        /\ UNCHANGED streamVars
  /\ UNCHANGED <<demuxVars, hasQueue, cur, ending>>

(* av_thread_message_queue_recv locks the mutex of a NULL queue.           *)
ReceiveFromNothing ==
  /\ main = "receive" /\ hasQueue[cur] = 0
  /\ main' = "crashed"
  /\ UNCHANGED <<queueVars, demuxVars, streamVars, hasQueue, cur, ending>>

(* Faulty form: the decoder is asked for one frame only.                   *)
FlushDecoderOnce ==
  /\ main = "flush"
  /\ held' = [held EXCEPT ![cur] = IF @ > 0 THEN @ - 1 ELSE @]
  /\ main' = "close"
  /\ UNCHANGED <<queueVars, demuxVars, taken, loop, eagain, eof, hasQueue, cur, ending>>

(* The file ends and is to be played again: one frame the decoder still    *)
(* gives makes process_input return, none lets it go on.                   *)
FlushDecoder ==
  /\ main = "flush"
  /\ \/ DrainOne(cur) /\ main' = "choose"
     \/ held[cur] = 0 /\ main' = "close" /\ UNCHANGED held
  /\ UNCHANGED <<queueVars, demuxVars, taken, loop, eagain, eof, hasQueue, cur, ending>>

SeekToStart ==
  /\ main = "seek"
  /\ \/ /\ pos' = [pos EXCEPT ![cur] = 0]
        /\ taken' = [taken EXCEPT ![cur] = 0]
        /\ loop' = [loop EXCEPT ![cur] = @ - 1]
        /\ main' = "start"
     \/ /\ "seek" \in Faults
        /\ main' = "startAtEnd"
        /\ UNCHANGED <<pos, taken, loop>>
  /\ UNCHANGED <<queueVars, thread, flags, held, eagain, eof, hasQueue, cur, ending>>

(* Where pthread_create answers EAGAIN, so does process_input: it leaves   *)
(* the file without a queue, and transcode goes on.                        *)
RestartThread ==
  /\ main \in {"start", "startAtEnd"}
  /\ \/ /\ StartThread(cur)
        /\ \/ main' = (IF main = "start" THEN "again" ELSE "eof") /\ UNCHANGED streamVars
           \/ main = "start" /\ TooEarly(cur)
        /\ UNCHANGED <<cur, ending>>
     \/ /\ "recreate" \in Faults
        /\ main' = "choose"
        /\ UNCHANGED <<queueVars, demuxVars, streamVars, hasQueue, cur, ending>>
     \/ /\ "create" \in Faults
        /\ GoFreeAll
        /\ UNCHANGED <<queueVars, demuxVars, streamVars, hasQueue>>

MarkEof ==
  /\ main = "eof"
  /\ \/ DrainOne(cur) /\ UNCHANGED eof
     \/ held[cur] = 0 /\ eof' = [eof EXCEPT ![cur] = 1] /\ UNCHANGED held
  /\ main' = "choose"
  /\ UNCHANGED <<queueVars, demuxVars, taken, loop, eagain, hasQueue, cur, ending>>

-----------------------------------------------------------------------------
(* free_input_thread, and free_input_threads while ending is 1.            *)

(* What follows when the file's queue is no more.                          *)
Freed ==
  IF ending = 0 THEN main' = "seek" /\ UNCHANGED cur
  ELSE IF IsLast(cur) THEN main' = "closed" /\ UNCHANGED cur
  ELSE main' = "close" /\ cur' = cur + 1

CloseQueue ==
  /\ main = "close"
  /\ \/ hasQueue[cur] = 1 /\ SetErrSend(cur) /\ main' = "empty" /\ UNCHANGED cur
     \/ hasQueue[cur] = 0 /\ Freed /\ UNCHANGED queueVars
  /\ UNCHANGED <<demuxVars, streamVars, hasQueue, ending>>

(* Faulty form: a queue found empty is taken for an ended one.             *)
EmptyQueueOnce ==
  /\ main = "empty"
  /\ \/ RecvOk(cur) /\ UNCHANGED main
     \/ Empty(cur) /\ main' = "join" /\ UNCHANGED queueVars
  /\ UNCHANGED <<demuxVars, streamVars, hasQueue, cur, ending>>

EmptyQueue ==
  /\ main = "empty" /\ Main \notin recvWait[cur]
  /\ \/ RecvOk(cur) /\ UNCHANGED main
     \/ RecvError(cur) /\ main' = "join"
     \/ RecvWait(cur, Main) /\ UNCHANGED main
  /\ UNCHANGED <<demuxVars, streamVars, hasQueue, cur, ending>>

(* Faulty form: the thread is left to itself.                              *)
JoinThreadNot ==
  /\ main = "join"
  /\ hasQueue' = [hasQueue EXCEPT ![cur] = 0]
  /\ Flush(cur)
  /\ Freed
  /\ UNCHANGED <<demuxVars, streamVars, ending>>

JoinThread ==
  /\ main = "join" /\ thread[cur] = "done"
  /\ thread' = [thread EXCEPT ![cur] = "none"]
  /\ hasQueue' = [hasQueue EXCEPT ![cur] = 0]
  /\ Flush(cur)
  /\ Freed
  /\ UNCHANGED <<flags, pos, streamVars, ending>>

(* transcode: process_input_packet(ist, NULL, 0), once for a decoder.      *)
FlushDecoders ==
  /\ main = "closed"
  /\ held' = [f \in Files |-> IF eof[f] = 0 /\ held[f] > 0 THEN held[f] - 1 ELSE held[f]]
  /\ main' = "end"
  /\ UNCHANGED <<queueVars, demuxVars, taken, loop, eagain, eof, hasQueue, cur, ending>>

Terminated == main \in {"end", "crashed"} /\ UNCHANGED vars

-----------------------------------------------------------------------------
ThreadStep(f) == ReadPacket(f) \/ ReadEnd(f) \/ SendPacket(f) \/ GiveUp(f)

MainStep ==
  \/ InitInputThreads
  \/ \E f \in Files : Choose(f)
  \/ ResetEagain \/ Stop
  \/ Receive \/ ReceiveFromNothing
  \/ FlushDecoder \/ SeekToStart \/ RestartThread \/ MarkEof
  \/ CloseQueue \/ EmptyQueue \/ JoinThread \/ FlushDecoders

Next ==
  \/ MainStep
  \/ \E f \in Files : ThreadStep(f) \/ Wakeup(f)
  \/ Terminated

Spec == Init /\ [][Next]_vars

(* The threads are scheduled, and a packet rate_emu holds back becomes     *)
(* due.  A read may go on for ever: input_thread does not look at the      *)
(* queue's errors while av_read_frame answers EAGAIN.                      *)
Fairness ==
  /\ WF_vars(MainStep)
  /\ \A f \in Files :
       /\ SF_vars(Choose(f) /\ main' = "receive")
       /\ WF_vars(SendPacket(f) \/ GiveUp(f))

FairSpec == Spec /\ Fairness

-----------------------------------------------------------------------------
(* Properties.                                                             *)

(* The packet a thread has read and not got rid of.                        *)
InHand(f) == IF thread[f] = "send" THEN 1 ELSE 0

(* What process_input has taken, the queue holds and the thread has are    *)
(* the packets read so far, in this order.                                 *)
Ordered(f) ==
  /\ pos[f] = taken[f] + Len(fifo[f]) + InHand(f)
  /\ \A i \in 1..Len(fifo[f]) : fifo[f][i] = taken[f] + i

(* No packet of a file is lost, doubled or overtaken on its way through    *)
(* the queue, until the queue is closed.                                   *)
PacketsInOrder ==
  \A f \in Files : errSend[f] = 0 /\ hasQueue[f] = 1 => Ordered(f)

(* process_input acts on the end of a file only when its thread has ended  *)
(* by itself and every packet the thread read has been taken.              *)
EndAfterLastPacket ==
  main = "flush" =>
    thread[cur] = "done" /\ Empty(cur) /\ taken[cur] = pos[cur]

(* seek_to_start has the demuxer to itself.                                *)
SeekAlone == main \in {"seek", "start", "startAtEnd"} => thread[cur] = "none"

(* When free_input_thread comes to pthread_join the thread has ended, so   *)
(* that the join does not block, and every packet has been unreferenced:   *)
(* av_thread_message_queue_free, without a free_func, would leak it.       *)
JoinAfterThread == main = "join" => thread[cur] = "done" /\ Empty(cur)

(* A file is rewound, or marked as ended, when its decoder holds no frame  *)
(* back and every packet read has been taken; after a seek that failed its *)
(* new thread may read packets nobody asks for.                            *)
EndsDrained ==
  \A f \in Files :
    eof[f] = 1 \/ (main = "seek" /\ cur = f) =>
      held[f] = 0 /\ (taken[f] = pos[f] \/ (eof[f] = 1 /\ loop[f] > 0))

(* The main thread waits for a read: of a file it has to wait for, or of   *)
(* any file once it frees the threads.                                     *)
WaitsForRead(f) ==
  /\ cur = f /\ thread[f] = "read" /\ Empty(f)
  /\ main \in {"receive", "again", "empty"}
  /\ f \in NonBlocking => main = "empty"

(* The loop of transcode goes round for files that are not at their end,   *)
(* all of them non-blocking, all they gave taken, in a read that does not  *)
(* answer.                                                                 *)
OnlySilentLeft ==
  /\ main \in {"choose", "receive"}
  /\ \E f \in Files : eof[f] = 0
  /\ \A f \in Files : eof[f] = 0 => f \in NonBlocking /\ thread[f] = "read" /\ Empty(f)

(* The program comes to its end, by a fault only if a thread could not be  *)
(* created again.  If it does not, av_read_frame answers EAGAIN for ever   *)
(* and the main thread waits for it, in the loop or while it frees the     *)
(* threads; a non-blocking file holds up none of the others (ffmpeg.c:4045,*)
(* 4084).                                                                  *)
Ends ==
  \/ <>(main = "end" \/ (main = "crashed" /\ "recreate" \in Faults))
  \/ \E f \in Files : <>[]WaitsForRead(f)
  \/ <>[]OnlySilentLeft

(* "this function should be called again" (ffmpeg.c:4265), which process_  *)
(* input's caller does when it was answered EAGAIN.                        *)
CallAgainIsSafe == main # "crashed"
=============================================================================
