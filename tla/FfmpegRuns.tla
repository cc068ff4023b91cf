----------------------------- MODULE FfmpegRuns -----------------------------
(***************************************************************************)
(* Runs of ffmpeg_main one after the other in one process (ffmpeg.c,       *)
(* ffmpeg_opt.c).  In FFmpeg a fatal error ends the process; in this port  *)
(* ffmpeg.c calls ffmpeg_cleanup instead, which returns, and the caller    *)
(* goes on with tables that have been freed.  The option parser still      *)
(* calls exit_program, which ends the process.  Signals may arrive at any  *)
(* moment after the first term_init, between two runs as well, and what    *)
(* they leave (received_nb_signals, received_sigterm), transcode_init_done *)
(* and main_return_code outlive the run.                                   *)
(*                                                                         *)
(* The work of the main loop is abstracted to packets that are left to be  *)
(* read: InputThreads and OutputFile model it.                             *)
(***************************************************************************)
EXTENDS Naturals, Sequences

CONSTANTS
  MaxFiles,    \* input files of a command line, and output files
  MaxPackets,  \* packets of the input files of a run
  MaxRuns      \* bound on the calls of ffmpeg_main

ASSUME BoundsAssumption == MaxFiles \in Nat /\ MaxPackets \in Nat /\ MaxRuns \in Nat

VARIABLES
  pc,                   \* where the thread that called ffmpeg_main is
  cmd,                  \* files of the command line that are still to be opened
  input_files, nb_input_files,
  output_files, nb_output_files,
  received_nb_signals,  \* received_sigterm is set with the first of them
  transcode_init_done,
  main_return_code,
  handlers,             \* term_init has installed the signal handlers
  left,                 \* packets the run has still to read
  \* what happened, for the properties
  runs, runSignals,     \* calls of ffmpeg_main, signals since the last one
  failed,               \* this run met an error
  stopped,              \* this run was stopped by a key or cut by an interrupt
  writeFailed,          \* the muxer failed in this run, in any run
  everFailed,
  result                \* what the last run returned

tables == <<input_files, nb_input_files, output_files, nb_output_files>>
flags  == <<received_nb_signals, transcode_init_done, main_return_code, handlers>>
ghosts == <<runs, runSignals, failed, stopped, writeFailed, everFailed, result>>
vars   == <<pc, cmd, tables, flags, left, ghosts>>

Opening == {"parse", "openIn", "openOut"}
Ended   == {"idle", "exited", "fault"}
PCs     == Opening \cup Ended
             \cup {"check", "init", "loop", "read", "join", "trailer", "report", "end", "fail"}

received_sigterm == received_nb_signals > 0


(* decode_interrupt_cb: every blocking call of the library asks it.        *)
Interrupted == received_nb_signals > transcode_init_done

-----------------------------------------------------------------------------
(* A table is the array of files; "wild" is an entry that was never        *)
(* written.  GROW_ARRAY makes room for nb + 1 entries, whatever the array  *)
(* holds, and the caller fills in the last one.                            *)
Grown(table, nb) ==
  [i \in 1 .. nb + 1 |-> IF i = nb + 1 THEN "file"
                         ELSE IF i \in DOMAIN table THEN table[i] ELSE "wild"]

(* A loop over the counter meets only files.                               *)
Sound(table, nb) == \A i \in 1 .. nb : i \in DOMAIN table /\ table[i] = "file"

TablesSound == Sound(input_files, nb_input_files) /\ Sound(output_files, nb_output_files)

(* Faulty form, that of FFmpeg before the port: the process was to end,    *)
(* and the counters were left as they are.                                 *)
FreedKeepingCounters ==
  input_files' = <<>> /\ output_files' = <<>> /\ UNCHANGED <<nb_input_files, nb_output_files>>

(* ffmpeg_cleanup frees all that the counters reach, the arrays, and sets  *)
(* the counters to zero.                                                   *)
Freed ==
  /\ input_files'  = <<>> /\ nb_input_files'  = 0
  /\ output_files' = <<>> /\ nb_output_files' = 0

(* ffmpeg_cleanup, after which control is at next; without sound tables it *)
(* frees what is no file.                                                  *)
Cleanup(next) ==
  IF TablesSound THEN Freed /\ pc' = next ELSE pc' = "fault" /\ UNCHANGED tables

Init ==
  /\ pc = "idle" /\ cmd = [ins |-> 0, outs |-> 0]
  /\ input_files = <<>> /\ nb_input_files = 0
  /\ output_files = <<>> /\ nb_output_files = 0
  /\ received_nb_signals = 0 /\ transcode_init_done = 0 /\ main_return_code = 0
  /\ handlers = FALSE /\ left = 0
  /\ runs = 0 /\ runSignals = 0 /\ failed = FALSE /\ stopped = FALSE
  /\ writeFailed = FALSE /\ everFailed = FALSE /\ result = 0

-----------------------------------------------------------------------------
(* Faulty form: the handler never exits.                                   *)
SignalEndless ==
  /\ handlers /\ pc \notin {"exited", "fault"} /\ received_nb_signals < 6
  /\ received_nb_signals' = received_nb_signals + 1
  /\ runSignals' = runSignals + 1
  /\ UNCHANGED <<pc, cmd, tables, transcode_init_done, main_return_code, handlers, left,
                 runs, failed, stopped, writeFailed, everFailed, result>>

(* Signals: sigterm_handler, on the fourth of the process it exits.        *)
Signal ==
  /\ handlers /\ pc \notin {"exited", "fault"}
  /\ received_nb_signals' = received_nb_signals + 1
  /\ runSignals' = runSignals + 1
  /\ pc' = IF received_nb_signals' > 3 THEN "exited" ELSE pc
  /\ UNCHANGED <<cmd, tables, transcode_init_done, main_return_code, handlers, left,
                 runs, failed, stopped, writeFailed, everFailed, result>>

(* ffmpeg_main is called with a command line.                              *)
Start ==
  /\ pc = "idle" /\ runs < MaxRuns
  /\ cmd' \in [ins : 0 .. MaxFiles, outs : 0 .. MaxFiles]
  /\ left' \in 0 .. MaxPackets
  /\ pc' = "parse"
  /\ runs' = runs + 1 /\ runSignals' = 0
  /\ failed' = FALSE /\ stopped' = FALSE /\ writeFailed' = FALSE
  /\ UNCHANGED <<tables, flags, everFailed, result>>

(* ffmpeg_parse_options: the command line is split, the global options are *)
(* applied, the handlers installed.                                        *)
Parse ==
  /\ pc = "parse" /\ pc' = "openIn" /\ handlers' = TRUE
  /\ UNCHANGED <<cmd, tables, received_nb_signals, transcode_init_done, main_return_code,
                 left, ghosts>>

(* It returns an error: an unknown option, a complex filter that is wrong. *)
(* ffmpeg_main calls ffmpeg_cleanup and goes on.                           *)
ParseFails ==
  /\ pc \in Opening
  /\ Cleanup("check")
  /\ failed' = TRUE
  /\ UNCHANGED <<cmd, flags, left, runs, runSignals, stopped, writeFailed, everFailed, result>>

(* open_input_file, once the source has answered.                          *)
OpenInput ==
  /\ pc = "openIn" /\ cmd.ins > 0
  /\ cmd' = [cmd EXCEPT !.ins = @ - 1]
  /\ input_files' = Grown(input_files, nb_input_files)
  /\ nb_input_files' = nb_input_files + 1
  /\ UNCHANGED <<pc, output_files, nb_output_files, flags, left, ghosts>>

(* An option the demuxer does not know: assert_avoptions, called in the    *)
(* middle of open_input_file, frees the files opened before, and the       *)
(* opening of this one goes on.                                            *)
OpenInputOption ==
  /\ pc = "openIn" /\ cmd.ins > 0 /\ TablesSound
  /\ cmd' = [cmd EXCEPT !.ins = @ - 1]
  /\ input_files' = <<"file">> /\ nb_input_files' = 1
  /\ output_files' = <<>> /\ nb_output_files' = 0
  /\ failed' = TRUE
  /\ UNCHANGED <<pc, flags, left, runs, runSignals, stopped, writeFailed, everFailed, result>>

InputsOpened ==
  /\ pc = "openIn" /\ cmd.ins = 0 /\ pc' = "openOut"
  /\ UNCHANGED <<cmd, tables, flags, left, ghosts>>

(* open_output_file.                                                       *)
OpenOutput ==
  /\ pc = "openOut" /\ cmd.outs > 0
  /\ cmd' = [cmd EXCEPT !.outs = @ - 1]
  /\ output_files' = Grown(output_files, nb_output_files)
  /\ nb_output_files' = nb_output_files + 1
  /\ UNCHANGED <<pc, input_files, nb_input_files, flags, left, ghosts>>

OutputsOpened ==
  /\ pc = "openOut" /\ cmd.outs = 0 /\ pc' = "check"
  /\ UNCHANGED <<cmd, tables, flags, left, ghosts>>

(* A file that cannot be opened, or whose opening is interrupted: the      *)
(* option parser calls exit_program, that is ffmpeg_cleanup and exit.      *)
ExitProgram ==
  /\ Cleanup("exited")
  /\ failed' = TRUE
  /\ UNCHANGED <<cmd, flags, left, runs, runSignals, stopped, writeFailed, everFailed, result>>

OpenFails == pc \in {"openIn", "openOut"} /\ cmd.ins + cmd.outs > 0 /\ ExitProgram

OpenInterrupted ==
  /\ pc \in {"openIn", "openOut"} /\ cmd.ins + cmd.outs > 0 /\ Interrupted /\ ExitProgram

-----------------------------------------------------------------------------
(* ffmpeg_main without an output file calls ffmpeg_cleanup, and goes on    *)
(* to transcode; otherwise it looks at every output file.                  *)
CheckFiles ==
  /\ pc = "check"
  /\ IF nb_output_files = 0
       THEN Cleanup("init") /\ failed' = TRUE
       ELSE /\ pc' = IF TablesSound THEN "init" ELSE "fault"
            /\ UNCHANGED <<tables, failed>>
  /\ UNCHANGED <<cmd, flags, left, runs, runSignals, stopped, writeFailed, everFailed, result>>

(* transcode_init opens decoders and encoders, init_input_threads starts   *)
(* the threads.                                                            *)
TranscodeInit ==
  /\ pc = "init"
  /\ IF TablesSound THEN transcode_init_done' = 1 /\ pc' = "loop"
                    ELSE pc' = "fault" /\ UNCHANGED transcode_init_done
  /\ UNCHANGED <<cmd, tables, received_nb_signals, main_return_code, handlers, left, ghosts>>

(* One of the two answers an error: transcode returns it.                  *)
TranscodeInitFails ==
  /\ pc = "init" /\ TablesSound /\ nb_input_files + nb_output_files > 0
  /\ transcode_init_done' \in {transcode_init_done, 1}
  /\ pc' = "fail" /\ failed' = TRUE
  /\ UNCHANGED <<cmd, tables, received_nb_signals, main_return_code, handlers, left,
                 runs, runSignals, stopped, writeFailed, everFailed, result>>

(* ffmpeg_cleanup is called while a stream is being worked on, in          *)
(* transcode_init, in a step of the loop, or while encoders and muxers     *)
(* are finished.  The caller goes on: it uses the stream that was freed,   *)
(* or comes back to the loop and finds no stream left.                     *)
Fatal ==
  /\ pc \in {"init", "read", "trailer"} /\ nb_output_files > 0 /\ TablesSound
  /\ Freed
  /\ failed' = TRUE
  /\ \/ pc' = "fault"
     \/ pc = "read" /\ pc' = "loop"
     \/ pc = "trailer" /\ pc' = "report"
  /\ UNCHANGED <<cmd, flags, left, runs, runSignals, stopped, writeFailed, everFailed, result>>

-----------------------------------------------------------------------------
(* The loop of transcode.                                                  *)
LoopSignalled ==
  /\ pc = "loop" /\ received_sigterm /\ pc' = "join"
  /\ UNCHANGED <<cmd, tables, flags, left, ghosts>>

(* The key q.                                                              *)
LoopQuit ==
  /\ pc = "loop" /\ ~received_sigterm /\ pc' = "join" /\ stopped' = TRUE
  /\ UNCHANGED <<cmd, tables, flags, left, runs, runSignals, failed, writeFailed, everFailed, result>>

(* Faulty form: the packet before the last is the last.                    *)
LoopNoOutputEarly ==
  /\ pc = "loop" /\ ~received_sigterm /\ (nb_output_files = 0 \/ left <= 1 \/ writeFailed)
  /\ pc' = "join"
  /\ UNCHANGED <<cmd, tables, flags, left, ghosts>>

(* need_output finds no stream that wants more.                            *)
LoopNoOutput ==
  /\ pc = "loop" /\ ~received_sigterm /\ (nb_output_files = 0 \/ left = 0 \/ writeFailed)
  /\ pc' = "join"
  /\ UNCHANGED <<cmd, tables, flags, left, ghosts>>

LoopStep ==
  /\ pc = "loop" /\ ~received_sigterm /\ nb_output_files > 0 /\ left > 0 /\ ~writeFailed
  /\ pc' = IF TablesSound THEN "read" ELSE "fault"
  /\ UNCHANGED <<cmd, tables, flags, left, ghosts>>

(* transcode_step: the source answers, and the packet is written.          *)
ReadPacket ==
  /\ pc = "read" /\ left' = left - 1 /\ pc' = "loop"
  /\ UNCHANGED <<cmd, tables, flags, ghosts>>

(* The muxer fails: write_packet closes every stream.                      *)
WriteFails ==
  /\ pc = "read" /\ left' = left - 1 /\ pc' = "loop"
  /\ main_return_code' = 1 /\ writeFailed' = TRUE /\ everFailed' = TRUE
  /\ UNCHANGED <<cmd, tables, received_nb_signals, transcode_init_done, handlers,
                 runs, runSignals, failed, stopped, result>>

(* The step answers an error, and the loop is left.                        *)
StepFails ==
  /\ pc = "read" /\ pc' = "join" /\ failed' = TRUE
  /\ UNCHANGED <<cmd, tables, flags, left, runs, runSignals, stopped, writeFailed, everFailed, result>>

(* The read is interrupted: for process_input the file is over, and the    *)
(* loop sees the signal.  With several files it is a thread that reads,    *)
(* and the queue of one that only answers EAGAIN never gives an answer.    *)
ReadInterrupted ==
  /\ pc = "read" /\ Interrupted /\ pc' = "loop" /\ stopped' = TRUE
  /\ UNCHANGED <<cmd, tables, flags, left, runs, runSignals, failed, writeFailed, everFailed, result>>

(* free_input_threads; a single file has no thread.                        *)
JoinThreads ==
  /\ pc = "join" /\ nb_input_files < 2 /\ pc' = "trailer"
  /\ UNCHANGED <<cmd, tables, flags, left, ghosts>>

(* It waits for every thread, and input_thread may never end: a read that  *)
(* answers EAGAIN is repeated, by a loop that asks neither the interrupt   *)
(* callback nor its queue.                                                 *)
JoinThreadsAnswered ==
  /\ pc = "join" /\ nb_input_files >= 2 /\ pc' = "trailer"
  /\ UNCHANGED <<cmd, tables, flags, left, ghosts>>

(* flush_encoders and the trailers.                                        *)
Trailer ==
  /\ pc = "trailer" /\ pc' = "report"
  /\ UNCHANGED <<cmd, tables, flags, left, ghosts>>

(* print_report for the last time: it asks the first output file for its   *)
(* size, whether or not there is one.                                      *)
Report ==
  /\ pc = "report"
  /\ pc' = IF output_files = <<>> THEN "fault" ELSE "end"
  /\ UNCHANGED <<cmd, tables, flags, left, ghosts>>

(* Nothing was written, and -abort_on asks for an error: ffmpeg_cleanup,   *)
(* and transcode still returns 0.                                          *)
EmptyOutput ==
  /\ pc = "end" /\ output_files # <<>>
  /\ Cleanup("end")
  /\ failed' = TRUE
  /\ UNCHANGED <<cmd, flags, left, runs, runSignals, stopped, writeFailed, everFailed, result>>

(* Faulty form: the clean-up resets main_return_code, which is read after  *)
(* it.                                                                     *)
ReturnReset ==
  /\ pc \in {"end", "fail"}
  /\ Cleanup("idle")
  /\ main_return_code' = 0 /\ result' = main_return_code'
  /\ UNCHANGED <<cmd, received_nb_signals, transcode_init_done, handlers, left, runs,
                 runSignals, failed, stopped, writeFailed, everFailed>>

(* transcode has returned; ffmpeg_cleanup (twice after an error), and the  *)
(* return code.                                                            *)
Return ==
  /\ pc \in {"end", "fail"}
  /\ Cleanup("idle")
  /\ result' = main_return_code
  /\ UNCHANGED <<cmd, flags, left, runs, runSignals, failed, stopped, writeFailed, everFailed>>

-----------------------------------------------------------------------------
Step == \/ Parse \/ OpenInput \/ InputsOpened \/ OpenOutput \/ OutputsOpened
        \/ CheckFiles \/ TranscodeInit
        \/ LoopSignalled \/ LoopNoOutput \/ LoopStep \/ ReadPacket
        \/ JoinThreads \/ JoinThreadsAnswered \/ Trailer \/ Report \/ Return

Failure == \/ ParseFails \/ OpenInputOption \/ OpenFails \/ TranscodeInitFails \/ Fatal
           \/ WriteFails \/ StepFails \/ EmptyOutput

Next == Start \/ Signal \/ Step \/ Failure \/ LoopQuit \/ OpenInterrupted \/ ReadInterrupted

(* The thread goes on when it can.  Nothing is assumed of a source: it may *)
(* never answer (OpenInput, OpenOutput, ReadPacket, JoinThreadsAnswered);  *)
(* a call of the library that is interrupted returns, but an input thread  *)
(* may call it again and again.                                            *)
Fairness ==
  /\ WF_vars(Parse \/ InputsOpened \/ OutputsOpened \/ CheckFiles \/ TranscodeInit)
  /\ WF_vars(LoopSignalled \/ LoopNoOutput \/ LoopStep)
  /\ WF_vars(JoinThreads \/ Trailer \/ Report \/ Return)
  /\ WF_vars(OpenInterrupted \/ (nb_input_files < 2 /\ ReadInterrupted))

Spec == Init /\ [][Next]_vars /\ Fairness

-----------------------------------------------------------------------------
TypeOK ==
  /\ pc \in PCs
  /\ cmd \in [ins : Nat, outs : Nat]
  /\ nb_input_files \in Nat /\ nb_output_files \in Nat
  /\ received_nb_signals \in 0 .. 4 /\ runSignals \in 0 .. received_nb_signals
  /\ transcode_init_done \in {0, 1} /\ main_return_code \in {0, 1} /\ result \in {0, 1}
  /\ left \in 0 .. MaxPackets
  /\ runs \in 0 .. MaxRuns
  /\ handlers \in BOOLEAN /\ failed \in BOOLEAN /\ stopped \in BOOLEAN
  /\ writeFailed \in BOOLEAN /\ everFailed \in BOOLEAN

(* ffmpeg_main can be called again and again: whatever the runs before     *)
(* did, a run uses freed or unwritten memory only after an error of its    *)
(* own, one that ended the process where exit_program did not return.      *)
FaultsOnlyAfterError == pc = "fault" => failed

(* In a process that has had no signal, a run that meets no error and is   *)
(* not stopped reads all its packets, however many runs came before.       *)
QuietProcessConverts ==
  pc = "idle" /\ received_nb_signals = 0 /\ ~failed /\ ~stopped /\ ~writeFailed => left = 0

(* The code ffmpeg_main returns tells of every failure of the muxer in the *)
(* run, though it is read after the clean-up; it is 1 only if the muxer    *)
(* has failed in this run or one before.                                   *)
ResultTellsWriteErrors ==
  pc = "idle" => /\ writeFailed => result = 1
                 /\ result = 1 => everFailed

(* The thread that called ffmpeg_main waits for an input thread.           *)
WaitsForThread == nb_input_files >= 2 /\ pc \in {"read", "join"}


=============================================================================
