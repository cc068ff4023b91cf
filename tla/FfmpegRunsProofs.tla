-------------------------- MODULE FfmpegRunsProofs --------------------------
(***************************************************************************)
(* Proofs about FfmpegRuns, for any number of runs, files and packets.     *)
(* TablesInv is what the port relies on when it calls ffmpeg_main again:   *)
(* the counters never say more than the arrays hold.  ErrorInv says where  *)
(* a run without an output file can be: only behind an error.              *)
(***************************************************************************)
EXTENDS FfmpegRuns, TLAPS

TablesInv ==
  /\ input_files  \in [1 .. nb_input_files  -> {"file"}]
  /\ output_files \in [1 .. nb_output_files -> {"file"}]

SignalsInv == pc \notin {"exited", "fault"} => received_nb_signals <= 3

ErrorInv ==
  /\ pc \in {"init", "loop", "read", "join", "trailer", "report"} /\ nb_output_files = 0 => failed
  /\ pc \in {"fault", "fail"} => failed

ReadInv ==
  /\ pc = "read" => left > 0
  /\ pc \in {"join", "trailer", "report", "end", "idle"} /\ received_nb_signals = 0
       => failed \/ stopped \/ writeFailed \/ left = 0

ResultInv ==
  /\ writeFailed => main_return_code = 1
  /\ main_return_code = 1 => everFailed
  /\ result = 1 => everFailed
  /\ pc = "idle" /\ writeFailed => result = 1

IInv == TypeOK /\ TablesInv /\ SignalsInv /\ ErrorInv /\ ReadInv /\ ResultInv

-----------------------------------------------------------------------------
(* GROW_ARRAY, with a counter that agrees with the array, keeps the array  *)
(* and adds a file.                                                        *)
LEMMA GrownSound ==
  ASSUME NEW n \in Nat, NEW t \in [1 .. n -> {"file"}]
  PROVE  Grown(t, n) \in [1 .. n + 1 -> {"file"}]
<1>1. ASSUME NEW i \in 1 .. n + 1 PROVE (IF i = n + 1 THEN "file" ELSE IF i \in DOMAIN t THEN t[i] ELSE "wild") = "file"
  <2>1. CASE i = n + 1
    BY <2>1
  <2>2. CASE i # n + 1
    <3>1. i \in 1 .. n
      BY <2>2
    <3> QED BY <2>2, <3>1
  <2> QED BY <2>1, <2>2
<1> QED BY <1>1 DEF Grown

(* The arrays agree with the counters, so that no entry is wild.           *)
LEMMA SoundTables ==
  ASSUME TablesInv PROVE TablesSound
BY DEF TablesInv, TablesSound, Sound

(* The empty table.                                                        *)
LEMMA EmptyTable == <<>> \in [1 .. 0 -> {"file"}]
OBVIOUS

(* An output file that is counted is in the array.                         *)
LEMMA SomeOutput ==
  ASSUME TypeOK, TablesInv, output_files = <<>> PROVE nb_output_files = 0
<1>1. DOMAIN output_files = 1 .. nb_output_files
  BY DEF TablesInv
<1>2. DOMAIN output_files = {}
  OBVIOUS
<1>3. nb_output_files \in Nat
  BY DEF TypeOK
<1> QED BY <1>1, <1>2, <1>3

LEMMA InitInv == Init => IInv
<1> SUFFICES ASSUME Init PROVE IInv
  OBVIOUS
<1>a. pc \in PCs /\ cmd \in [ins : Nat, outs : Nat]
  BY DEF Init, PCs, Ended
<1>b. runSignals \in 0 .. received_nb_signals /\ left \in 0 .. MaxPackets /\ runs \in 0 .. MaxRuns
  BY BoundsAssumption DEF Init
<1>c. /\ handlers \in BOOLEAN /\ failed \in BOOLEAN /\ stopped \in BOOLEAN
      /\ writeFailed \in BOOLEAN /\ everFailed \in BOOLEAN
  BY Zenon DEF Init
<1>d. /\ nb_input_files \in Nat /\ nb_output_files \in Nat /\ received_nb_signals \in 0 .. 4
      /\ transcode_init_done \in {0, 1} /\ main_return_code \in {0, 1} /\ result \in {0, 1}
  BY DEF Init
<1>1. TypeOK
  BY Zenon, <1>a, <1>b, <1>c, <1>d DEF TypeOK
<1>2. TablesInv
  BY EmptyTable DEF Init, TablesInv
<1> QED BY <1>1, <1>2 DEF Init, IInv, SignalsInv, ErrorInv, ReadInv, ResultInv

-----------------------------------------------------------------------------
(* What a clean-up does when the tables are sound.                         *)
LEMMA CleanupFacts ==
  ASSUME TablesInv, NEW next, Cleanup(next)
  PROVE  /\ pc' = next /\ nb_input_files' = 0 /\ nb_output_files' = 0 /\ TablesInv'
BY SoundTables, EmptyTable DEF Cleanup, Freed, TablesInv

LEMMA SignalKeeps == IInv /\ Signal => IInv'
<1> SUFFICES ASSUME IInv, Signal PROVE IInv'
  OBVIOUS
<1> USE DEF IInv
<1>0. received_nb_signals \in 0 .. 3 /\ received_nb_signals' \in 1 .. 4 /\ runSignals' \in 0 .. received_nb_signals'
  BY DEF Signal, SignalsInv, TypeOK
<1>a. pc' \in PCs
  BY DEF Signal, TypeOK, PCs, Ended
<1>1. TypeOK'
  BY <1>0, <1>a DEF Signal, TypeOK, tables
<1>2. TablesInv'
  BY DEF Signal, TablesInv, tables
<1>3. SignalsInv'
  BY <1>0 DEF Signal, SignalsInv
<1>4. ErrorInv'
  BY DEF Signal, ErrorInv, tables
<1>5. ReadInv'
  BY <1>0 DEF Signal, ReadInv
<1>6. ResultInv'
  BY DEF Signal, ResultInv
<1> QED BY <1>1, <1>2, <1>3, <1>4, <1>5, <1>6

LEMMA StartKeeps == IInv /\ Start => IInv'
<1> SUFFICES ASSUME IInv, Start PROVE IInv'
  OBVIOUS
<1> USE DEF IInv
<1>0. cmd' \in [ins : Nat, outs : Nat] /\ left' \in 0 .. MaxPackets /\ runs' \in 0 .. MaxRuns
  <2>1. cmd'.ins \in Nat /\ cmd'.outs \in Nat /\ cmd' = [ins |-> cmd'.ins, outs |-> cmd'.outs]
    BY DEF Start
  <2> QED BY <2>1, BoundsAssumption DEF Start, TypeOK
<1>a. pc' \in PCs /\ runSignals' \in 0 .. received_nb_signals'
  BY DEF Start, PCs, Opening, TypeOK, flags
<1>b. failed' \in BOOLEAN /\ stopped' \in BOOLEAN /\ writeFailed' \in BOOLEAN
  BY Zenon DEF Start
<1>1. TypeOK'
  BY Zenon, <1>0, <1>a, <1>b DEF Start, TypeOK, flags, tables
<1>2. TablesInv'
  BY DEF Start, TablesInv, tables
<1>3. SignalsInv' /\ ErrorInv' /\ ReadInv'
  BY DEF Start, SignalsInv, ErrorInv, ReadInv, flags
<1>4. ResultInv'
  BY DEF Start, ResultInv, flags
<1> QED BY <1>1, <1>2, <1>3, <1>4

(* The steps of ffmpeg_parse_options that go well.                         *)
LEMMA OpeningKeeps ==
  IInv /\ (Parse \/ OpenInput \/ InputsOpened \/ OpenOutput \/ OutputsOpened) => IInv'
<1> SUFFICES ASSUME IInv, Parse \/ OpenInput \/ InputsOpened \/ OpenOutput \/ OutputsOpened PROVE IInv'
  OBVIOUS
<1> USE DEF IInv, flags, ghosts
<1>1. CASE Parse \/ InputsOpened \/ OutputsOpened
  <2>1. TypeOK'
    BY <1>1 DEF Parse, InputsOpened, OutputsOpened, TypeOK, tables, PCs, Opening, Ended
  <2>2. TablesInv'
    BY <1>1 DEF Parse, InputsOpened, OutputsOpened, TablesInv, tables
  <2>3. SignalsInv' /\ ErrorInv' /\ ReadInv' /\ ResultInv'
    BY <1>1 DEF Parse, InputsOpened, OutputsOpened, SignalsInv, ErrorInv, ReadInv, ResultInv
  <2> QED BY <2>1, <2>2, <2>3
<1>2. CASE OpenInput
  <2>1. TypeOK'
    BY <1>2 DEF OpenInput, TypeOK
  <2>2. TablesInv'
    <3>1. Grown(input_files, nb_input_files) \in [1 .. nb_input_files + 1 -> {"file"}]
      BY GrownSound DEF TablesInv, TypeOK
    <3> QED BY <1>2, <3>1 DEF OpenInput, TablesInv
  <2>3. SignalsInv' /\ ErrorInv' /\ ReadInv' /\ ResultInv'
    BY <1>2 DEF OpenInput, SignalsInv, ErrorInv, ReadInv, ResultInv
  <2> QED BY <2>1, <2>2, <2>3
<1>3. CASE OpenOutput
  <2>1. TypeOK'
    BY <1>3 DEF OpenOutput, TypeOK
  <2>2. TablesInv'
    <3>1. Grown(output_files, nb_output_files) \in [1 .. nb_output_files + 1 -> {"file"}]
      BY GrownSound DEF TablesInv, TypeOK
    <3> QED BY <1>3, <3>1 DEF OpenOutput, TablesInv
  <2>3. SignalsInv' /\ ErrorInv' /\ ReadInv' /\ ResultInv'
    BY <1>3 DEF OpenOutput, SignalsInv, ErrorInv, ReadInv, ResultInv
  <2> QED BY <2>1, <2>2, <2>3
<1> QED BY <1>1, <1>2, <1>3

(* Errors while options are parsed and files are opened.                   *)
LEMMA OpeningFailsKeeps ==
  IInv /\ (ParseFails \/ OpenInputOption \/ OpenFails \/ OpenInterrupted) => IInv'
<1> SUFFICES ASSUME IInv, ParseFails \/ OpenInputOption \/ OpenFails \/ OpenInterrupted PROVE IInv'
  OBVIOUS
<1> USE DEF IInv, flags
<1>1. CASE OpenInputOption
  <2>1. TypeOK'
    BY <1>1 DEF OpenInputOption, TypeOK
  <2>2. TablesInv'
    BY <1>1, EmptyTable DEF OpenInputOption, TablesInv
  <2>3. SignalsInv' /\ ErrorInv' /\ ReadInv' /\ ResultInv'
    BY <1>1 DEF OpenInputOption, SignalsInv, ErrorInv, ReadInv, ResultInv
  <2> QED BY <2>1, <2>2, <2>3
<1>2. CASE ParseFails \/ OpenFails \/ OpenInterrupted
  <2>0. PICK next \in {"check", "exited"} :
          /\ Cleanup(next) /\ failed' = TRUE
          /\ pc \notin {"exited", "fault"}
          /\ UNCHANGED <<cmd, flags, left, runs, runSignals, stopped, writeFailed, everFailed, result>>
    BY <1>2 DEF ParseFails, OpenFails, OpenInterrupted, ExitProgram, Opening
  <2>a. pc' = next /\ nb_input_files' = 0 /\ nb_output_files' = 0 /\ TablesInv'
    BY <2>0, CleanupFacts
  <2>1. TypeOK'
    BY <2>0, <2>a DEF TypeOK, PCs, Opening, Ended
  <2>3. SignalsInv' /\ ErrorInv' /\ ReadInv' /\ ResultInv'
    BY <2>0, <2>a DEF SignalsInv, ErrorInv, ReadInv, ResultInv
  <2> QED BY <2>a, <2>1, <2>3
<1> QED BY <1>1, <1>2

LEMMA CheckFilesKeeps == IInv /\ CheckFiles => IInv'
<1> SUFFICES ASSUME IInv, CheckFiles PROVE IInv'
  OBVIOUS
<1> USE DEF IInv, flags
<1>1. CASE nb_output_files = 0
  <2>1. pc' = "init" /\ nb_input_files' = 0 /\ nb_output_files' = 0 /\ TablesInv'
    BY <1>1, CleanupFacts DEF CheckFiles
  <2>2. TypeOK'
    BY <1>1, <2>1 DEF CheckFiles, TypeOK, PCs, Opening, Ended
  <2>3. SignalsInv' /\ ErrorInv' /\ ReadInv' /\ ResultInv'
    BY <1>1, <2>1 DEF CheckFiles, SignalsInv, ErrorInv, ReadInv, ResultInv
  <2> QED BY <2>1, <2>2, <2>3
<1>2. CASE nb_output_files # 0
  <2>1. pc' = "init" /\ UNCHANGED <<tables, failed>>
    BY <1>2, SoundTables DEF CheckFiles
  <2>2. TypeOK'
    BY <2>1 DEF CheckFiles, TypeOK, tables, PCs, Opening, Ended
  <2>3. TablesInv'
    BY <2>1 DEF TablesInv, tables
  <2>4. SignalsInv' /\ ErrorInv' /\ ReadInv' /\ ResultInv'
    BY <1>2, <2>1 DEF CheckFiles, SignalsInv, ErrorInv, ReadInv, ResultInv, tables
  <2> QED BY <2>2, <2>3, <2>4
<1> QED BY <1>1, <1>2

LEMMA TranscodeInitKeeps ==
  IInv /\ (TranscodeInit \/ TranscodeInitFails) => IInv'
<1> SUFFICES ASSUME IInv, TranscodeInit \/ TranscodeInitFails PROVE IInv'
  OBVIOUS
<1> USE SoundTables DEF IInv, ghosts
<1>1. TypeOK'
  BY DEF TranscodeInit, TranscodeInitFails, TypeOK, tables, PCs, Opening, Ended
<1>2. TablesInv'
  BY DEF TranscodeInit, TranscodeInitFails, TablesInv, tables
<1>3. SignalsInv' /\ ErrorInv' /\ ReadInv' /\ ResultInv'
  BY DEF TranscodeInit, TranscodeInitFails, SignalsInv, ErrorInv, ReadInv, ResultInv, tables
<1> QED BY <1>1, <1>2, <1>3

LEMMA FatalKeeps == IInv /\ (Fatal \/ EmptyOutput) => IInv'
<1> SUFFICES ASSUME IInv, Fatal \/ EmptyOutput PROVE IInv'
  OBVIOUS
<1> USE DEF IInv, flags
<1>1. /\ nb_input_files' = 0 /\ nb_output_files' = 0 /\ TablesInv' /\ failed' = TRUE
      /\ pc' \in {"fault", "loop", "report", "end"} /\ pc \notin {"exited", "fault"}
      /\ UNCHANGED <<cmd, flags, left, runs, runSignals, stopped, writeFailed, everFailed, result>>
  <2>1. CASE Fatal
    BY <2>1, EmptyTable DEF Fatal, Freed, TablesInv
  <2>2. CASE EmptyOutput
    BY <2>2, CleanupFacts DEF EmptyOutput
  <2> QED BY <2>1, <2>2
<1>2. TypeOK'
  BY <1>1 DEF TypeOK, PCs, Opening, Ended
<1>3. SignalsInv' /\ ErrorInv' /\ ReadInv' /\ ResultInv'
  BY <1>1 DEF SignalsInv, ErrorInv, ReadInv, ResultInv
<1> QED BY <1>1, <1>2, <1>3

(* The loop of transcode, none of whose steps touches the tables.          *)
LEMMA LoopKeeps ==
  IInv /\ (LoopSignalled \/ LoopQuit \/ LoopNoOutput \/ LoopStep) => IInv'
<1> SUFFICES ASSUME IInv, LoopSignalled \/ LoopQuit \/ LoopNoOutput \/ LoopStep PROVE IInv'
  OBVIOUS
<1> USE DEF IInv, flags, ghosts
<1>0. TablesSound
  BY SoundTables
<1>1. TypeOK'
  BY <1>0 DEF LoopSignalled, LoopQuit, LoopNoOutput, LoopStep, TypeOK, tables, PCs, Opening, Ended
<1>2. TablesInv'
  BY DEF LoopSignalled, LoopQuit, LoopNoOutput, LoopStep, TablesInv, tables
<1>3. SignalsInv' /\ ErrorInv' /\ ResultInv'
  BY <1>0 DEF LoopSignalled, LoopQuit, LoopNoOutput, LoopStep, SignalsInv, ErrorInv, ResultInv, tables
<1>4. ReadInv'
  BY <1>0 DEF LoopSignalled, LoopQuit, LoopNoOutput, LoopStep, ReadInv, ErrorInv, TypeOK, received_sigterm
<1> QED BY <1>1, <1>2, <1>3, <1>4

LEMMA ReadKeeps ==
  IInv /\ (ReadPacket \/ WriteFails \/ StepFails \/ ReadInterrupted) => IInv'
<1> SUFFICES ASSUME IInv, ReadPacket \/ WriteFails \/ StepFails \/ ReadInterrupted PROVE IInv'
  OBVIOUS
<1> USE DEF IInv, flags, ghosts
<1>0. left' \in 0 .. MaxPackets
  BY BoundsAssumption DEF ReadPacket, WriteFails, StepFails, ReadInterrupted, ReadInv, TypeOK
<1>1. TypeOK'
  BY <1>0 DEF ReadPacket, WriteFails, StepFails, ReadInterrupted, TypeOK, tables, PCs, Opening, Ended
<1>2. TablesInv'
  BY DEF ReadPacket, WriteFails, StepFails, ReadInterrupted, TablesInv, tables
<1>3. SignalsInv' /\ ErrorInv' /\ ReadInv'
  BY DEF ReadPacket, WriteFails, StepFails, ReadInterrupted, SignalsInv, ErrorInv, ReadInv, tables
<1>4. ResultInv'
  BY DEF ReadPacket, WriteFails, StepFails, ReadInterrupted, ResultInv
<1> QED BY <1>1, <1>2, <1>3, <1>4

LEMMA EndKeeps ==
  IInv /\ (JoinThreads \/ JoinThreadsAnswered \/ Trailer \/ Report \/ Return) => IInv'
<1> SUFFICES ASSUME IInv, JoinThreads \/ JoinThreadsAnswered \/ Trailer \/ Report \/ Return PROVE IInv'
  OBVIOUS
<1> USE DEF IInv, flags, ghosts
<1>1. CASE JoinThreads \/ JoinThreadsAnswered \/ Trailer
  <2>1. TypeOK'
    BY <1>1 DEF JoinThreads, JoinThreadsAnswered, Trailer, TypeOK, tables, PCs, Opening, Ended
  <2>2. TablesInv'
    BY <1>1 DEF JoinThreads, JoinThreadsAnswered, Trailer, TablesInv, tables
  <2>3. SignalsInv' /\ ErrorInv' /\ ReadInv' /\ ResultInv'
    BY <1>1 DEF JoinThreads, JoinThreadsAnswered, Trailer, SignalsInv, ErrorInv, ReadInv, ResultInv, tables
  <2> QED BY <2>1, <2>2, <2>3
<1>2. CASE Report
  <2>1. output_files = <<>> => failed
    BY <1>2, SomeOutput DEF Report, ErrorInv
  <2>2. TypeOK'
    BY <1>2 DEF Report, TypeOK, tables, PCs, Opening, Ended
  <2>3. TablesInv'
    BY <1>2 DEF Report, TablesInv, tables
  <2>4. SignalsInv' /\ ErrorInv' /\ ReadInv' /\ ResultInv'
    BY <1>2, <2>1 DEF Report, SignalsInv, ErrorInv, ReadInv, ResultInv, tables
  <2> QED BY <2>2, <2>3, <2>4
<1>3. CASE Return
  <2>1. pc' = "idle" /\ nb_input_files' = 0 /\ nb_output_files' = 0 /\ TablesInv'
    BY <1>3, CleanupFacts DEF Return
  <2>2. TypeOK'
    BY <1>3, <2>1 DEF Return, TypeOK, PCs, Opening, Ended
  <2>3. SignalsInv' /\ ErrorInv' /\ ReadInv' /\ ResultInv'
    BY <1>3, <2>1 DEF Return, SignalsInv, ErrorInv, ReadInv, ResultInv, TypeOK
  <2> QED BY <2>1, <2>2, <2>3
<1> QED BY <1>1, <1>2, <1>3

LEMMA NextInv == IInv /\ [Next]_vars => IInv'
<1> SUFFICES ASSUME IInv, [Next]_vars PROVE IInv'
  OBVIOUS
<1>1. CASE UNCHANGED vars
  <2> USE <1>1 DEF IInv, vars, tables, flags, ghosts
  <2>1. TypeOK' /\ TablesInv'
    BY DEF TypeOK, TablesInv
  <2>2. SignalsInv' /\ ErrorInv' /\ ReadInv' /\ ResultInv'
    BY DEF SignalsInv, ErrorInv, ReadInv, ResultInv
  <2> QED BY <2>1, <2>2
<1>2. CASE Next
  BY <1>2, SignalKeeps, StartKeeps, OpeningKeeps, OpeningFailsKeeps, CheckFilesKeeps,
     TranscodeInitKeeps, FatalKeeps, LoopKeeps, ReadKeeps, EndKeeps DEF Next, Step, Failure
<1> QED BY <1>1, <1>2

LEMMA Invariance == Spec => []IInv
BY InitInv, NextInv, PTL DEF Spec

-----------------------------------------------------------------------------
(* Every variable of the process keeps its type; the fourth signal of the  *)
(* process is the last (sigterm_handler).                                  *)
THEOREM TypeCorrect == Spec => []TypeOK
BY Invariance, PTL DEF IInv

(* Calling ffmpeg_main again is safe: a run uses freed or unwritten memory *)
(* only after an error of its own (ffmpeg_cleanup).                        *)
THEOREM RerunIsSafe == Spec => []FaultsOnlyAfterError
<1>1. IInv => FaultsOnlyAfterError
  BY DEF IInv, ErrorInv, FaultsOnlyAfterError
<1> QED BY <1>1, Invariance, PTL

(* Without a signal in the process, a run without an error reads all.      *)
THEOREM QuietConverts == Spec => []QuietProcessConverts
<1>1. IInv => QuietProcessConverts
  BY DEF IInv, ReadInv, QuietProcessConverts
<1> QED BY <1>1, Invariance, PTL

(* The code ffmpeg_main returns after its clean-up tells of the muxer.     *)
THEOREM ResultIsTrue == Spec => []ResultTellsWriteErrors
<1>1. IInv => ResultTellsWriteErrors
  BY DEF IInv, ResultInv, ResultTellsWriteErrors
<1> QED BY <1>1, Invariance, PTL
=============================================================================
