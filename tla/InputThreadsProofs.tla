------------------------- MODULE InputThreadsProofs -------------------------
(***************************************************************************)
(* Proofs about InputThreads, for any number of files and packets, any     *)
(* capacity of the queues and any set of faults.                           *)
(*                                                                         *)
(* The properties of InputThreads are not inductive one by one: that a     *)
(* packet is neither lost nor doubled when a thread is started again needs *)
(* to know that the old thread had ended with its queue empty (AtInv),     *)
(* which needs the relation of a thread's place with its queue's errors    *)
(* (UseInv) and who may sleep on a queue (SleepInv).                       *)
(***************************************************************************)
EXTENDS InputThreads, TLAPS

(* A signal only takes threads out of a wait set.                          *)
LEMMA SignalType ==
  ASSUME NEW T, NEW q \in Queues
  PROVE  /\ recvWait \in [Queues -> SUBSET T] /\ SignalReceiver(q)
              => recvWait' \in [Queues -> SUBSET T]
         /\ sendWait \in [Queues -> SUBSET T] /\ SignalSender(q)
              => sendWait' \in [Queues -> SUBSET T]
  BY DEF SignalReceiver, SignalSender

(* Sending a message or waiting to send it keeps the type of the queues.   *)
LEMMA SendType ==
  ASSUME NEW M, NEW T, QueueType(M, T),
         NEW q \in Queues, NEW m \in M, NEW t \in T,
         SendOk(q, m) \/ SendError(q) \/ SendAgain(q) \/ SendWait(q, t)
  PROVE  QueueType(M, T)'
<1> USE QueueAssumption DEF QueueType
<1>1. CASE SendOk(q, m)
  <2>1. recvWait' \in [Queues -> SUBSET T]
    BY <1>1, SignalType DEF SendOk
  <2>2. fifo' \in [Queues -> Seq(M)] /\ \A p \in Queues : Len(fifo'[p]) <= Capacity
    BY <1>1 DEF SendOk, Full
  <2> QED BY <1>1, <2>1, <2>2 DEF SendOk
<1>2. CASE SendError(q) \/ SendAgain(q)
  BY <1>2 DEF SendError, SendAgain, queueVars
<1>3. CASE SendWait(q, t)
  BY <1>3 DEF SendWait
<1> QED BY <1>1, <1>2, <1>3

(* Receiving a message or waiting for one keeps the type of the queues.    *)
LEMMA RecvType ==
  ASSUME NEW M, NEW T, QueueType(M, T),
         NEW q \in Queues, NEW t \in T,
         RecvOk(q) \/ RecvError(q) \/ RecvAgain(q) \/ RecvWait(q, t)
  PROVE  QueueType(M, T)'
<1> USE QueueAssumption DEF QueueType
<1>1. CASE RecvOk(q)
  <2>1. sendWait' \in [Queues -> SUBSET T]
    BY <1>1, SignalType DEF RecvOk
  <2>2. fifo' \in [Queues -> Seq(M)] /\ \A p \in Queues : Len(fifo'[p]) <= Capacity
    BY <1>1 DEF RecvOk, Empty
  <2> QED BY <1>1, <2>1, <2>2 DEF RecvOk
<1>2. CASE RecvError(q) \/ RecvAgain(q)
  BY <1>2 DEF RecvError, RecvAgain, queueVars
<1>3. CASE RecvWait(q, t)
  BY <1>3 DEF RecvWait
<1> QED BY <1>1, <1>2, <1>3

(* So do the errors, a flush, an allocation and a spurious wakeup.         *)
LEMMA ControlType ==
  ASSUME NEW M, NEW T, QueueType(M, T), NEW q \in Queues,
         \/ SetErrSend(q) \/ SetErrRecv(q) \/ Flush(q) \/ Alloc(q)
         \/ SpuriousWakeup(q)
  PROVE  QueueType(M, T)'
<1> USE QueueAssumption DEF QueueType
<1>1. CASE SetErrSend(q) \/ SetErrRecv(q)
  BY <1>1 DEF SetErrSend, SetErrRecv
<1>2. CASE Flush(q) \/ Alloc(q)
  <2>1. fifo' = [fifo EXCEPT ![q] = <<>>]
    BY <1>2 DEF Flush, Alloc
  <2>2. fifo' \in [Queues -> Seq(M)]
    BY <2>1
  <2>3. ASSUME NEW p \in Queues PROVE Len(fifo'[p]) <= Capacity
    BY <2>1, Len(<<>>) = 0
  <2>4. /\ errSend' \in [Queues -> {0, 1}] /\ errRecv' \in [Queues -> {0, 1}]
        /\ sendWait' \in [Queues -> SUBSET T]
        /\ recvWait' \in [Queues -> SUBSET T]
    BY <1>2 DEF Flush, Alloc
  <2> QED BY <2>2, <2>3, <2>4
<1>3. CASE WakeSender(q) \/ WakeReceiver(q)
  BY <1>3 DEF WakeSender, WakeReceiver
<1> QED BY <1>1, <1>2, <1>3 DEF SpuriousWakeup

(* What a sender and a receiver that are each alone on their side may rely *)
(* on: a message sent or received wakes the other side.                    *)
LEMMA SignalWakes ==
  ASSUME NEW T, NEW t, NEW q \in Queues,
         recvWait \in [Queues -> SUBSET T],
         sendWait \in [Queues -> SUBSET T]
  PROVE  /\ recvWait[q] \subseteq {t} /\ SignalReceiver(q) =>
              recvWait' = [recvWait EXCEPT ![q] = {}]
         /\ sendWait[q] \subseteq {t} /\ SignalSender(q) =>
              sendWait' = [sendWait EXCEPT ![q] = {}]
<1>1. ASSUME recvWait[q] \subseteq {t}, SignalReceiver(q)
      PROVE  recvWait' = [recvWait EXCEPT ![q] = {}]
  <2>1. CASE recvWait[q] = {} /\ UNCHANGED recvWait
    BY <2>1
  <2>2. CASE \E u \in recvWait[q] : recvWait' = [recvWait EXCEPT ![q] = @ \ {u}]
    <3>1. PICK u \in recvWait[q] : recvWait' = [recvWait EXCEPT ![q] = @ \ {u}]
      BY <2>2
    <3>2. recvWait[q] \ {u} = {}
      BY <1>1
    <3> QED BY <3>1, <3>2
  <2> QED BY <1>1, <2>1, <2>2 DEF SignalReceiver
<1>2. ASSUME sendWait[q] \subseteq {t}, SignalSender(q)
      PROVE  sendWait' = [sendWait EXCEPT ![q] = {}]
  <2>1. CASE sendWait[q] = {} /\ UNCHANGED sendWait
    BY <2>1
  <2>2. CASE \E u \in sendWait[q] : sendWait' = [sendWait EXCEPT ![q] = @ \ {u}]
    <3>1. PICK u \in sendWait[q] : sendWait' = [sendWait EXCEPT ![q] = @ \ {u}]
      BY <2>2
    <3>2. sendWait[q] \ {u} = {}
      BY <1>2
    <3> QED BY <3>1, <3>2
  <2> QED BY <1>2, <2>1, <2>2 DEF SignalSender
<1> QED BY <1>1, <1>2

(* A file's queue, its thread and the queue's errors.                      *)
Uses(f) ==
  /\ hasQueue[f] = 0 <=> thread[f] = "none"
  /\ hasQueue[f] = 0 => fifo[f] = <<>>
  /\ hasQueue[f] = 1 => (errRecv[f] = 1 <=> thread[f] = "done")
  /\ hasQueue[f] = 1 /\ errSend[f] = 1 => f = cur /\ main \in {"empty", "join"}
  /\ thread[f] = "unsent" => errSend[f] = 1
  /\ thread[f] = "send" => pos[f] > 0

UseInv == \A f \in Files : Uses(f)

(* Who sleeps on a queue, and why.                                         *)
Sleeps(f) ==
  /\ sendWait[f] \subseteq {f} /\ recvWait[f] \subseteq {Main}
  /\ sendWait[f] # {} => thread[f] = "send" /\ Full(f) /\ errSend[f] = 0
  /\ recvWait[f] # {} =>
       /\ f = cur /\ main \in {"receive", "again", "empty"}
       /\ fifo[f] = <<>> /\ errRecv[f] = 0 /\ hasQueue[f] = 1

SleepInv == \A f \in Files : Sleeps(f)

Ending  == {"close", "empty", "join", "closed", "end"}
PlayingAgain == {"flush", "close", "empty", "join", "seek"}

(* What the main thread knows of the file it is at.                        *)
AtInv ==
  /\ ending = 1 => main \in Ending
  /\ main \in {"closed", "end"} => ending = 1
  /\ main \in {"flush", "empty", "join", "again"} => hasQueue[cur] = 1
  /\ main \in {"empty", "join"} => errSend[cur] = 1
  /\ main \in {"flush", "join"} => fifo[cur] = <<>> /\ thread[cur] = "done"
  /\ main \in {"seek", "start", "startAtEnd"} => thread[cur] = "none"
  /\ ending = 0 /\ main \in {"flush", "close", "empty", "join"} => thread[cur] = "done"
  /\ ending = 0 /\ main \in PlayingAgain => loop[cur] > 0
  /\ ending = 0 /\ main \in PlayingAgain \cup {"start", "startAtEnd"} => taken[cur] = pos[cur]
  /\ main = "init" =>
       \A f \in Files : f >= cur => hasQueue[f] = 0 /\ pos[f] = 0 /\ taken[f] = 0

IInv == TypeOK /\ UseInv /\ SleepInv /\ AtInv /\ PacketsInOrder

-----------------------------------------------------------------------------
(* What the proofs use of the constants.                                   *)
LEMMA Constants == /\ Files = 1..NbFiles /\ NbFiles \in Nat /\ NbFiles >= 2
                   /\ 1 \in Files /\ Main \notin Files
                   /\ NbPackets \in Nat /\ Loops \in Nat /\ Delay \in Nat
                   /\ Capacity \in Nat /\ Capacity > 0
  BY InputAssumption, QueueAssumption DEF Files, Main

(* Counting within the bounds.                                             *)
LEMMA Steps == /\ 1 \in Files
               /\ \A f \in Files : f # NbFiles => f + 1 \in Files
               /\ \A x \in 0..NbPackets : x < NbPackets => x + 1 \in 0..NbPackets
               /\ Packets \subseteq 0..NbPackets
               /\ \A x \in 0..NbPackets : x > 0 => x \in Packets
               /\ \A x \in 0..Loops : x > 0 => x - 1 \in 0..Loops
  BY Constants DEF Packets

(* A decoder's frames stay within their bound when one comes or goes.      *)
LEMMA DelaySteps ==
  ASSUME NEW x \in 0..Delay
  PROVE  /\ (IF x < Delay THEN x + 1 ELSE x) \in 0..Delay
         /\ (IF x > 0 THEN x - 1 ELSE x) \in 0..Delay
  BY Constants

(* A decoder holds back at most Delay frames.                              *)
LEMMA HeldType ==
  ASSUME held \in [Files -> 0..Delay], NEW f \in Files,
         DecodeOne(f) \/ DrainOne(f) \/ UNCHANGED held
  PROVE  held' \in [Files -> 0..Delay]
<1>1. held[f] \in 0..Delay
  OBVIOUS
<1>2. CASE DecodeOne(f)
  <2>1. (IF held[f] < Delay THEN held[f] + 1 ELSE held[f]) \in 0..Delay
    BY <1>1, DelaySteps
  <2> QED BY <1>2, <2>1 DEF DecodeOne
<1>3. CASE DrainOne(f)
  <2>1. (IF held[f] > 0 THEN held[f] - 1 ELSE held[f]) \in 0..Delay
    BY <1>1, DelaySteps
  <2> QED BY <1>3, <2>1 DEF DrainOne
<1> QED BY <1>2, <1>3

(* What they use of the types.                                             *)
LEMMA Types ==
  IInv => /\ fifo \in [Files -> Seq(Packets)]
          /\ errSend \in [Files -> {0, 1}] /\ errRecv \in [Files -> {0, 1}]
          /\ sendWait \in [Files -> SUBSET (Files \cup {Main})]
          /\ recvWait \in [Files -> SUBSET (Files \cup {Main})]
          /\ thread \in [Files -> {"none", "read", "send", "unsent", "done"}]
          /\ hasQueue \in [Files -> {0, 1}] /\ cur \in Files /\ ending \in {0, 1}
          /\ pos \in [Files -> Nat] /\ taken \in [Files -> Nat] /\ loop \in [Files -> Nat]
<1> SUFFICES ASSUME IInv PROVE Types!2
  OBVIOUS
<1> USE DEF IInv, TypeOK
<1>1. /\ fifo \in [Files -> Seq(Packets)]
      /\ errSend \in [Files -> {0, 1}] /\ errRecv \in [Files -> {0, 1}]
      /\ sendWait \in [Files -> SUBSET (Files \cup {Main})]
      /\ recvWait \in [Files -> SUBSET (Files \cup {Main})]
  BY DEF QueueType, Files
<1>2. /\ thread \in [Files -> {"none", "read", "send", "unsent", "done"}]
      /\ hasQueue \in [Files -> {0, 1}] /\ cur \in Files /\ ending \in {0, 1}
  BY DEF InputType, Flag
<1>3. pos \in [Files -> Nat] /\ taken \in [Files -> Nat] /\ loop \in [Files -> Nat]
  BY Constants DEF InputType
<1> QED BY <1>1, <1>2, <1>3

(* There is one thread on each side of a queue: a signal wakes it.         *)
LEMMA Wakes ==
  ASSUME IInv, NEW f \in Files
  PROVE  /\ SignalReceiver(f) => recvWait' = [recvWait EXCEPT ![f] = {}]
         /\ SignalSender(f) => sendWait' = [sendWait EXCEPT ![f] = {}]
<1>1. recvWait[f] \subseteq {Main} /\ sendWait[f] \subseteq {f}
  BY DEF IInv, SleepInv, Sleeps
<1> QED BY <1>1, Types, SignalWakes DEF Files


(* What the thread of f does to its queue and to itself in SendPacket.     *)
Sent(f) ==
  /\ ~Full(f)
  /\ fifo' = [fifo EXCEPT ![f] = Append(@, pos[f])]
  /\ recvWait' = [recvWait EXCEPT ![f] = {}]
  /\ thread' = [thread EXCEPT ![f] = "read"]
  /\ UNCHANGED sendWait

Refused(f) ==
  /\ errSend[f] = 1
  /\ thread' = [thread EXCEPT ![f] = "unsent"]
  /\ UNCHANGED <<fifo, sendWait, recvWait>>

Retries == UNCHANGED <<fifo, sendWait, recvWait, thread>>

FallsAsleep(f) ==
  /\ errSend[f] = 0 /\ Full(f)
  /\ sendWait' = [sendWait EXCEPT ![f] = {f}]
  /\ UNCHANGED <<fifo, recvWait, thread>>

(* One of them is what SendPacket does, once the signal is resolved.       *)
LEMMA SendEffects ==
  ASSUME IInv, NEW f \in Files, SendPacket(f)
  PROVE  /\ thread[f] = "send" /\ sendWait[f] = {}
         /\ UNCHANGED <<errSend, errRecv, pos, taken, loop, hasQueue, main, cur, ending>>
         /\ Sent(f) \/ Refused(f) \/ Retries \/ FallsAsleep(f)
<1> USE DEF streamVars, mainVars, queueVars
<1>1. thread[f] = "send" /\ sendWait[f] = {}
  BY DEF SendPacket, IInv, SleepInv, Sleeps
<1>2. UNCHANGED <<errSend, errRecv, pos, taken, loop, hasQueue, main, cur, ending>>
  BY DEF SendPacket, SendOk, SendError, SendAgain, SendWait
<1>3. CASE SendOk(f, pos[f]) /\ thread' = [thread EXCEPT ![f] = "read"]
  BY <1>1, <1>2, <1>3, Wakes DEF SendOk, Sent
<1>4. CASE SendError(f) /\ thread' = [thread EXCEPT ![f] = "unsent"]
  BY <1>1, <1>2, <1>4 DEF SendError, Refused
<1>5. CASE SendAgain(f) /\ UNCHANGED thread
  BY <1>1, <1>2, <1>5 DEF SendAgain, Retries
<1>6. CASE SendWait(f, f) /\ UNCHANGED thread
  <2>1. sendWait' = [sendWait EXCEPT ![f] = {f}]
    BY <1>1, <1>6 DEF SendWait
  <2> QED BY <1>1, <1>2, <1>6, <2>1 DEF SendWait, FallsAsleep
<1> QED BY <1>3, <1>4, <1>5, <1>6 DEF SendPacket

(* The same, file by file.                                                 *)
LEMMA SendFrame ==
  ASSUME IInv, NEW f \in Files, SendPacket(f)
  PROVE  /\ \A g \in Files \ {f} :
              /\ fifo'[g] = fifo[g] /\ thread'[g] = thread[g]
              /\ sendWait'[g] = sendWait[g] /\ recvWait'[g] = recvWait[g]
         /\ thread'[f] \in {"read", "send"} \/ (thread'[f] = "unsent" /\ errSend[f] = 1)
         /\ recvWait'[f] = {} \/ (recvWait'[f] = recvWait[f] /\ fifo'[f] = fifo[f])
         /\ \/ sendWait'[f] = {}
            \/ /\ sendWait'[f] = {f} /\ thread'[f] = "send"
               /\ fifo'[f] = fifo[f] /\ Full(f) /\ errSend[f] = 0
<1>1. thread[f] = "send" /\ sendWait[f] = {}
  BY SendEffects
<1>2. CASE Sent(f)
  <2>1. thread'[f] = "read" /\ recvWait'[f] = {} /\ sendWait' = sendWait
    BY <1>2, Types DEF Sent
  <2>2. \A g \in Files \ {f} :
          fifo'[g] = fifo[g] /\ thread'[g] = thread[g] /\ recvWait'[g] = recvWait[g]
    BY <1>2, Types DEF Sent
  <2> QED BY <1>1, <2>1, <2>2
<1>3. CASE Refused(f)
  BY <1>1, <1>3, Types DEF Refused
<1>4. CASE Retries
  <2>1. fifo' = fifo /\ thread' = thread /\ sendWait' = sendWait /\ recvWait' = recvWait
    BY <1>4 DEF Retries
  <2> QED BY <1>1, <2>1
<1>5. CASE FallsAsleep(f)
  <2>1. /\ fifo' = fifo /\ thread' = thread /\ recvWait' = recvWait
        /\ sendWait'[f] = {f} /\ Full(f) /\ errSend[f] = 0
    BY <1>5, Types DEF FallsAsleep
  <2>2. \A g \in Files \ {f} : sendWait'[g] = sendWait[g]
    BY <1>5, Types DEF FallsAsleep
  <2> QED BY <1>1, <2>1, <2>2
<1> QED BY <1>2, <1>3, <1>4, <1>5, SendEffects

(* A spurious wakeup finds the only thread on its side of the queue.       *)
LEMMA WakeEffects ==
  ASSUME IInv, NEW f \in Files, Wakeup(f)
  PROVE  /\ UNCHANGED <<fifo, errSend, errRecv, demuxVars, streamVars, mainVars>>
         /\ \/ sendWait' = [sendWait EXCEPT ![f] = {}] /\ UNCHANGED recvWait
            \/ recvWait' = [recvWait EXCEPT ![f] = {}] /\ UNCHANGED sendWait
<1>1. recvWait[f] \subseteq {Main} /\ sendWait[f] \subseteq {f}
  BY DEF IInv, SleepInv, Sleeps
<1>2. CASE WakeSender(f)
  <2>1. PICK t \in sendWait[f] : sendWait' = [sendWait EXCEPT ![f] = @ \ {t}]
    BY <1>2 DEF WakeSender
  <2>2. sendWait[f] \ {t} = {}
    BY <1>1
  <2>3. sendWait' = [sendWait EXCEPT ![f] = {}]
    BY <2>1, <2>2
  <2> QED BY <1>2, <2>3 DEF WakeSender, Wakeup
<1>3. CASE WakeReceiver(f)
  <2>1. PICK t \in recvWait[f] : recvWait' = [recvWait EXCEPT ![f] = @ \ {t}]
    BY <1>3 DEF WakeReceiver
  <2>2. recvWait[f] \ {t} = {}
    BY <1>1
  <2>3. recvWait' = [recvWait EXCEPT ![f] = {}]
    BY <2>1, <2>2
  <2> QED BY <1>3, <2>3 DEF WakeReceiver, Wakeup
<1> QED BY <1>2, <1>3 DEF Wakeup, SpuriousWakeup

(* The same, file by file.                                                 *)
LEMMA WakeFrame ==
  ASSUME IInv, NEW f \in Files, Wakeup(f)
  PROVE  \A g \in Files : /\ sendWait'[g] \in {{}, sendWait[g]}
                          /\ recvWait'[g] \in {{}, recvWait[g]}
<1>1. CASE sendWait' = [sendWait EXCEPT ![f] = {}] /\ UNCHANGED recvWait
  BY <1>1, Types
<1>2. CASE recvWait' = [recvWait EXCEPT ![f] = {}] /\ UNCHANGED sendWait
  BY <1>2, Types
<1> QED BY <1>1, <1>2, WakeEffects

(* Taking a packet from the queue of cur, by Receive or EmptyQueue.        *)
LEMMA TakeEffects ==
  ASSUME IInv, RecvOk(cur), Receive \/ EmptyQueue
  PROVE  /\ fifo[cur] # <<>> /\ fifo' = [fifo EXCEPT ![cur] = Tail(@)]
         /\ sendWait' = [sendWait EXCEPT ![cur] = {}]
         /\ recvWait[cur] = {}
         /\ UNCHANGED <<recvWait, errSend, errRecv, thread, pos, hasQueue, cur, ending>>
<1>1. cur \in Files /\ recvWait[cur] = {}
  BY Types DEF Receive, EmptyQueue, IInv, SleepInv, Sleeps
<1> QED BY <1>1, Wakes DEF RecvOk, Empty, Receive, EmptyQueue, demuxVars
(* Every step keeps the type of the queues.                                *)
LEMMA QueueTypeStep == IInv /\ [Next]_vars => QueueType(Packets, Files \cup {Main})'
<1> SUFFICES ASSUME IInv, [Next]_vars PROVE QueueType(Packets, Files \cup {Main})'
  OBVIOUS
<1> USE Types DEF IInv, TypeOK, Files, queueVars
<1>1. ASSUME NEW f \in Files, ReadPacket(f) PROVE QueueType(Packets, Files \cup {Main})'
  BY <1>1 DEF ReadPacket, QueueType
<1>2. ASSUME NEW f \in Files, ReadEnd(f) PROVE QueueType(Packets, Files \cup {Main})'
  BY <1>2, ControlType DEF ReadEnd
<1>3. ASSUME NEW f \in Files, SendPacket(f) PROVE QueueType(Packets, Files \cup {Main})'
  <2>1. pos[f] \in Packets /\ f \in Files \cup {Main}
    <3>1. pos[f] \in 0..NbPackets /\ pos[f] > 0
      BY <1>3 DEF SendPacket, UseInv, Uses, InputType
    <3> QED BY <3>1, Steps
  <2> QED BY <1>3, <2>1, SendType DEF SendPacket
<1>4. ASSUME NEW f \in Files, GiveUp(f) PROVE QueueType(Packets, Files \cup {Main})'
  BY <1>4, ControlType DEF GiveUp
<1>5. ASSUME NEW f \in Files, Wakeup(f) PROVE QueueType(Packets, Files \cup {Main})'
  BY <1>5, ControlType DEF Wakeup
<1>6. ASSUME NEW f \in Files, Choose(f) PROVE QueueType(Packets, Files \cup {Main})'
  BY <1>6 DEF Choose, TooEarly, Unavailable, Available, QueueType
<1>7. CASE InitInputThreads
  BY <1>7, ControlType DEF InitInputThreads, StartThread, QueueType
<1>8. CASE ResetEagain
  BY <1>8 DEF ResetEagain, QueueType
<1>9. CASE Stop
  BY <1>9 DEF Stop, GoFreeAll, QueueType
<1>11. CASE Receive
  BY <1>11, RecvType DEF Receive
<1>12. CASE ReceiveFromNothing
  BY <1>12 DEF ReceiveFromNothing, QueueType
<1>13. CASE FlushDecoder
  BY <1>13 DEF FlushDecoder, DrainOne, QueueType
<1>14. CASE SeekToStart
  BY <1>14 DEF SeekToStart, QueueType
<1>15. CASE RestartThread
  BY <1>15, ControlType DEF RestartThread, TooEarly, Unavailable, StartThread, QueueType
<1>16. CASE MarkEof
  BY <1>16 DEF MarkEof, DrainOne, QueueType
<1>17. CASE CloseQueue
  BY <1>17, ControlType DEF CloseQueue, QueueType
<1>18. CASE EmptyQueue
  BY <1>18, RecvType DEF EmptyQueue
<1>19. CASE JoinThread
  BY <1>19, ControlType DEF JoinThread
<1>20. CASE FlushDecoders
  BY <1>20 DEF FlushDecoders, QueueType
<1>21. CASE UNCHANGED vars
  BY <1>21 DEF vars, QueueType
<1> QED BY <1>1, <1>2, <1>3, <1>4, <1>5, <1>6, <1>7, <1>8, <1>9, <1>11,
          <1>12, <1>13, <1>14, <1>15, <1>16, <1>17, <1>18, <1>19, <1>20, <1>21 DEF Next,
                 MainStep, ThreadStep, Terminated

(* Every step keeps the other types.                                       *)
LEMMA InputTypeStep == IInv /\ [Next]_vars => InputType'
<1> SUFFICES ASSUME IInv, [Next]_vars PROVE InputType'
  OBVIOUS
<1> USE Types DEF IInv, TypeOK, InputType, Flag, demuxVars, streamVars, mainVars
<1>1. ASSUME NEW f \in Files, ReadPacket(f) PROVE InputType'
  <2>1. pos[f] + 1 \in 0..NbPackets
    BY <1>1, Steps DEF ReadPacket
  <2> QED BY <1>1, <2>1 DEF ReadPacket
<1>2. ASSUME NEW f \in Files, ReadEnd(f) PROVE InputType'
  BY <1>2 DEF ReadEnd, SetErrRecv
<1>3. ASSUME NEW f \in Files, SendPacket(f) PROVE InputType'
  BY <1>3 DEF SendPacket
<1>4. ASSUME NEW f \in Files, GiveUp(f) PROVE InputType'
  BY <1>4 DEF GiveUp, SetErrRecv
<1>5. ASSUME NEW f \in Files, Wakeup(f) PROVE InputType'
  BY <1>5 DEF Wakeup
<1>6. ASSUME NEW f \in Files, Choose(f) PROVE InputType'
  BY <1>6 DEF Choose, TooEarly, Unavailable, Available
<1>7. CASE InitInputThreads
  <2>1. cur' \in Files
    BY <1>7, Steps DEF InitInputThreads, IsLast, GoFreeAll
  <2> QED BY <1>7, <2>1 DEF InitInputThreads, StartThread, GoFreeAll
<1>8. CASE ResetEagain
  BY <1>8 DEF ResetEagain
<1>9. CASE Stop
  BY <1>9, Constants DEF Stop, GoFreeAll
<1>11. CASE Receive
  <2>1. CASE RecvOk(cur)
    <3>1. Head(fifo[cur]) \in 0..NbPackets
      <4>1. fifo[cur] \in Seq(Packets) /\ fifo[cur] # <<>>
        BY <2>1 DEF RecvOk, Empty
      <4>2. Head(fifo[cur]) \in Packets
        BY <4>1
      <4> QED BY <4>2, Steps
    <3>2. DecodeOne(cur) /\ taken' = [taken EXCEPT ![cur] = Head(fifo[cur])]
      BY <1>11, <2>1 DEF Receive, RecvOk, RecvError, RecvAgain, RecvWait, Empty
    <3>4. held' \in [Files -> 0..Delay] /\ taken' \in [Files -> 0..NbPackets]
      BY <3>1, <3>2, HeldType
    <3>3. eagain' \in [Files -> {0, 1}] /\ main' = "choose" /\ UNCHANGED <<loop, eof>>
      BY <1>11, <2>1 DEF Receive, RecvOk, RecvError, RecvAgain, RecvWait, Unavailable
    <3> QED BY <1>11, <3>3, <3>4 DEF Receive
  <2>2. CASE UNCHANGED <<taken, held, loop, eof>> /\ ~RecvOk(cur)
    BY <1>11, <2>2 DEF Receive, Unavailable, GoOnAtEnd
  <2> QED BY <1>11, <2>1, <2>2 DEF Receive, Unavailable
<1>12. CASE ReceiveFromNothing
  BY <1>12 DEF ReceiveFromNothing
<1>13. CASE FlushDecoder
  <2>1. held' \in [Files -> 0..Delay]
    BY <1>13, HeldType DEF FlushDecoder
  <2> QED BY <1>13, <2>1 DEF FlushDecoder
<1>14. CASE SeekToStart
  <2>1. loop[cur] - 1 \in 0..Loops \/ main' = "startAtEnd"
    BY <1>14, Steps DEF SeekToStart, AtInv, PlayingAgain, Ending
  <2>2. 0 \in 0..NbPackets
    BY Constants
  <2>3. CASE pos' = [pos EXCEPT ![cur] = 0] /\ taken' = [taken EXCEPT ![cur] = 0]
             /\ loop' = [loop EXCEPT ![cur] = @ - 1] /\ main' = "start"
    BY <1>14, <2>1, <2>2, <2>3 DEF SeekToStart
  <2>4. CASE main' = "startAtEnd" /\ UNCHANGED <<pos, taken, loop>>
    BY <1>14, <2>4 DEF SeekToStart
  <2> QED BY <1>14, <2>3, <2>4 DEF SeekToStart
<1>15. CASE RestartThread
  <2>1. cur' \in Files
    BY <1>15, Constants DEF RestartThread, TooEarly, Unavailable, StartThread, GoFreeAll
  <2> QED BY <1>15, <2>1 DEF RestartThread, TooEarly, Unavailable, StartThread, GoFreeAll
<1>16. CASE MarkEof
  <2>1. held' \in [Files -> 0..Delay]
    BY <1>16, HeldType DEF MarkEof
  <2> QED BY <1>16, <2>1 DEF MarkEof
<1>17. CASE CloseQueue
  <2>1. cur' \in Files
    BY <1>17, Steps DEF CloseQueue, IsLast, Freed
  <2> QED BY <1>17, <2>1 DEF CloseQueue, Freed
<1>18. CASE EmptyQueue
  BY <1>18 DEF EmptyQueue
<1>19. CASE JoinThread
  <2>1. cur' \in Files
    BY <1>19, Steps DEF JoinThread, IsLast, Freed
  <2> QED BY <1>19, <2>1 DEF JoinThread, Freed
<1>20. CASE FlushDecoders
  <2>1. ASSUME NEW f \in Files
        PROVE  (IF eof[f] = 0 /\ held[f] > 0 THEN held[f] - 1 ELSE held[f]) \in 0..Delay
    <3>1. held[f] \in 0..Delay
      OBVIOUS
    <3>2. (IF held[f] > 0 THEN held[f] - 1 ELSE held[f]) \in 0..Delay
      BY <3>1, DelaySteps
    <3> QED BY <3>1, <3>2
  <2>2. held' \in [Files -> 0..Delay]
    BY <1>20, <2>1 DEF FlushDecoders
  <2> QED BY <1>20, <2>2 DEF FlushDecoders
<1>21. CASE UNCHANGED vars
  BY <1>21 DEF vars
<1> QED BY <1>1, <1>2, <1>3, <1>4, <1>5, <1>6, <1>7, <1>8, <1>9, <1>11,
          <1>12, <1>13, <1>14, <1>15, <1>16, <1>17, <1>18, <1>19, <1>20, <1>21 DEF Next,
                 MainStep, ThreadStep, Terminated

(* Every step keeps UseInv.                                                *)
LEMMA UseStep == IInv /\ [Next]_vars => UseInv'
<1> SUFFICES ASSUME IInv, [Next]_vars PROVE UseInv'
  OBVIOUS
<1> USE Types DEF IInv, UseInv, Uses, AtInv, queueVars, demuxVars, streamVars, mainVars,
        Ending, PlayingAgain
<1>1. ASSUME NEW f \in Files, ReadPacket(f) PROVE UseInv'
  BY <1>1 DEF ReadPacket
<1>2. ASSUME NEW f \in Files, ReadEnd(f) PROVE UseInv'
  BY <1>2 DEF ReadEnd, SetErrRecv
<1>3. ASSUME NEW f \in Files, SendPacket(f) PROVE UseInv'
  <2>1. /\ UNCHANGED <<errSend, errRecv, pos, taken, loop, hasQueue, main, cur, ending>>
        /\ thread[f] = "send"
    BY <1>3, SendEffects
  <2>2. \A g \in Files \ {f} :
          /\ fifo'[g] = fifo[g] /\ thread'[g] = thread[g]
          /\ sendWait'[g] = sendWait[g] /\ recvWait'[g] = recvWait[g]
    BY <1>3, SendFrame
  <2>3. hasQueue[f] = 1 /\ errRecv[f] # 1 /\ pos[f] > 0
    BY <2>1
  <2>4. thread'[f] \in {"read", "send"} \/ (thread'[f] = "unsent" /\ errSend[f] = 1)
    BY <1>3, SendFrame
  <2> HIDE DEF AtInv
  <2>5. ASSUME NEW g \in Files \ {f} PROVE Uses(g)'
    BY <2>1, <2>2, <2>5
  <2>6. Uses(f)'
    BY <2>1, <2>3, <2>4
  <2> QED BY <2>5, <2>6
<1>4. ASSUME NEW f \in Files, GiveUp(f) PROVE UseInv'
  BY <1>4 DEF GiveUp, SetErrRecv
<1>5. ASSUME NEW f \in Files, Wakeup(f) PROVE UseInv'
  BY <1>5, WakeEffects
<1>6. ASSUME NEW f \in Files, Choose(f) PROVE UseInv'
  BY <1>6 DEF Choose, TooEarly, Unavailable, Available
<1>7. CASE InitInputThreads
  <2>1. CASE StartThread(cur) /\ IsLast(cur) /\ main' = "choose" /\ UNCHANGED <<cur, ending>>
    BY <1>7, <2>1 DEF InitInputThreads, GoFreeAll, StartThread, Alloc, IsLast
  <2>2. CASE StartThread(cur) /\ cur' = cur + 1 /\ UNCHANGED <<main, ending>>
    BY <1>7, <2>2 DEF InitInputThreads, GoFreeAll, StartThread, Alloc, IsLast
  <2>3. CASE GoFreeAll /\ UNCHANGED <<queueVars, demuxVars, hasQueue>>
    BY <1>7, <2>3 DEF InitInputThreads, GoFreeAll, StartThread, Alloc, IsLast
  <2> QED BY <1>7, <2>1, <2>2, <2>3 DEF InitInputThreads
<1>8. CASE ResetEagain
  BY <1>8 DEF ResetEagain
<1>9. CASE Stop
  BY <1>9 DEF Stop, GoFreeAll
<1>11. CASE Receive
  <2>1. CASE RecvOk(cur)
    BY <1>11, <2>1, Wakes DEF Receive, RecvOk, RecvAgain, RecvWait, RecvError, Unavailable,
       DecodeOne, GoOnAtEnd
  <2>2. CASE RecvAgain(cur)
    BY <1>11, <2>2 DEF Receive, RecvOk, RecvAgain, RecvWait, RecvError, Unavailable, DecodeOne,
       GoOnAtEnd
  <2>3. CASE RecvWait(cur, Main)
    BY <1>11, <2>3 DEF Receive, RecvOk, RecvAgain, RecvWait, RecvError, Unavailable, DecodeOne,
       GoOnAtEnd
  <2>4. CASE RecvError(cur)
    BY <1>11, <2>4 DEF Receive, RecvOk, RecvAgain, RecvWait, RecvError, Unavailable, DecodeOne,
       GoOnAtEnd
  <2> QED BY <1>11, <2>1, <2>2, <2>3, <2>4 DEF Receive
<1>12. CASE ReceiveFromNothing
  BY <1>12 DEF ReceiveFromNothing
<1>13. CASE FlushDecoder
  BY <1>13 DEF FlushDecoder, DrainOne
<1>14. CASE SeekToStart
  BY <1>14 DEF SeekToStart
<1>15. CASE RestartThread
  <2>1. CASE StartThread(cur)
    BY <1>15, <2>1 DEF RestartThread, TooEarly, Unavailable, StartThread, Alloc, GoFreeAll
  <2>2. CASE ~StartThread(cur)
    BY <1>15, <2>2 DEF RestartThread, TooEarly, Unavailable, StartThread, Alloc, GoFreeAll
  <2> QED BY <1>15, <2>1, <2>2 DEF RestartThread, TooEarly, Unavailable
<1>16. CASE MarkEof
  BY <1>16 DEF MarkEof, DrainOne
<1>17. CASE CloseQueue
  <2>1. CASE hasQueue[cur] = 1
    BY <1>17, <2>1 DEF CloseQueue, SetErrSend, Freed, IsLast
  <2>2. CASE hasQueue[cur] = 0
    BY <1>17, <2>2 DEF CloseQueue, SetErrSend, Freed, IsLast
  <2> QED BY <1>17, <2>1, <2>2 DEF CloseQueue
<1>18. CASE EmptyQueue
  <2>1. CASE RecvOk(cur)
    BY <1>18, <2>1, Wakes DEF EmptyQueue, RecvOk, RecvError, RecvWait
  <2>2. CASE RecvError(cur)
    BY <1>18, <2>2 DEF EmptyQueue, RecvOk, RecvError, RecvWait
  <2>3. CASE RecvWait(cur, Main)
    BY <1>18, <2>3 DEF EmptyQueue, RecvOk, RecvError, RecvWait
  <2> QED BY <1>18, <2>1, <2>2, <2>3 DEF EmptyQueue
<1>19. CASE JoinThread
  <2>1. CASE ending = 0
    BY <1>19, <2>1 DEF JoinThread, Flush, Freed, IsLast
  <2>2. CASE ending # 0
    BY <1>19, <2>2 DEF JoinThread, Flush, Freed, IsLast
  <2> QED BY <1>19, <2>1, <2>2 DEF JoinThread
<1>20. CASE FlushDecoders
  BY <1>20 DEF FlushDecoders
<1>21. CASE UNCHANGED vars
  BY <1>21 DEF vars
<1> QED BY <1>1, <1>2, <1>3, <1>4, <1>5, <1>6, <1>7, <1>8, <1>9, <1>11,
          <1>12, <1>13, <1>14, <1>15, <1>16, <1>17, <1>18, <1>19, <1>20, <1>21 DEF Next,
                 MainStep, ThreadStep, Terminated

(* Every step keeps SleepInv.                                              *)
LEMMA SleepStep == IInv /\ [Next]_vars => SleepInv'
<1> SUFFICES ASSUME IInv, [Next]_vars PROVE SleepInv'
  OBVIOUS
<1> USE Types DEF IInv, UseInv, Uses, SleepInv, Sleeps, AtInv, Full, Empty, queueVars,
        demuxVars, streamVars, mainVars, Ending, PlayingAgain
<1>1. ASSUME NEW f \in Files, ReadPacket(f) PROVE SleepInv'
  <2>1. /\ UNCHANGED <<fifo, errSend, errRecv, sendWait, recvWait, hasQueue, main, cur>>
        /\ thread[f] = "read" /\ \A g \in Files \ {f} : thread'[g] = thread[g]
    BY <1>1 DEF ReadPacket
  <2>2. \A g \in Files : Full(g)' <=> Full(g)
    BY <2>1
  <2> HIDE DEF Full, AtInv, UseInv
  <2> QED BY <2>1, <2>2
<1>2. ASSUME NEW f \in Files, ReadEnd(f) PROVE SleepInv'
  BY <1>2 DEF ReadEnd, SetErrRecv
<1>3. ASSUME NEW f \in Files, SendPacket(f) PROVE SleepInv'
  <2>1. /\ UNCHANGED <<errSend, errRecv, pos, taken, loop, hasQueue, main, cur, ending>>
        /\ thread[f] = "send"
    BY <1>3, SendEffects
  <2>2. \A g \in Files \ {f} :
          /\ fifo'[g] = fifo[g] /\ thread'[g] = thread[g]
          /\ sendWait'[g] = sendWait[g] /\ recvWait'[g] = recvWait[g]
    BY <1>3, SendFrame
  <2>3. \A g \in Files : fifo'[g] = fifo[g] => (Full(g)' <=> Full(g))
    BY DEF Full
  <2> HIDE DEF Full, AtInv, UseInv
  <2>4. recvWait'[f] = {} \/ (recvWait'[f] = recvWait[f] /\ fifo'[f] = fifo[f])
    BY <1>3, SendFrame
  <2>5. \/ sendWait'[f] = {}
        \/ /\ sendWait'[f] = {f} /\ thread'[f] = "send"
           /\ fifo'[f] = fifo[f] /\ Full(f) /\ errSend[f] = 0
    BY <1>3, SendFrame
  <2>6. ASSUME NEW g \in Files, g # f PROVE Sleeps(g)'
    BY <2>1, <2>2, <2>3, <2>6
  <2>7. Sleeps(f)'
    BY <2>1, <2>3, <2>4, <2>5
  <2> QED BY <2>6, <2>7
<1>4. ASSUME NEW f \in Files, GiveUp(f) PROVE SleepInv'
  BY <1>4 DEF GiveUp, SetErrRecv
<1>5. ASSUME NEW f \in Files, Wakeup(f) PROVE SleepInv'
  <2>1. UNCHANGED <<fifo, errSend, errRecv, thread, hasQueue, main, cur>>
    BY <1>5, WakeEffects
  <2>2. \A g \in Files : Full(g)' <=> Full(g)
    BY <2>1
  <2>3. \A g \in Files : /\ sendWait'[g] \in {{}, sendWait[g]}
                         /\ recvWait'[g] \in {{}, recvWait[g]}
    BY <1>5, WakeFrame
  <2> HIDE DEF Full, AtInv, UseInv
  <2> QED BY <2>1, <2>2, <2>3
<1>6. ASSUME NEW f \in Files, Choose(f) PROVE SleepInv'
  BY <1>6 DEF Choose, TooEarly, Unavailable, Available
<1>7. CASE InitInputThreads
  <2>1. CASE StartThread(cur)
    <3>1. cur \in Files /\ cur >= cur /\ main = "init"
      BY <1>7, Constants DEF InitInputThreads
    <3>2. hasQueue[cur] = 0 /\ sendWait[cur] = {} /\ recvWait[cur] = {}
      BY <3>1
    <3> QED BY <1>7, <2>1, <3>2 DEF InitInputThreads, GoFreeAll, StartThread, Alloc
  <2>2. CASE GoFreeAll /\ UNCHANGED <<queueVars, demuxVars, hasQueue>>
    BY <1>7, <2>2 DEF InitInputThreads, GoFreeAll
  <2> QED BY <1>7, <2>1, <2>2 DEF InitInputThreads
<1>8. CASE ResetEagain
  BY <1>8 DEF ResetEagain
<1>9. CASE Stop
  BY <1>9 DEF Stop, GoFreeAll
<1>11. CASE Receive
  <2>1. CASE RecvOk(cur)
    <3>1. /\ sendWait' = [sendWait EXCEPT ![cur] = {}]
          /\ recvWait[cur] = {} /\ recvWait' = recvWait
          /\ \A g \in Files \ {cur} : fifo'[g] = fifo[g]
          /\ UNCHANGED <<errSend, errRecv, thread, hasQueue, cur>>
      BY <1>11, <2>1, TakeEffects
    <3> QED BY <1>11, <3>1 DEF Receive
  <2>2. CASE RecvAgain(cur)
    BY <1>11, <2>2 DEF Receive, RecvOk, RecvAgain, RecvWait, RecvError, Unavailable, DecodeOne,
       GoOnAtEnd
  <2>3. CASE RecvWait(cur, Main)
    BY <1>11, <2>3 DEF Receive, RecvOk, RecvAgain, RecvWait, RecvError, Unavailable, DecodeOne,
       GoOnAtEnd
  <2>4. CASE RecvError(cur)
    BY <1>11, <2>4 DEF Receive, RecvOk, RecvAgain, RecvWait, RecvError, Unavailable, DecodeOne,
       GoOnAtEnd
  <2> QED BY <1>11, <2>1, <2>2, <2>3, <2>4 DEF Receive
<1>12. CASE ReceiveFromNothing
  BY <1>12 DEF ReceiveFromNothing
<1>13. CASE FlushDecoder
  BY <1>13 DEF FlushDecoder, DrainOne
<1>14. CASE SeekToStart
  BY <1>14 DEF SeekToStart
<1>15. CASE RestartThread
  <2>1. CASE StartThread(cur)
    BY <1>15, <2>1 DEF RestartThread, TooEarly, Unavailable, StartThread, Alloc, GoFreeAll
  <2>2. CASE ~StartThread(cur)
    BY <1>15, <2>2 DEF RestartThread, TooEarly, Unavailable, StartThread, Alloc, GoFreeAll
  <2> QED BY <1>15, <2>1, <2>2 DEF RestartThread, TooEarly, Unavailable
<1>16. CASE MarkEof
  BY <1>16 DEF MarkEof, DrainOne
<1>17. CASE CloseQueue
  <2>1. CASE hasQueue[cur] = 1
    BY <1>17, <2>1 DEF CloseQueue, SetErrSend, Freed, IsLast
  <2>2. CASE hasQueue[cur] = 0
    BY <1>17, <2>2 DEF CloseQueue, SetErrSend, Freed, IsLast
  <2> QED BY <1>17, <2>1, <2>2 DEF CloseQueue
<1>18. CASE EmptyQueue
  <2>1. CASE RecvOk(cur)
    BY <1>18, <2>1, Wakes DEF EmptyQueue, RecvOk, RecvError, RecvWait
  <2>2. CASE RecvError(cur)
    BY <1>18, <2>2 DEF EmptyQueue, RecvOk, RecvError, RecvWait
  <2>3. CASE RecvWait(cur, Main)
    BY <1>18, <2>3 DEF EmptyQueue, RecvOk, RecvError, RecvWait
  <2> QED BY <1>18, <2>1, <2>2, <2>3 DEF EmptyQueue
<1>19. CASE JoinThread
  <2>1. CASE ending = 0
    BY <1>19, <2>1 DEF JoinThread, Flush, Freed, IsLast
  <2>2. CASE ending # 0
    BY <1>19, <2>2 DEF JoinThread, Flush, Freed, IsLast
  <2> QED BY <1>19, <2>1, <2>2 DEF JoinThread
<1>20. CASE FlushDecoders
  BY <1>20 DEF FlushDecoders
<1>21. CASE UNCHANGED vars
  BY <1>21 DEF vars
<1> QED BY <1>1, <1>2, <1>3, <1>4, <1>5, <1>6, <1>7, <1>8, <1>9, <1>11,
          <1>12, <1>13, <1>14, <1>15, <1>16, <1>17, <1>18, <1>19, <1>20, <1>21 DEF Next,
                 MainStep, ThreadStep, Terminated

(* Every step keeps AtInv.                                                 *)
LEMMA AtStep == IInv /\ [Next]_vars => AtInv'
<1> SUFFICES ASSUME IInv, [Next]_vars PROVE AtInv'
  OBVIOUS
<1> USE Types DEF IInv, UseInv, Uses, AtInv, PacketsInOrder, Ordered, InHand, Empty, queueVars,
        demuxVars, streamVars, mainVars, Ending, PlayingAgain
<1>1. ASSUME NEW f \in Files, ReadPacket(f) PROVE AtInv'
  BY <1>1 DEF ReadPacket
<1>2. ASSUME NEW f \in Files, ReadEnd(f) PROVE AtInv'
  BY <1>2 DEF ReadEnd, SetErrRecv
<1>3. ASSUME NEW f \in Files, SendPacket(f) PROVE AtInv'
  <2>1. /\ UNCHANGED <<errSend, errRecv, pos, taken, loop, hasQueue, main, cur, ending>>
        /\ thread[f] = "send"
    BY <1>3, SendEffects
  <2>2. \A g \in Files \ {f} :
          /\ fifo'[g] = fifo[g] /\ thread'[g] = thread[g]
          /\ sendWait'[g] = sendWait[g] /\ recvWait'[g] = recvWait[g]
    BY <1>3, SendFrame
  <2>3. thread[cur] \in {"done", "none"} => cur # f
    BY <2>1
  <2> QED BY <2>1, <2>2, <2>3
<1>4. ASSUME NEW f \in Files, GiveUp(f) PROVE AtInv'
  BY <1>4 DEF GiveUp, SetErrRecv
<1>5. ASSUME NEW f \in Files, Wakeup(f) PROVE AtInv'
  BY <1>5, WakeEffects
<1>6. ASSUME NEW f \in Files, Choose(f) PROVE AtInv'
  BY <1>6 DEF Choose, TooEarly, Unavailable, Available
<1>7. CASE InitInputThreads
  <2>1. CASE StartThread(cur) /\ IsLast(cur) /\ main' = "choose" /\ UNCHANGED <<cur, ending>>
    BY <1>7, <2>1 DEF InitInputThreads, GoFreeAll, StartThread, Alloc, IsLast
  <2>2. CASE StartThread(cur) /\ cur' = cur + 1 /\ UNCHANGED <<main, ending>>
    <3>1. /\ main' = main /\ main = "init" /\ ending' = ending /\ cur' = cur + 1
          /\ hasQueue' = [hasQueue EXCEPT ![cur] = 1]
          /\ UNCHANGED <<pos, taken>>
      BY <1>7, <2>2 DEF InitInputThreads, StartThread, IsLast
    <3>2. ASSUME NEW f \in Files, f >= cur + 1
          PROVE  hasQueue'[f] = 0 /\ pos'[f] = 0 /\ taken'[f] = 0
      <4>1. cur \in Nat /\ f \in Nat
        BY Constants
      <4>2. f >= cur /\ f # cur
        BY <3>2, <4>1
      <4> QED BY <3>1, <4>2
    <3> QED BY <3>1, <3>2
  <2>3. CASE GoFreeAll /\ UNCHANGED <<queueVars, demuxVars, hasQueue>>
    BY <1>7, <2>3 DEF InitInputThreads, GoFreeAll, StartThread, Alloc, IsLast
  <2> QED BY <1>7, <2>1, <2>2, <2>3 DEF InitInputThreads
<1>8. CASE ResetEagain
  BY <1>8 DEF ResetEagain
<1>9. CASE Stop
  BY <1>9 DEF Stop, GoFreeAll
<1>11. CASE Receive
  <2>1. CASE RecvOk(cur)
    BY <1>11, <2>1, Wakes DEF Receive, RecvOk, RecvAgain, RecvWait, RecvError, Unavailable,
       DecodeOne, GoOnAtEnd
  <2>2. CASE RecvAgain(cur)
    BY <1>11, <2>2 DEF Receive, RecvOk, RecvAgain, RecvWait, RecvError, Unavailable, DecodeOne,
       GoOnAtEnd
  <2>3. CASE RecvWait(cur, Main)
    BY <1>11, <2>3 DEF Receive, RecvOk, RecvAgain, RecvWait, RecvError, Unavailable, DecodeOne,
       GoOnAtEnd
  <2>4. CASE RecvError(cur)
    <3>1. fifo[cur] = <<>> /\ Len(fifo[cur]) = 0 /\ thread[cur] = "done"
      BY <1>11, <2>4 DEF Receive, RecvError
    <3>2. errSend[cur] = 0 /\ hasQueue[cur] = 1 /\ ending = 0
      BY <1>11 DEF Receive
    <3>3. pos[cur] = taken[cur] + Len(fifo[cur]) + InHand(cur)
      BY <3>2, Types DEF IInv
    <3>4. pos[cur] = taken[cur]
      BY <3>1, <3>3
    <3> QED BY <1>11, <2>4, <3>1, <3>2, <3>4
        DEF Receive, RecvError, RecvOk, RecvWait, RecvAgain, Unavailable, GoOnAtEnd
  <2> QED BY <1>11, <2>1, <2>2, <2>3, <2>4 DEF Receive
<1>12. CASE ReceiveFromNothing
  BY <1>12 DEF ReceiveFromNothing
<1>13. CASE FlushDecoder
  BY <1>13 DEF FlushDecoder, DrainOne
<1>14. CASE SeekToStart
  BY <1>14 DEF SeekToStart
<1>15. CASE RestartThread
  <2>1. CASE StartThread(cur)
    BY <1>15, <2>1 DEF RestartThread, TooEarly, Unavailable, StartThread, Alloc, GoFreeAll
  <2>2. CASE ~StartThread(cur)
    BY <1>15, <2>2 DEF RestartThread, TooEarly, Unavailable, StartThread, Alloc, GoFreeAll
  <2> QED BY <1>15, <2>1, <2>2 DEF RestartThread, TooEarly, Unavailable
<1>16. CASE MarkEof
  BY <1>16 DEF MarkEof, DrainOne
<1>17. CASE CloseQueue
  <2>1. CASE hasQueue[cur] = 1
    BY <1>17, <2>1 DEF CloseQueue, SetErrSend, Freed, IsLast
  <2>2. CASE hasQueue[cur] = 0
    BY <1>17, <2>2 DEF CloseQueue, SetErrSend, Freed, IsLast
  <2> QED BY <1>17, <2>1, <2>2 DEF CloseQueue
<1>18. CASE EmptyQueue
  <2>1. CASE RecvOk(cur)
    BY <1>18, <2>1, Wakes DEF EmptyQueue, RecvOk, RecvError, RecvWait
  <2>2. CASE RecvError(cur)
    BY <1>18, <2>2 DEF EmptyQueue, RecvOk, RecvError, RecvWait
  <2>3. CASE RecvWait(cur, Main)
    BY <1>18, <2>3 DEF EmptyQueue, RecvOk, RecvError, RecvWait
  <2> QED BY <1>18, <2>1, <2>2, <2>3 DEF EmptyQueue
<1>19. CASE JoinThread
  <2>1. CASE ending = 0
    BY <1>19, <2>1 DEF JoinThread, Flush, Freed, IsLast
  <2>2. CASE ending # 0
    BY <1>19, <2>2 DEF JoinThread, Flush, Freed, IsLast
  <2> QED BY <1>19, <2>1, <2>2 DEF JoinThread
<1>20. CASE FlushDecoders
  BY <1>20 DEF FlushDecoders
<1>21. CASE UNCHANGED vars
  BY <1>21 DEF vars
<1> QED BY <1>1, <1>2, <1>3, <1>4, <1>5, <1>6, <1>7, <1>8, <1>9, <1>11,
          <1>12, <1>13, <1>14, <1>15, <1>16, <1>17, <1>18, <1>19, <1>20, <1>21 DEF Next,
                 MainStep, ThreadStep, Terminated


-----------------------------------------------------------------------------
(* A step that leaves a file alone leaves it in order.                     *)
LEMMA OrderedFrame ==
  ASSUME NEW f \in Files, Ordered(f),
         fifo'[f] = fifo[f], pos'[f] = pos[f], taken'[f] = taken[f], InHand(f)' = InHand(f)
  PROVE  Ordered(f)'
  BY DEF Ordered

(* So does sending the packet in hand,                                     *)
LEMMA OrderedSend ==
  ASSUME IInv, NEW f \in Files, Ordered(f), thread[f] = "send",
         thread'[f] = "read", fifo'[f] = Append(fifo[f], pos[f]),
         pos'[f] = pos[f], taken'[f] = taken[f]
  PROVE  Ordered(f)'
<1> DEFINE s == fifo[f]
<1>1. /\ s \in Seq(Packets) /\ pos[f] \in Nat /\ taken[f] \in Nat
      /\ InHand(f) = 1 /\ InHand(f)' = 0
  BY Types DEF InHand
<1>2. pos[f] = taken[f] + Len(s) + 1 /\ \A i \in 1..Len(s) : s[i] = taken[f] + i
  BY <1>1 DEF Ordered
<1>3. Len(s) \in Nat /\ Len(Append(s, pos[f])) = Len(s) + 1
  BY <1>1
<1>4. ASSUME NEW i \in 1..Len(s) + 1 PROVE Append(s, pos[f])[i] = taken[f] + i
  <2>1. CASE i \in 1..Len(s)
    BY <1>1, <1>2, <2>1
  <2>2. CASE i = Len(s) + 1
    <3>1. Append(s, pos[f])[i] = pos[f]
      BY <1>1, <2>2
    <3> QED BY <1>1, <1>2, <1>3, <2>2, <3>1
  <2> QED BY <1>3, <2>1, <2>2
<1>5. pos'[f] = taken'[f] + Len(fifo'[f]) + InHand(f)'
  BY <1>1, <1>2, <1>3
<1> QED BY <1>3, <1>4, <1>5 DEF Ordered

(* taking the queue's first packet,                                        *)
LEMMA OrderedTake ==
  ASSUME IInv, NEW f \in Files, Ordered(f), fifo[f] # <<>>,
         fifo'[f] = Tail(fifo[f]), taken'[f] = Head(fifo[f]),
         pos'[f] = pos[f], InHand(f)' = InHand(f)
  PROVE  Ordered(f)'
<1> DEFINE s == fifo[f]
<1>1. /\ s \in Seq(Packets) /\ s # <<>> /\ taken[f] \in Nat
      /\ InHand(f) \in {0, 1}
  BY Types DEF InHand
<1>2. /\ pos[f] = taken[f] + Len(s) + InHand(f)
      /\ \A i \in 1..Len(s) : s[i] = taken[f] + i
  BY DEF Ordered
<1>3. Len(s) \in Nat /\ Len(s) >= 1 /\ Head(s) = s[1] /\ Len(Tail(s)) = Len(s) - 1
  BY <1>1
<1>4. Head(s) = taken[f] + 1
  BY <1>2, <1>3
<1>5. ASSUME NEW i \in 1..Len(s) - 1 PROVE Tail(s)[i] = Head(s) + i
  <2>1. Tail(s)[i] = s[i + 1] /\ i + 1 \in 1..Len(s) /\ i \in Nat
    BY <1>1, <1>3
  <2>2. s[i + 1] = taken[f] + (i + 1)
    BY <1>2, <2>1
  <2>3. \A t, j \in Nat : t + (j + 1) = (t + 1) + j
    OBVIOUS
  <2> QED BY <1>1, <1>4, <2>1, <2>2, <2>3
<1>6. pos'[f] = taken'[f] + Len(fifo'[f]) + InHand(f)'
  <2>1. \A t, l, h \in Nat : t + l + h = (t + 1) + (l - 1) + h
    OBVIOUS
  <2>2. InHand(f) \in Nat
    BY <1>1
  <2>3. pos[f] = (taken[f] + 1) + (Len(s) - 1) + InHand(f)
    BY <1>1, <1>2, <1>3, <2>1, <2>2
  <2>4. Len(fifo'[f]) = Len(s) - 1 /\ taken'[f] = taken[f] + 1
    BY <1>3, <1>4
  <2> QED BY <2>3, <2>4
<1> QED BY <1>3, <1>5, <1>6 DEF Ordered

(* and starting a thread from where the last one was left.                 *)
LEMMA OrderedStart ==
  ASSUME IInv, NEW f \in Files, pos[f] = taken[f], thread'[f] = "read",
         fifo'[f] = <<>>, pos'[f] = pos[f], taken'[f] = taken[f]
  PROVE  Ordered(f)'
<1>1. Len(fifo'[f]) = 0 /\ InHand(f)' = 0 /\ taken[f] \in Nat
  BY Types DEF InHand
<1> QED BY <1>1 DEF Ordered

(* Every step keeps PacketsInOrder.                                        *)
LEMMA OrderStep == IInv /\ [Next]_vars => PacketsInOrder'
<1> SUFFICES ASSUME IInv, [Next]_vars PROVE PacketsInOrder'
  OBVIOUS
<1> USE Types DEF IInv, UseInv, Uses, AtInv, queueVars, demuxVars, streamVars, mainVars,
        Ending, PlayingAgain
<1>1. ASSUME NEW f \in Files, ReadPacket(f) PROVE PacketsInOrder'
  <2> SUFFICES ASSUME NEW g \in Files, errSend'[g] = 0, hasQueue'[g] = 1
               PROVE  Ordered(g)'
    BY DEF PacketsInOrder
  <2>1. /\ UNCHANGED <<fifo, errSend, hasQueue, taken>>
        /\ \A h \in Files \ {f} : thread'[h] = thread[h] /\ pos'[h] = pos[h]
    BY <1>1 DEF ReadPacket
  <2>2. Ordered(g)
    BY <2>1 DEF PacketsInOrder
  <2>3. CASE g # f
    BY <2>1, <2>2, <2>3, OrderedFrame DEF InHand
  <2>4. CASE g = f
    <3>1. /\ thread[f] = "read" /\ thread'[f] = "send" /\ pos'[f] = pos[f] + 1
          /\ pos[f] \in Nat /\ taken[f] \in Nat /\ Len(fifo[f]) \in Nat
      BY <1>1 DEF ReadPacket
    <3>2. InHand(f) = 0 /\ InHand(f)' = 1
      BY <3>1 DEF InHand
    <3> QED BY <2>1, <2>2, <2>4, <3>1, <3>2 DEF Ordered
  <2> QED BY <2>3, <2>4
<1>2. ASSUME NEW f \in Files, ReadEnd(f) PROVE PacketsInOrder'
  <2> SUFFICES ASSUME NEW g \in Files, errSend'[g] = 0, hasQueue'[g] = 1
               PROVE  Ordered(g)'
    BY DEF PacketsInOrder
  <2>1. /\ fifo'[g] = fifo[g] /\ pos'[g] = pos[g] /\ taken'[g] = taken[g]
        /\ errSend[g] = 0 /\ hasQueue[g] = 1 /\ InHand(g)' = InHand(g)
    BY <1>2 DEF ReadEnd, SetErrRecv, InHand
  <2> QED BY <2>1, OrderedFrame DEF PacketsInOrder
<1>3. ASSUME NEW f \in Files, SendPacket(f) PROVE PacketsInOrder'
  <2> SUFFICES ASSUME NEW g \in Files, errSend'[g] = 0, hasQueue'[g] = 1
               PROVE  Ordered(g)'
    BY DEF PacketsInOrder
  <2>1. Ordered(g) /\ UNCHANGED <<errSend, hasQueue, pos, taken>> /\ thread[f] = "send"
    BY <1>3, SendEffects DEF PacketsInOrder
  <2>2. CASE g = f /\ Sent(f)
    <3>1. thread'[f] = "read" /\ fifo'[f] = Append(fifo[f], pos[f])
      BY <2>2 DEF Sent
    <3> QED BY <2>1, <2>2, <3>1, OrderedSend
  <2>3. CASE g = f /\ Refused(f)
    BY <2>1, <2>3 DEF Refused
  <2>4. CASE Retries \/ FallsAsleep(f)
    <3>1. InHand(g)' = InHand(g) /\ fifo' = fifo
      BY <2>4 DEF Retries, FallsAsleep, InHand
    <3> QED BY <2>1, <3>1, OrderedFrame
  <2>5. CASE g # f /\ (Sent(f) \/ Refused(f))
    <3>1. InHand(g)' = InHand(g) /\ fifo'[g] = fifo[g]
      BY <2>5 DEF Sent, Refused, InHand
    <3> QED BY <2>1, <3>1, OrderedFrame
  <2> QED BY <1>3, <2>2, <2>3, <2>4, <2>5, SendEffects
<1>4. ASSUME NEW f \in Files, GiveUp(f) PROVE PacketsInOrder'
  <2> SUFFICES ASSUME NEW g \in Files, errSend'[g] = 0, hasQueue'[g] = 1
               PROVE  Ordered(g)'
    BY DEF PacketsInOrder
  <2>1. /\ fifo'[g] = fifo[g] /\ pos'[g] = pos[g] /\ taken'[g] = taken[g]
        /\ errSend[g] = 0 /\ hasQueue[g] = 1 /\ InHand(g)' = InHand(g)
    BY <1>4 DEF GiveUp, SetErrRecv, InHand
  <2> QED BY <2>1, OrderedFrame DEF PacketsInOrder
<1>5. ASSUME NEW f \in Files, Wakeup(f) PROVE PacketsInOrder'
  <2> SUFFICES ASSUME NEW g \in Files, errSend'[g] = 0, hasQueue'[g] = 1
               PROVE  Ordered(g)'
    BY DEF PacketsInOrder
  <2>1. UNCHANGED <<fifo, errSend, pos, taken, hasQueue, thread>>
    BY <1>5, WakeEffects
  <2> QED BY <2>1, OrderedFrame DEF PacketsInOrder, InHand
<1>6. ASSUME NEW f \in Files, Choose(f) PROVE PacketsInOrder'
  <2> SUFFICES ASSUME NEW g \in Files, errSend'[g] = 0, hasQueue'[g] = 1
               PROVE  Ordered(g)'
    BY DEF PacketsInOrder
  <2>1. /\ fifo'[g] = fifo[g] /\ pos'[g] = pos[g] /\ taken'[g] = taken[g]
        /\ errSend[g] = 0 /\ hasQueue[g] = 1 /\ InHand(g)' = InHand(g)
    BY <1>6 DEF Choose, TooEarly, Unavailable, Available, InHand
  <2> QED BY <2>1, OrderedFrame DEF PacketsInOrder
<1>7. CASE InitInputThreads
  <2> SUFFICES ASSUME NEW g \in Files, errSend'[g] = 0, hasQueue'[g] = 1
               PROVE  Ordered(g)'
    BY DEF PacketsInOrder
  <2>1. CASE StartThread(cur)
    <3>0. pos[cur] = taken[cur]
      <4>1. cur \in Files /\ cur >= cur /\ main = "init"
        BY <1>7, Constants DEF InitInputThreads
      <4> QED BY <4>1
    <3>1. /\ UNCHANGED <<pos, taken>>
          /\ fifo' = [fifo EXCEPT ![cur] = <<>>]
          /\ errSend' = [errSend EXCEPT ![cur] = 0]
          /\ hasQueue' = [hasQueue EXCEPT ![cur] = 1]
          /\ thread' = [thread EXCEPT ![cur] = "read"]
      BY <1>7, <2>1 DEF InitInputThreads, StartThread, Alloc
    <3>2. CASE g = cur
      BY <3>0, <3>1, <3>2, OrderedStart
    <3>3. CASE g # cur
      <4>1. /\ fifo'[g] = fifo[g] /\ pos'[g] = pos[g] /\ taken'[g] = taken[g]
            /\ thread'[g] = thread[g] /\ errSend[g] = 0 /\ hasQueue[g] = 1
        BY <3>1, <3>3
      <4> QED BY <4>1, OrderedFrame DEF InHand, PacketsInOrder
    <3> QED BY <3>2, <3>3
  <2>2. CASE GoFreeAll /\ UNCHANGED <<queueVars, demuxVars, hasQueue>>
    BY <1>7, <2>2, OrderedFrame DEF InitInputThreads, InHand, PacketsInOrder
  <2> QED BY <1>7, <2>1, <2>2 DEF InitInputThreads
<1>8. CASE ResetEagain
  <2> SUFFICES ASSUME NEW g \in Files, errSend'[g] = 0, hasQueue'[g] = 1
               PROVE  Ordered(g)'
    BY DEF PacketsInOrder
  <2>1. /\ fifo'[g] = fifo[g] /\ pos'[g] = pos[g] /\ taken'[g] = taken[g]
        /\ errSend[g] = 0 /\ hasQueue[g] = 1 /\ InHand(g)' = InHand(g)
    BY <1>8 DEF ResetEagain, InHand
  <2> QED BY <2>1, OrderedFrame DEF PacketsInOrder
<1>9. CASE Stop
  <2> SUFFICES ASSUME NEW g \in Files, errSend'[g] = 0, hasQueue'[g] = 1
               PROVE  Ordered(g)'
    BY DEF PacketsInOrder
  <2>1. /\ fifo'[g] = fifo[g] /\ pos'[g] = pos[g] /\ taken'[g] = taken[g]
        /\ errSend[g] = 0 /\ hasQueue[g] = 1 /\ InHand(g)' = InHand(g)
    BY <1>9 DEF Stop, GoFreeAll, InHand
  <2> QED BY <2>1, OrderedFrame DEF PacketsInOrder
<1>11. CASE Receive
  <2> SUFFICES ASSUME NEW g \in Files, errSend'[g] = 0, hasQueue'[g] = 1
               PROVE  Ordered(g)'
    BY DEF PacketsInOrder
  <2>1. /\ UNCHANGED <<errSend, hasQueue, thread, pos>>
        /\ \A h \in Files \ {cur} : taken'[h] = taken[h] /\ fifo'[h] = fifo[h]
    BY <1>11 DEF Receive, RecvOk, RecvAgain, RecvWait, RecvError, Unavailable
  <2>2. Ordered(g) /\ InHand(g)' = InHand(g)
    BY <2>1 DEF PacketsInOrder, InHand
  <2>3. CASE g # cur
    BY <2>1, <2>2, <2>3, OrderedFrame
  <2>4. CASE g = cur /\ RecvOk(cur)
    <3>1. /\ fifo[cur] # <<>> /\ fifo'[cur] = Tail(fifo[cur])
          /\ taken'[cur] = Head(fifo[cur])
      BY <1>11, <2>4 DEF Receive, RecvOk, RecvError, RecvAgain, RecvWait, Empty
    <3> QED BY <2>1, <2>2, <2>4, <3>1, OrderedTake
  <2>5. CASE g = cur /\ ~RecvOk(cur)
    <3>1. fifo' = fifo /\ taken' = taken
      BY <1>11, <2>5 DEF Receive, RecvAgain, RecvWait, RecvError, Unavailable
    <3> QED BY <2>1, <2>2, <3>1, OrderedFrame
  <2> QED BY <2>3, <2>4, <2>5
<1>12. CASE ReceiveFromNothing
  <2> SUFFICES ASSUME NEW g \in Files, errSend'[g] = 0, hasQueue'[g] = 1
               PROVE  Ordered(g)'
    BY DEF PacketsInOrder
  <2>1. /\ fifo'[g] = fifo[g] /\ pos'[g] = pos[g] /\ taken'[g] = taken[g]
        /\ errSend[g] = 0 /\ hasQueue[g] = 1 /\ InHand(g)' = InHand(g)
    BY <1>12 DEF ReceiveFromNothing, InHand
  <2> QED BY <2>1, OrderedFrame DEF PacketsInOrder
<1>13. CASE FlushDecoder
  <2> SUFFICES ASSUME NEW g \in Files, errSend'[g] = 0, hasQueue'[g] = 1
               PROVE  Ordered(g)'
    BY DEF PacketsInOrder
  <2>1. /\ fifo'[g] = fifo[g] /\ pos'[g] = pos[g] /\ taken'[g] = taken[g]
        /\ errSend[g] = 0 /\ hasQueue[g] = 1 /\ InHand(g)' = InHand(g)
    BY <1>13 DEF FlushDecoder, DrainOne, InHand
  <2> QED BY <2>1, OrderedFrame DEF PacketsInOrder
<1>14. CASE SeekToStart
  <2> SUFFICES ASSUME NEW g \in Files, errSend'[g] = 0, hasQueue'[g] = 1
               PROVE  Ordered(g)'
    BY DEF PacketsInOrder
  <2>1. hasQueue[cur] = 0 /\ UNCHANGED <<fifo, errSend, hasQueue, thread>>
    BY <1>14 DEF SeekToStart
  <2>2. g # cur /\ pos'[g] = pos[g] /\ taken'[g] = taken[g]
    BY <1>14, <2>1 DEF SeekToStart
  <2> QED BY <2>1, <2>2, OrderedFrame DEF PacketsInOrder, InHand
<1>15. CASE RestartThread
  <2> SUFFICES ASSUME NEW g \in Files, errSend'[g] = 0, hasQueue'[g] = 1
               PROVE  Ordered(g)'
    BY DEF PacketsInOrder
  <2>1. CASE StartThread(cur)
    <3>0. pos[cur] = taken[cur]
      BY <1>15 DEF RestartThread, TooEarly, Unavailable
    <3>1. /\ UNCHANGED <<pos, taken>>
          /\ fifo' = [fifo EXCEPT ![cur] = <<>>]
          /\ errSend' = [errSend EXCEPT ![cur] = 0]
          /\ hasQueue' = [hasQueue EXCEPT ![cur] = 1]
          /\ thread' = [thread EXCEPT ![cur] = "read"]
      BY <1>15, <2>1 DEF RestartThread, TooEarly, Unavailable, StartThread, Alloc
    <3>2. CASE g = cur
      BY <3>0, <3>1, <3>2, OrderedStart
    <3>3. CASE g # cur
      <4>1. /\ fifo'[g] = fifo[g] /\ pos'[g] = pos[g] /\ taken'[g] = taken[g]
            /\ thread'[g] = thread[g] /\ errSend[g] = 0 /\ hasQueue[g] = 1
        BY <3>1, <3>3
      <4> QED BY <4>1, OrderedFrame DEF InHand, PacketsInOrder
    <3> QED BY <3>2, <3>3
  <2>2. CASE UNCHANGED <<queueVars, demuxVars, hasQueue>>
    BY <1>15, <2>2, OrderedFrame DEF RestartThread, TooEarly, Unavailable, InHand, PacketsInOrder
  <2> QED BY <1>15, <2>1, <2>2 DEF RestartThread, TooEarly, Unavailable
<1>16. CASE MarkEof
  <2> SUFFICES ASSUME NEW g \in Files, errSend'[g] = 0, hasQueue'[g] = 1
               PROVE  Ordered(g)'
    BY DEF PacketsInOrder
  <2>1. /\ fifo'[g] = fifo[g] /\ pos'[g] = pos[g] /\ taken'[g] = taken[g]
        /\ errSend[g] = 0 /\ hasQueue[g] = 1 /\ InHand(g)' = InHand(g)
    BY <1>16 DEF MarkEof, DrainOne, InHand
  <2> QED BY <2>1, OrderedFrame DEF PacketsInOrder
<1>17. CASE CloseQueue
  <2> SUFFICES ASSUME NEW g \in Files, errSend'[g] = 0, hasQueue'[g] = 1
               PROVE  Ordered(g)'
    BY DEF PacketsInOrder
  <2>1. /\ fifo'[g] = fifo[g] /\ pos'[g] = pos[g] /\ taken'[g] = taken[g]
        /\ errSend[g] = 0 /\ hasQueue[g] = 1 /\ InHand(g)' = InHand(g)
    BY <1>17 DEF CloseQueue, SetErrSend, Freed, InHand
  <2> QED BY <2>1, OrderedFrame DEF PacketsInOrder
<1>18. CASE EmptyQueue
  <2> SUFFICES ASSUME NEW g \in Files, errSend'[g] = 0, hasQueue'[g] = 1
               PROVE  Ordered(g)'
    BY DEF PacketsInOrder
  <2>1. /\ UNCHANGED <<errSend, hasQueue, thread, pos, taken>> /\ errSend[cur] = 1
        /\ \A h \in Files \ {cur} : fifo'[h] = fifo[h]
    BY <1>18 DEF EmptyQueue, RecvOk, RecvError, RecvWait
  <2>2. g # cur /\ Ordered(g) /\ InHand(g)' = InHand(g)
    BY <2>1 DEF PacketsInOrder, InHand
  <2> QED BY <2>1, <2>2, OrderedFrame
<1>19. CASE JoinThread
  <2> SUFFICES ASSUME NEW g \in Files, errSend'[g] = 0, hasQueue'[g] = 1
               PROVE  Ordered(g)'
    BY DEF PacketsInOrder
  <2>1. /\ fifo'[g] = fifo[g] /\ pos'[g] = pos[g] /\ taken'[g] = taken[g]
        /\ errSend[g] = 0 /\ hasQueue[g] = 1 /\ InHand(g)' = InHand(g)
    BY <1>19 DEF JoinThread, Flush, Freed, InHand
  <2> QED BY <2>1, OrderedFrame DEF PacketsInOrder
<1>20. CASE FlushDecoders
  <2> SUFFICES ASSUME NEW g \in Files, errSend'[g] = 0, hasQueue'[g] = 1
               PROVE  Ordered(g)'
    BY DEF PacketsInOrder
  <2>1. /\ fifo'[g] = fifo[g] /\ pos'[g] = pos[g] /\ taken'[g] = taken[g]
        /\ errSend[g] = 0 /\ hasQueue[g] = 1 /\ InHand(g)' = InHand(g)
    BY <1>20 DEF FlushDecoders, InHand
  <2> QED BY <2>1, OrderedFrame DEF PacketsInOrder
<1>21. CASE UNCHANGED vars
  <2> SUFFICES ASSUME NEW g \in Files, errSend'[g] = 0, hasQueue'[g] = 1
               PROVE  Ordered(g)'
    BY DEF PacketsInOrder
  <2>1. Ordered(g)
    BY <1>21 DEF vars, PacketsInOrder
  <2> QED BY <1>21, <2>1, OrderedFrame DEF vars, InHand
<1> QED BY <1>1, <1>2, <1>3, <1>4, <1>5, <1>6, <1>7, <1>8, <1>9, <1>11,
          <1>12, <1>13, <1>14, <1>15, <1>16, <1>17, <1>18, <1>19, <1>20, <1>21 DEF Next,
                 MainStep, ThreadStep, Terminated

-----------------------------------------------------------------------------
(* The program starts with no thread and no queue.                         *)
LEMMA InitInv == Init => IInv
<1> SUFFICES ASSUME Init PROVE IInv
  OBVIOUS
<1> USE Constants DEF Init, QueueInit
<1>1. QueueType(Packets, Files \cup {Main})
  <2>1. <<>> \in Seq(Packets) /\ Len(<<>>) <= Capacity
    OBVIOUS
  <2> QED BY <2>1 DEF QueueType, Files
<1>2. InputType
  BY DEF InputType, Flag
<1>3. UseInv /\ SleepInv /\ AtInv
  BY DEF UseInv, Uses, SleepInv, Sleeps, AtInv, Ending, PlayingAgain, Files
<1>4. PacketsInOrder
  BY DEF PacketsInOrder
<1> QED BY <1>1, <1>2, <1>3, <1>4 DEF IInv, TypeOK

(* The inductive invariant.                                                *)
THEOREM Invariance == Spec => []IInv
<1>1. IInv /\ [Next]_vars => IInv'
  BY QueueTypeStep, InputTypeStep, UseStep, SleepStep, AtStep, OrderStep DEF IInv, TypeOK
<1> QED BY InitInv, <1>1, PTL DEF Spec

(* The types are kept; in particular a queue holds no more than Capacity.  *)
THEOREM TypeCorrect == Spec => []TypeOK
<1>1. IInv => TypeOK
  BY DEF IInv
<1> QED BY Invariance, <1>1, PTL

(* Packets are neither lost nor doubled nor overtaken in a queue.          *)
THEOREM InOrder == Spec => []PacketsInOrder
<1>1. IInv => PacketsInOrder
  BY DEF IInv
<1> QED BY Invariance, <1>1, PTL

(* process_input acts on an end of file when all packets are taken.        *)
THEOREM ActsOnTrueEnd == Spec => []EndAfterLastPacket
<1>1. IInv => EndAfterLastPacket
  <2> SUFFICES ASSUME IInv, main = "flush" PROVE EndAfterLastPacket
    BY DEF EndAfterLastPacket
  <2>1. ending = 0
    BY Types DEF IInv, AtInv, Ending
  <2> QED BY <2>1 DEF EndAfterLastPacket, IInv, AtInv, PlayingAgain, Empty
<1> QED BY Invariance, <1>1, PTL

(* The main thread seeks a demuxer only when no thread reads from it.      *)
THEOREM SeeksAlone == Spec => []SeekAlone
<1>1. IInv => SeekAlone
  BY DEF IInv, AtInv, SeekAlone
<1> QED BY Invariance, <1>1, PTL

(* The join finds an ended thread and an empty queue.                      *)
THEOREM JoinsEndedThread == Spec => []JoinAfterThread
<1>1. IInv => JoinAfterThread
  BY DEF IInv, AtInv, JoinAfterThread, Empty
<1> QED BY Invariance, <1>1, PTL

(* A queue is freed when nobody uses it any more.                          *)
FreedQueueUnused ==
  \A f \in Files :
    hasQueue[f] = 0 =>
      thread[f] = "none" /\ sendWait[f] = {} /\ recvWait[f] = {} /\ Empty(f)

(* A freed queue has no thread, no sleeper and no packet.                  *)
THEOREM FreesUnusedQueue == Spec => []FreedQueueUnused
<1>1. IInv => FreedQueueUnused
  <2> SUFFICES ASSUME IInv, NEW f \in Files, hasQueue[f] = 0
               PROVE  thread[f] = "none" /\ sendWait[f] = {} /\ recvWait[f] = {} /\ Empty(f)
    BY DEF FreedQueueUnused
  <2> QED BY DEF IInv, UseInv, Uses, SleepInv, Sleeps, Empty
<1> QED BY Invariance, <1>1, PTL

(* A thread sleeps only on a full queue nobody has closed, the main thread *)
(* only on an empty queue whose thread is still to tell it something.      *)
NoLostWakeup ==
  \A f \in Files :
    /\ sendWait[f] # {} => Full(f) /\ errSend[f] = 0
    /\ recvWait[f] # {} => Empty(f) /\ errRecv[f] = 0 /\ thread[f] # "done"

(* Nobody sleeps through a wakeup.                                         *)
THEOREM WakeupsSuffice == Spec => []NoLostWakeup
<1>1. IInv => NoLostWakeup
  BY DEF IInv, UseInv, Uses, SleepInv, Sleeps, NoLostWakeup, Empty
<1> QED BY Invariance, <1>1, PTL

-----------------------------------------------------------------------------
(* What EndsDrained rests on: a file that has ended is left alone, and a   *)
(* decoder that was drained stays so until the file is played again.       *)
Drained(f) ==
  eof[f] = 1 =>
    /\ held[f] = 0
    /\ loop[f] > 0 \/ (taken[f] = pos[f] /\ thread[f] \in {"done", "none"})

DrainInv ==
  /\ \A f \in Files : Drained(f) /\ (main = "init" => eof[f] = 0)
  /\ ending = 0 /\ main \notin {"choose", "crashed"} => eof[cur] = 0
  /\ ending = 0 /\ main \in {"close", "empty", "join", "seek", "start", "startAtEnd"} =>
       held[cur] = 0
  /\ main = "startAtEnd" => loop[cur] > 0
  /\ main = "eof" => loop[cur] > 0 \/ (taken[cur] = pos[cur] /\ thread[cur] = "done")

(* A step that touches no file but the one the main thread is at.          *)
LEMMA DrainFrame ==
  ASSUME \A f \in Files : Drained(f), cur \in Files,
         (eof'[cur] = 1 =>
           held'[cur] = 0 /\ (loop'[cur] > 0 \/ (taken'[cur] = pos'[cur] /\ thread'[cur] = "done"))),
         \A f \in Files \ {cur} :
           /\ pos'[f] = pos[f] /\ taken'[f] = taken[f] /\ loop'[f] = loop[f]
           /\ held'[f] = held[f] /\ eof'[f] = eof[f] /\ thread'[f] = thread[f]
  PROVE  \A f \in Files : Drained(f)'
<1> SUFFICES ASSUME NEW f \in Files PROVE Drained(f)'
  OBVIOUS
<1>1. CASE f = cur
  BY <1>1 DEF Drained
<1>2. CASE f # cur
  BY <1>2 DEF Drained
<1> QED BY <1>1, <1>2

(* Every step keeps DrainInv.                                              *)
LEMMA DrainStep == IInv /\ DrainInv /\ [Next]_vars => DrainInv'
<1> SUFFICES ASSUME IInv, DrainInv, [Next]_vars PROVE DrainInv'
  OBVIOUS
<1>0. eof \in [Files -> {0, 1}] /\ held \in [Files -> Nat]
  BY Constants DEF IInv, TypeOK, InputType, Flag
<1> USE Types, <1>0 DEF IInv, UseInv, Uses, AtInv, DrainInv, Drained, queueVars,
        demuxVars, streamVars, mainVars, Ending, PlayingAgain
<1>1. ASSUME NEW f \in Files, ReadPacket(f) PROVE DrainInv'
  BY <1>1 DEF ReadPacket
<1>2. ASSUME NEW f \in Files, ReadEnd(f) PROVE DrainInv'
  BY <1>2 DEF ReadEnd, SetErrRecv
<1>3. ASSUME NEW f \in Files, SendPacket(f) PROVE DrainInv'
  <2>1. /\ UNCHANGED <<errSend, errRecv, pos, taken, loop, hasQueue, main, cur, ending>>
        /\ thread[f] = "send" /\ UNCHANGED <<held, eof>>
    BY <1>3, SendEffects DEF SendPacket
  <2>2. \A g \in Files \ {f} :
          /\ fifo'[g] = fifo[g] /\ thread'[g] = thread[g]
          /\ sendWait'[g] = sendWait[g] /\ recvWait'[g] = recvWait[g]
    BY <1>3, SendFrame
  <2>3. thread[cur] \in {"done", "none"} => cur # f
    BY <2>1
  <2> QED BY <2>1, <2>2, <2>3
<1>4. ASSUME NEW f \in Files, GiveUp(f) PROVE DrainInv'
  BY <1>4 DEF GiveUp, SetErrRecv
<1>5. ASSUME NEW f \in Files, Wakeup(f) PROVE DrainInv'
  BY <1>5, WakeEffects
<1>6. ASSUME NEW f \in Files, Choose(f) PROVE DrainInv'
  BY <1>6 DEF Choose, TooEarly, Unavailable, Available
<1>7. CASE InitInputThreads
  <2>1. CASE StartThread(cur) /\ IsLast(cur) /\ main' = "choose" /\ UNCHANGED <<cur, ending>>
    BY <1>7, <2>1 DEF InitInputThreads, GoFreeAll, StartThread, Alloc, IsLast
  <2>2. CASE StartThread(cur) /\ cur' = cur + 1 /\ UNCHANGED <<main, ending>>
    <3>1. /\ main' = main /\ main = "init" /\ ending' = ending /\ cur' = cur + 1
      BY <1>7, <2>2 DEF InitInputThreads
    <3>2. cur' \in Files /\ UNCHANGED streamVars
      BY <1>7, <2>2, Steps DEF InitInputThreads, IsLast, GoFreeAll
    <3>3. \A f \in Files : eof'[f] = 0
      BY <3>1, <3>2
    <3>4. \A f \in Files : Drained(f)' /\ (main' = "init" => eof'[f] = 0)
      BY <3>3
    <3> HIDE DEF IInv, Drained
    <3> QED BY <3>1, <3>2, <3>3, <3>4
  <2>3. CASE GoFreeAll /\ UNCHANGED <<queueVars, demuxVars, hasQueue>>
    BY <1>7, <2>3 DEF InitInputThreads, GoFreeAll, StartThread, Alloc, IsLast
  <2> QED BY <1>7, <2>1, <2>2, <2>3 DEF InitInputThreads
<1>8. CASE ResetEagain
  BY <1>8 DEF ResetEagain
<1>9. CASE Stop
  BY <1>9 DEF Stop, GoFreeAll
<1>11. CASE Receive
  <2>0. eof[cur] = 0 /\ ending = 0
    BY <1>11 DEF Receive
  <2>1. CASE RecvOk(cur)
    <3>1. /\ \A f \in Files \ {cur} : taken'[f] = taken[f] /\ held'[f] = held[f]
          /\ main' = "choose" /\ UNCHANGED <<pos, thread, loop, eof, cur, ending>>
      BY <1>11, <2>1 DEF Receive, RecvOk, RecvAgain, RecvWait, RecvError, Unavailable, DecodeOne
    <3> QED BY <2>0, <3>1
  <2>2. CASE RecvAgain(cur)
    BY <1>11, <2>2 DEF Receive, RecvOk, RecvAgain, RecvWait, RecvError, Unavailable, DecodeOne,
       GoOnAtEnd
  <2>3. CASE RecvWait(cur, Main)
    BY <1>11, <2>3 DEF Receive, RecvOk, RecvAgain, RecvWait, RecvError, Unavailable, DecodeOne,
       GoOnAtEnd
  <2>4. CASE RecvError(cur)
    <3>1. fifo[cur] = <<>> /\ Len(fifo[cur]) = 0 /\ thread[cur] = "done"
      BY <1>11, <2>4 DEF Receive, RecvError, Empty
    <3>2. errSend[cur] = 0 /\ hasQueue[cur] = 1 /\ ending = 0
      BY <1>11 DEF Receive
    <3>3. pos[cur] = taken[cur] + Len(fifo[cur]) + InHand(cur)
      BY <3>2, Types DEF IInv, PacketsInOrder, Ordered
    <3>4. pos[cur] = taken[cur]
      BY <3>1, <3>3 DEF InHand
    <3> QED BY <1>11, <2>4, <3>1, <3>2, <3>4
        DEF Receive, RecvError, RecvOk, RecvWait, RecvAgain, Unavailable, GoOnAtEnd
  <2> QED BY <1>11, <2>1, <2>2, <2>3, <2>4 DEF Receive
<1>12. CASE ReceiveFromNothing
  BY <1>12 DEF ReceiveFromNothing
<1>13. CASE FlushDecoder
  <2>1. eof[cur] = 0 /\ ending = 0
    BY <1>13 DEF FlushDecoder
  <2>2. CASE main' = "choose"
    BY <1>13, <2>1, <2>2 DEF FlushDecoder, DrainOne
  <2>3. CASE held[cur] = 0 /\ main' = "close" /\ UNCHANGED held
    BY <1>13, <2>1, <2>3 DEF FlushDecoder
  <2> QED BY <1>13, <2>2, <2>3 DEF FlushDecoder
<1>14. CASE SeekToStart
  <2>1. eof[cur] = 0 /\ ending = 0 /\ loop[cur] > 0 /\ held[cur] = 0
    BY <1>14 DEF SeekToStart
  <2>2. CASE main' = "start"
    <3>1. /\ \A f \in Files \ {cur} : pos'[f] = pos[f] /\ taken'[f] = taken[f] /\ loop'[f] = loop[f]
          /\ UNCHANGED <<thread, held, eof, cur, ending>>
      BY <1>14, <2>2 DEF SeekToStart
    <3>2. \A f \in Files : Drained(f)'
      <4>1. eof'[cur] = 1 =>
               held'[cur] = 0 /\ (loop'[cur] > 0 \/ (taken'[cur] = pos'[cur] /\ thread'[cur] = "done"))
        BY <2>1, <3>1
      <4> HIDE DEF IInv, Drained
      <4> QED BY <3>1, <4>1, DrainFrame
    <3> HIDE DEF IInv, Drained
    <3> QED BY <2>1, <2>2, <3>1, <3>2
  <2>3. CASE main' = "startAtEnd" /\ UNCHANGED <<pos, taken, loop>>
    BY <1>14, <2>1, <2>3 DEF SeekToStart
  <2> QED BY <1>14, <2>2, <2>3 DEF SeekToStart
<1>15. CASE RestartThread
  <2>0. eof[cur] = 0 /\ ending = 0
    BY <1>15 DEF RestartThread
  <2>1. CASE StartThread(cur)
    <3>1. /\ \A f \in Files \ {cur} : thread'[f] = thread[f]
          /\ UNCHANGED <<pos, taken, loop, held, eof>>
      BY <1>15, <2>1 DEF RestartThread, TooEarly, Unavailable, StartThread
    <3>0. \A f \in Files : Drained(f)'
      <4>1. eof'[cur] = 1 =>
               held'[cur] = 0 /\ (loop'[cur] > 0 \/ (taken'[cur] = pos'[cur] /\ thread'[cur] = "done"))
        BY <2>0, <3>1
      <4> HIDE DEF IInv, Drained
      <4> QED BY <3>1, <4>1, DrainFrame
    <3>2. CASE UNCHANGED <<cur, ending>>
      <4>1. main' \in {"again", "choose"} \/ (main' = "eof" /\ main = "startAtEnd")
        <5>1. CASE main' = "choose"
          BY <5>1
        <5>2. CASE main' # "choose"
          BY <1>15, <3>2, <5>2 DEF RestartThread, TooEarly, Unavailable, GoFreeAll, StartThread
        <5> QED BY <5>1, <5>2
      <4> HIDE DEF IInv, Drained
      <4> QED BY <2>0, <3>0, <3>1, <3>2, <4>1
    <3>3. CASE GoFreeAll
      <4> HIDE DEF IInv, Drained
      <4> QED BY <2>0, <3>0, <3>1, <3>3 DEF GoFreeAll
    <3> QED BY <1>15, <3>2, <3>3 DEF RestartThread
  <2>2. CASE ~StartThread(cur)
    BY <1>15, <2>2 DEF RestartThread, TooEarly, Unavailable, StartThread, Alloc, GoFreeAll
  <2> QED BY <1>15, <2>1, <2>2 DEF RestartThread, TooEarly, Unavailable
<1>16. CASE MarkEof
  <2>1. eof[cur] = 0 /\ ending = 0
    BY <1>16 DEF MarkEof
  <2>2. /\ main' = "choose" /\ UNCHANGED <<pos, thread, taken, loop, cur, ending>>
        /\ \A f \in Files \ {cur} : held'[f] = held[f] /\ eof'[f] = eof[f]
        /\ eof'[cur] = 0 \/ held'[cur] = 0
    BY <1>16, <2>1 DEF MarkEof, DrainOne
  <2>3. loop[cur] > 0 \/ (taken[cur] = pos[cur] /\ thread[cur] = "done")
    BY <1>16 DEF MarkEof
  <2>4. \A f \in Files : Drained(f)'
    <3>1. eof'[cur] = 1 =>
               held'[cur] = 0 /\ (loop'[cur] > 0 \/ (taken'[cur] = pos'[cur] /\ thread'[cur] = "done"))
      BY <2>2, <2>3
    <3> HIDE DEF IInv, Drained
    <3> QED BY <2>2, <3>1, DrainFrame
  <2> HIDE DEF IInv, Drained
  <2> QED BY <2>1, <2>2, <2>4
<1>17. CASE CloseQueue
  <2>1. CASE hasQueue[cur] = 1
    BY <1>17, <2>1 DEF CloseQueue, SetErrSend, Freed, IsLast
  <2>2. CASE hasQueue[cur] = 0
    BY <1>17, <2>2 DEF CloseQueue, SetErrSend, Freed, IsLast
  <2> QED BY <1>17, <2>1, <2>2 DEF CloseQueue
<1>18. CASE EmptyQueue
  <2>1. CASE RecvOk(cur)
    BY <1>18, <2>1, Wakes DEF EmptyQueue, RecvOk, RecvError, RecvWait
  <2>2. CASE RecvError(cur)
    BY <1>18, <2>2 DEF EmptyQueue, RecvOk, RecvError, RecvWait
  <2>3. CASE RecvWait(cur, Main)
    BY <1>18, <2>3 DEF EmptyQueue, RecvOk, RecvError, RecvWait
  <2> QED BY <1>18, <2>1, <2>2, <2>3 DEF EmptyQueue
<1>19. CASE JoinThread
  <2>1. CASE ending = 0
    BY <1>19, <2>1 DEF JoinThread, Flush, Freed, IsLast
  <2>2. CASE ending # 0
    BY <1>19, <2>2 DEF JoinThread, Flush, Freed, IsLast
  <2> QED BY <1>19, <2>1, <2>2 DEF JoinThread
<1>20. CASE FlushDecoders
  BY <1>20 DEF FlushDecoders
<1>21. CASE UNCHANGED vars
  BY <1>21 DEF vars
<1> QED BY <1>1, <1>2, <1>3, <1>4, <1>5, <1>6, <1>7, <1>8, <1>9, <1>11,
          <1>12, <1>13, <1>14, <1>15, <1>16, <1>17, <1>18, <1>19, <1>20, <1>21 DEF Next,
                 MainStep, ThreadStep, Terminated

(* A file is rewound or marked as ended when nothing is left of it.        *)
THEOREM DrainsBeforeEnd == Spec => []EndsDrained
<1>1. Init => DrainInv
  BY Constants DEF Init, DrainInv, Drained
<1>2. DrainInv /\ IInv => EndsDrained
  <2> SUFFICES ASSUME DrainInv, IInv, NEW f \in Files, eof[f] = 1 \/ (main = "seek" /\ cur = f)
               PROVE  held[f] = 0 /\ (taken[f] = pos[f] \/ (eof[f] = 1 /\ loop[f] > 0))
    BY DEF EndsDrained
  <2>1. CASE eof[f] = 1
    BY <2>1 DEF DrainInv, Drained
  <2>2. CASE main = "seek" /\ cur = f
    <3>1. ending = 0
      BY <2>2, Types DEF IInv, AtInv, Ending
    <3> QED BY <2>2, <3>1 DEF DrainInv, IInv, AtInv, PlayingAgain
  <2> QED BY <2>1, <2>2
<1> QED BY Invariance, DrainStep, <1>1, <1>2, PTL DEF Spec
=============================================================================
