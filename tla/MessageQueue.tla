---------------------------- MODULE MessageQueue ----------------------------
(***************************************************************************)
(* AVThreadMessageQueue of libavutil: bounded queues of messages between   *)
(* threads, each with an error code for its senders and one for its        *)
(* receivers.                                                              *)
(*                                                                         *)
(* Every function of threadmessage.c holds the queue's mutex from its      *)
(* first statement to its return, or to pthread_cond_wait, which gives the *)
(* mutex up; so one such stretch is one action here.  A thread in          *)
(* pthread_cond_wait is in a wait set of the queue; taken out of it by a   *)
(* signal, a broadcast or for no reason, it tests the loop's condition     *)
(* again, that is, it takes one of the Send or Recv actions anew.          *)
(*                                                                         *)
(* The actions leave the caller's own variables to the module that uses    *)
(* the queues.                                                             *)
(***************************************************************************)
EXTENDS Naturals, Sequences

CONSTANTS
  Queues,    \* the queues
  Capacity   \* nelem, the messages a queue has room for

ASSUME QueueAssumption == Capacity \in Nat \ {0}

VARIABLES
  fifo,      \* the messages in a queue
  errSend,   \* 1 when err_send is set, else 0
  errRecv,   \* 1 when err_recv is set, else 0
  sendWait,  \* threads waiting on cond_send
  recvWait   \* threads waiting on cond_recv

queueVars == <<fifo, errSend, errRecv, sendWait, recvWait>>

Full(q)  == Len(fifo[q]) >= Capacity
Empty(q) == fifo[q] = <<>>

(* The state of the queues for messages and threads of some sets.          *)
QueueType(Messages, Threads) ==
  /\ fifo \in [Queues -> Seq(Messages)]
  /\ \A q \in Queues : Len(fifo[q]) <= Capacity
  /\ errSend \in [Queues -> {0, 1}]
  /\ errRecv \in [Queues -> {0, 1}]
  /\ sendWait \in [Queues -> SUBSET Threads]
  /\ recvWait \in [Queues -> SUBSET Threads]

QueueInit ==
  /\ fifo = [q \in Queues |-> <<>>]
  /\ errSend = [q \in Queues |-> 0]
  /\ errRecv = [q \in Queues |-> 0]
  /\ sendWait = [q \in Queues |-> {}]
  /\ recvWait = [q \in Queues |-> {}]

(* pthread_cond_signal: one of the waiting threads, if there is one.       *)
SignalReceiver(q) ==
  \/ recvWait[q] = {} /\ UNCHANGED recvWait
  \/ \E t \in recvWait[q] : recvWait' = [recvWait EXCEPT ![q] = @ \ {t}]

SignalSender(q) ==
  \/ sendWait[q] = {} /\ UNCHANGED sendWait
  \/ \E t \in sendWait[q] : sendWait' = [sendWait EXCEPT ![q] = @ \ {t}]

-----------------------------------------------------------------------------
(* av_thread_message_queue_send: the error first, then the room.           *)

(* Faulty form: the message is queued and nobody is told.                  *)
SendOkUnsignalled(q, m) ==
  /\ errSend[q] = 0 /\ ~Full(q)
  /\ fifo' = [fifo EXCEPT ![q] = Append(@, m)]
  /\ UNCHANGED <<errSend, errRecv, sendWait, recvWait>>

(* Faulty form: one message more than there is room for.                   *)
SendOkOneTooMany(q, m) ==
  /\ errSend[q] = 0 /\ Len(fifo[q]) <= Capacity
  /\ fifo' = [fifo EXCEPT ![q] = Append(@, m)]
  /\ SignalReceiver(q)
  /\ UNCHANGED <<errSend, errRecv, sendWait>>

(* Faulty form: the message goes to the front.                             *)
SendOkFront(q, m) ==
  /\ errSend[q] = 0 /\ ~Full(q)
  /\ fifo' = [fifo EXCEPT ![q] = <<m>> \o @]
  /\ SignalReceiver(q)
  /\ UNCHANGED <<errSend, errRecv, sendWait>>

SendOk(q, m) ==
  /\ errSend[q] = 0 /\ ~Full(q)
  /\ fifo' = [fifo EXCEPT ![q] = Append(@, m)]
  /\ SignalReceiver(q)
  /\ UNCHANGED <<errSend, errRecv, sendWait>>

(* The answer is err_send, and the message stays with the caller.          *)
SendError(q) == errSend[q] = 1 /\ UNCHANGED queueVars

(* The answer to a non-blocking call is EAGAIN.                            *)
SendAgain(q) == errSend[q] = 0 /\ Full(q) /\ UNCHANGED queueVars

SendWait(q, t) ==
  /\ errSend[q] = 0 /\ Full(q)
  /\ sendWait' = [sendWait EXCEPT ![q] = @ \cup {t}]
  /\ UNCHANGED <<fifo, errSend, errRecv, recvWait>>

-----------------------------------------------------------------------------
(* av_thread_message_queue_recv: the messages first, then the error.       *)

(* Faulty form: the room is not announced.                                 *)
RecvOkUnsignalled(q) ==
  /\ ~Empty(q)
  /\ fifo' = [fifo EXCEPT ![q] = Tail(@)]
  /\ UNCHANGED <<errSend, errRecv, sendWait, recvWait>>

(* The message is Head(fifo[q]).                                           *)
RecvOk(q) ==
  /\ ~Empty(q)
  /\ fifo' = [fifo EXCEPT ![q] = Tail(@)]
  /\ SignalSender(q)
  /\ UNCHANGED <<errSend, errRecv, recvWait>>

(* Faulty form: the error is answered before the messages are.             *)
RecvErrorFirst(q) == errRecv[q] = 1 /\ UNCHANGED queueVars

RecvError(q) == Empty(q) /\ errRecv[q] = 1 /\ UNCHANGED queueVars

RecvAgain(q) == Empty(q) /\ errRecv[q] = 0 /\ UNCHANGED queueVars

RecvWait(q, t) ==
  /\ Empty(q) /\ errRecv[q] = 0
  /\ recvWait' = [recvWait EXCEPT ![q] = @ \cup {t}]
  /\ UNCHANGED <<fifo, errSend, errRecv, sendWait>>

-----------------------------------------------------------------------------
SetErrSend(q) ==
  /\ errSend' = [errSend EXCEPT ![q] = 1]
  /\ sendWait' = [sendWait EXCEPT ![q] = {}]
  /\ UNCHANGED <<fifo, errRecv, recvWait>>

SetErrRecv(q) ==
  /\ errRecv' = [errRecv EXCEPT ![q] = 1]
  /\ recvWait' = [recvWait EXCEPT ![q] = {}]
  /\ UNCHANGED <<fifo, errSend, sendWait>>

(* av_thread_message_flush: the messages go, and the senders are told.     *)
Flush(q) ==
  /\ fifo' = [fifo EXCEPT ![q] = <<>>]
  /\ sendWait' = [sendWait EXCEPT ![q] = {}]
  /\ UNCHANGED <<errSend, errRecv, recvWait>>

(* av_thread_message_queue_alloc zeroes the queue it makes.                *)
Alloc(q) ==
  /\ fifo' = [fifo EXCEPT ![q] = <<>>]
  /\ errSend' = [errSend EXCEPT ![q] = 0]
  /\ errRecv' = [errRecv EXCEPT ![q] = 0]
  /\ UNCHANGED <<sendWait, recvWait>>

(* pthread_cond_wait may return for no reason.                             *)
WakeSender(q) ==
  /\ \E t \in sendWait[q] : sendWait' = [sendWait EXCEPT ![q] = @ \ {t}]
  /\ UNCHANGED <<fifo, errSend, errRecv, recvWait>>

WakeReceiver(q) ==
  /\ \E t \in recvWait[q] : recvWait' = [recvWait EXCEPT ![q] = @ \ {t}]
  /\ UNCHANGED <<fifo, errSend, errRecv, sendWait>>

SpuriousWakeup(q) == WakeSender(q) \/ WakeReceiver(q)
=============================================================================
