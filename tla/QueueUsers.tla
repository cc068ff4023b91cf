----------------------------- MODULE QueueUsers -----------------------------
(***************************************************************************)
(* Any number of senders and receivers on one message queue.  A sender     *)
(* offers its messages one after the other; a receiver takes messages      *)
(* until it is answered an error; a third party ends the queue: the        *)
(* receivers' error is set when the senders have finished, the senders'    *)
(* error at any moment, and a queue may be flushed at any moment.          *)
(***************************************************************************)
EXTENDS MessageQueue, FiniteSets, Functions

CONSTANTS
  Senders, Receivers,  \* the threads
  Polling,             \* those of them that pass AV_THREAD_MESSAGE_NONBLOCK
  MessageCount,        \* messages a sender has to send
  Flushes              \* whether the queue is ever flushed

ASSUME UsersAssumption ==
  /\ \A p, q \in Queues : p = q
  /\ Senders \cap Receivers = {}
  /\ IsFiniteSet(Senders) /\ IsFiniteSet(Receivers)
  /\ Polling \subseteq Senders \cup Receivers
  /\ MessageCount \in Nat
  /\ Flushes \in BOOLEAN

VARIABLES
  sent,     \* messages a sender has sent
  done,     \* threads that have finished
  taken,    \* the messages received, in the order of the receptions
  flushed   \* the messages flushed

userVars == <<sent, done, taken, flushed>>
vars == <<queueVars, userVars>>

Threads  == Senders \cup Receivers
Messages == Senders \X (1..MessageCount)

TypeOK ==
  /\ QueueType(Messages, Threads)
  /\ sent \in [Senders -> 0..MessageCount]
  /\ done \subseteq Threads
  /\ taken \in Seq(Messages)
  /\ flushed \subseteq Messages

Init ==
  /\ QueueInit
  /\ sent = [s \in Senders |-> 0]
  /\ done = {}
  /\ taken = <<>>
  /\ flushed = {}

-----------------------------------------------------------------------------
(* A thread goes on that is neither finished nor asleep.                   *)
Awake(q, t) == t \notin done \cup sendWait[q] \cup recvWait[q]

Send(q, s) ==
  /\ Awake(q, s) /\ sent[s] < MessageCount
  /\ \/ /\ SendOk(q, <<s, sent[s] + 1>>)
        /\ sent' = [sent EXCEPT ![s] = @ + 1]
        /\ done' = IF sent'[s] = MessageCount THEN done \cup {s} ELSE done
     \/ /\ SendError(q)
        /\ done' = done \cup {s}
        /\ UNCHANGED sent
     \/ /\ s \notin Polling
        /\ SendWait(q, s)
        /\ UNCHANGED <<sent, done>>
  /\ UNCHANGED <<taken, flushed>>

Receive(q, r) ==
  /\ Awake(q, r)
  /\ \/ /\ RecvOk(q)
        /\ taken' = Append(taken, Head(fifo[q]))
        /\ UNCHANGED done
     \/ /\ RecvError(q)
        /\ done' = done \cup {r}
        /\ UNCHANGED taken
     \/ /\ r \notin Polling
        /\ RecvWait(q, r)
        /\ UNCHANGED <<done, taken>>
  /\ UNCHANGED <<sent, flushed>>

CloseForSenders(q) == errSend[q] = 0 /\ SetErrSend(q) /\ UNCHANGED userVars

CloseForReceivers(q) ==
  /\ Senders \subseteq done /\ errRecv[q] = 0
  /\ SetErrRecv(q)
  /\ UNCHANGED userVars

FlushQueue(q) ==
  /\ Flushes
  /\ ~Empty(q)
  /\ Flush(q)
  /\ flushed' = flushed \cup Range(fifo[q])
  /\ UNCHANGED <<sent, done, taken>>

Wakeup(q) == SpuriousWakeup(q) /\ UNCHANGED userVars

Finished == done = Threads /\ UNCHANGED vars

Next ==
  \/ \E q \in Queues :
       \/ \E s \in Senders : Send(q, s)
       \/ \E r \in Receivers : Receive(q, r)
       \/ CloseForSenders(q) \/ CloseForReceivers(q)
       \/ FlushQueue(q) \/ Wakeup(q)
  \/ Finished

Spec == Init /\ [][Next]_vars

(* Each thread goes on when it can, and the receivers are told of the end. *)
Fairness ==
  \A q \in Queues :
    /\ \A s \in Senders : WF_vars(Send(q, s))
    /\ \A r \in Receivers : WF_vars(Receive(q, r))
    /\ WF_vars(CloseForReceivers(q))

FairSpec == Spec /\ Fairness

-----------------------------------------------------------------------------
(* Properties.                                                             *)

(* The signals suffice: when a receiver sleeps, there are no more messages *)
(* than receivers awake to take them, and when a sender sleeps, no more    *)
(* room than senders awake to use it.                                      *)
NoLostWakeup ==
  \A q \in Queues :
    /\ recvWait[q] # {} =>
         Len(fifo[q]) <= Cardinality({r \in Receivers : Awake(q, r)})
    /\ sendWait[q] # {} =>
         Capacity - Len(fifo[q]) <= Cardinality({s \in Senders : Awake(q, s)})

(* What a sender has sent and nobody flushed is received, or is still in   *)
(* the queue, once and in the order it was sent.                           *)
SenderOrder ==
  \A q \in Queues, s \in Senders :
    LET all    == taken \o fifo[q]
        places == {i \in 1..Len(all) : all[i][1] = s}
    IN  /\ \A i, j \in places : i < j => all[i][2] < all[j][2]
        /\ {all[i][2] : i \in places} = (1..sent[s]) \ {m[2] : m \in {n \in flushed : n[1] = s}}

(* All threads come to their end.                                          *)
AllFinish == <>(done = Threads)
=============================================================================
