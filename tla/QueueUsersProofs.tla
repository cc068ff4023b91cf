-------------------------- MODULE QueueUsersProofs --------------------------
(***************************************************************************)
(* Proofs about QueueUsers, for any numbers of senders and receivers, any  *)
(* of them polling, and any capacity.  NoLostWakeup counts the threads     *)
(* that are awake, so it needs to know who sleeps where (WaitInv), and     *)
(* that a thread leaves only when no other sleeps on its side              *)
(* (ErrorWakesAll); DrainedBeforeError needs to know when the receivers    *)
(* are told of the end (CloseInv).  SenderOrder follows from OrderInv at   *)
(* the end of the module.                                                  *)
(***************************************************************************)
EXTENDS QueueUsers, FiniteSetTheorems, SequenceTheorems, TLAPS

(* A signal only takes threads out of a wait set.                          *)
LEMMA SignalType ==
  ASSUME NEW T, NEW q \in Queues
  PROVE  /\ recvWait \in [Queues -> SUBSET T] /\ SignalReceiver(q)
              => recvWait' \in [Queues -> SUBSET T]
         /\ sendWait \in [Queues -> SUBSET T] /\ SignalSender(q)
              => sendWait' \in [Queues -> SUBSET T]
  BY DEF SignalReceiver, SignalSender

(* Sending a message or waiting to send it keeps the type of the queues.   *)
LEMMA SendType ==
  ASSUME NEW M, NEW T, QueueType(M, T),
         NEW q \in Queues, NEW m \in M, NEW t \in T,
         SendOk(q, m) \/ SendError(q) \/ SendAgain(q) \/ SendWait(q, t)
  PROVE  QueueType(M, T)'
<1> USE QueueAssumption DEF QueueType
<1>1. CASE SendOk(q, m)
  <2>1. recvWait' \in [Queues -> SUBSET T]
    BY <1>1, SignalType DEF SendOk
  <2>2. fifo' \in [Queues -> Seq(M)] /\ \A p \in Queues : Len(fifo'[p]) <= Capacity
    BY <1>1 DEF SendOk, Full
  <2> QED BY <1>1, <2>1, <2>2 DEF SendOk
<1>2. CASE SendError(q) \/ SendAgain(q)
  BY <1>2 DEF SendError, SendAgain, queueVars
<1>3. CASE SendWait(q, t)
  BY <1>3 DEF SendWait
<1> QED BY <1>1, <1>2, <1>3

(* Receiving a message or waiting for one keeps the type of the queues.    *)
LEMMA RecvType ==
  ASSUME NEW M, NEW T, QueueType(M, T),
         NEW q \in Queues, NEW t \in T,
         RecvOk(q) \/ RecvError(q) \/ RecvAgain(q) \/ RecvWait(q, t)
  PROVE  QueueType(M, T)'
<1> USE QueueAssumption DEF QueueType
<1>1. CASE RecvOk(q)
  <2>1. sendWait' \in [Queues -> SUBSET T]
    BY <1>1, SignalType DEF RecvOk
  <2>2. fifo' \in [Queues -> Seq(M)] /\ \A p \in Queues : Len(fifo'[p]) <= Capacity
    BY <1>1 DEF RecvOk, Empty
  <2> QED BY <1>1, <2>1, <2>2 DEF RecvOk
<1>2. CASE RecvError(q) \/ RecvAgain(q)
  BY <1>2 DEF RecvError, RecvAgain, queueVars
<1>3. CASE RecvWait(q, t)
  BY <1>3 DEF RecvWait
<1> QED BY <1>1, <1>2, <1>3

(* So do the errors, a flush, an allocation and a spurious wakeup.         *)
LEMMA ControlType ==
  ASSUME NEW M, NEW T, QueueType(M, T), NEW q \in Queues,
         \/ SetErrSend(q) \/ SetErrRecv(q) \/ Flush(q) \/ Alloc(q)
         \/ SpuriousWakeup(q)
  PROVE  QueueType(M, T)'
<1> USE QueueAssumption DEF QueueType
<1>1. CASE SetErrSend(q) \/ SetErrRecv(q)
  BY <1>1 DEF SetErrSend, SetErrRecv
<1>2. CASE Flush(q) \/ Alloc(q)
  <2>1. fifo' = [fifo EXCEPT ![q] = <<>>]
    BY <1>2 DEF Flush, Alloc
  <2>2. fifo' \in [Queues -> Seq(M)]
    BY <2>1
  <2>3. ASSUME NEW p \in Queues PROVE Len(fifo'[p]) <= Capacity
    BY <2>1, Len(<<>>) = 0
  <2>4. /\ errSend' \in [Queues -> {0, 1}] /\ errRecv' \in [Queues -> {0, 1}]
        /\ sendWait' \in [Queues -> SUBSET T]
        /\ recvWait' \in [Queues -> SUBSET T]
    BY <1>2 DEF Flush, Alloc
  <2> QED BY <2>2, <2>3, <2>4
<1>3. CASE WakeSender(q) \/ WakeReceiver(q)
  BY <1>3 DEF WakeSender, WakeReceiver
<1> QED BY <1>1, <1>2, <1>3 DEF SpuriousWakeup

(* Senders sleep on cond_send and receivers on cond_recv, none finished.   *)
WaitInv ==
  \A q \in Queues : sendWait[q] \subseteq Senders \ done /\ recvWait[q] \subseteq Receivers \ done

(* The receivers are told of the end when every sender has finished; a     *)
(* receiver finishes once told.                                            *)
CloseInv ==
  \A q \in Queues :
    /\ errRecv[q] = 1 => Senders \subseteq done
    /\ Receivers \cap done # {} => errRecv[q] = 1

(* Once an error is set nobody sleeps on that side.                        *)
ErrorWakesAll ==
  \A q \in Queues :
    /\ errSend[q] = 1 => sendWait[q] = {}
    /\ errRecv[q] = 1 => recvWait[q] = {}

(* A receiver is answered the error only when there is nothing to receive. *)
DrainedBeforeError == \A r \in Receivers \cap done : \A q \in Queues : Empty(q)

IInv ==
  TypeOK /\ WaitInv /\ CloseInv /\ ErrorWakesAll /\ DrainedBeforeError /\ NoLostWakeup

AwakeSenders(q)   == {s \in Senders : Awake(q, s)}
AwakeReceivers(q) == {r \in Receivers : Awake(q, r)}

-----------------------------------------------------------------------------
(* What the numbers are, and that there is one queue.                      *)
LEMMA Numbers ==
  /\ Capacity \in Nat /\ Capacity > 0 /\ MessageCount \in Nat
  /\ Senders \cap Receivers = {}
  /\ \A p, q \in Queues : p = q
BY QueueAssumption, UsersAssumption

(* Types are kept by every step.                                           *)
LEMMA TypeStep == TypeOK /\ [Next]_vars => TypeOK'
<1> SUFFICES ASSUME TypeOK, [Next]_vars PROVE TypeOK'
  OBVIOUS
<1> DEFINE UserType == /\ sent \in [Senders -> 0..MessageCount] /\ done \subseteq Threads
                       /\ taken \in Seq(Messages) /\ flushed \subseteq Messages
<1>0. QueueType(Messages, Threads) /\ UserType
  BY DEF TypeOK
<1> SUFFICES QueueType(Messages, Threads)' /\ UserType'
  BY DEF TypeOK, Messages, Threads
<1>1. ASSUME NEW q \in Queues, NEW s \in Senders, Send(q, s)
      PROVE  QueueType(Messages, Threads)' /\ UserType'
  <2>1. CASE SendOk(q, <<s, sent[s] + 1>>) /\ sent' = [sent EXCEPT ![s] = @ + 1]
             /\ done' = (IF sent'[s] = MessageCount THEN done \cup {s} ELSE done)
    <3>1. sent[s] + 1 \in 1..MessageCount
      BY <1>0, <1>1, Numbers DEF Send
    <3>2. <<s, sent[s] + 1>> \in Messages /\ s \in Threads
      BY <3>1 DEF Messages, Threads
    <3>3. QueueType(Messages, Threads)'
      BY <1>0, <2>1, <3>2, SendType DEF Messages, Threads
    <3>4. sent' \in [Senders -> 0..MessageCount]
      BY <1>0, <2>1, <3>1
    <3>5. done' \subseteq Threads
      BY <1>0, <2>1, <3>2
    <3> QED BY <1>0, <1>1, <3>3, <3>4, <3>5 DEF Send
  <2>2. CASE (SendError(q) \/ SendWait(q, s)) /\ sent' = sent /\ done' \subseteq done \cup {s}
    <3>1. s \in Threads /\ <<s, sent[s] + 1>> \in Messages
      <4>1. sent[s] + 1 \in 1..MessageCount
        BY <1>0, <1>1, Numbers DEF Send
      <4> QED BY <4>1 DEF Messages, Threads
    <3>2. QueueType(Messages, Threads)'
      BY <1>0, <2>2, <3>1, SendType DEF Threads, Messages
    <3> QED BY <1>0, <1>1, <2>2, <3>2 DEF Send, Threads
  <2> QED BY <1>1, <2>1, <2>2 DEF Send
<1>2. ASSUME NEW q \in Queues, NEW r \in Receivers, Receive(q, r)
      PROVE  QueueType(Messages, Threads)' /\ UserType'
  <2>1. r \in Threads
    BY DEF Threads
  <2>2. QueueType(Messages, Threads)'
    BY <1>0, <1>2, <2>1, RecvType DEF Receive, Messages, Threads
  <2>3. taken' \in Seq(Messages)
    <3>1. CASE UNCHANGED taken
      BY <1>0, <3>1
    <3>2. CASE RecvOk(q) /\ taken' = Append(taken, Head(fifo[q]))
      <4>1. fifo[q] \in Seq(Messages) /\ fifo[q] # <<>>
        BY <1>0, <3>2 DEF QueueType, RecvOk, Empty
      <4> QED BY <1>0, <3>2, <4>1
    <3> QED BY <1>2, <3>1, <3>2 DEF Receive
  <2>4. done' \subseteq Threads
    BY <1>0, <1>2, <2>1 DEF Receive
  <2> QED BY <1>0, <1>2, <2>2, <2>3, <2>4 DEF Receive
<1>3. ASSUME NEW q \in Queues,
             CloseForSenders(q) \/ CloseForReceivers(q) \/ Wakeup(q)
      PROVE  QueueType(Messages, Threads)' /\ UserType'
  <2>1. QueueType(Messages, Threads)'
    BY <1>0, <1>3, ControlType
       DEF CloseForSenders, CloseForReceivers, Wakeup, Messages, Threads
  <2> QED BY <1>0, <1>3, <2>1 DEF CloseForSenders, CloseForReceivers, Wakeup, userVars
<1>4. ASSUME NEW q \in Queues, FlushQueue(q)
      PROVE  QueueType(Messages, Threads)' /\ UserType'
  <2>1. QueueType(Messages, Threads)'
    BY <1>0, <1>4, ControlType DEF FlushQueue, Messages, Threads
  <2>2. Range(fifo[q]) \subseteq Messages
    <3>1. fifo[q] \in Seq(Messages)
      BY <1>0 DEF QueueType
    <3> QED BY <3>1 DEF Range
  <2> QED BY <1>0, <1>4, <2>1, <2>2 DEF FlushQueue
<1>5. CASE UNCHANGED vars
  BY <1>0, <1>5 DEF vars, queueVars, userVars, QueueType, Messages, Threads
<1> QED BY <1>1, <1>2, <1>3, <1>4, <1>5 DEF Next, Finished

-----------------------------------------------------------------------------
(* Who sleeps where.                                                       *)
LEMMA WaitStep == TypeOK /\ WaitInv /\ [Next]_vars => WaitInv'
<1> SUFFICES ASSUME TypeOK, WaitInv, [Next]_vars PROVE WaitInv'
  OBVIOUS
<1> USE Numbers DEF TypeOK, QueueType, WaitInv
<1>1. ASSUME NEW q \in Queues, NEW s \in Senders, Send(q, s) PROVE WaitInv'
  BY <1>1 DEF Send, Awake, SendOk, SendError, SendWait, SignalReceiver, queueVars
<1>2. ASSUME NEW q \in Queues, NEW r \in Receivers, Receive(q, r) PROVE WaitInv'
  BY <1>2 DEF Receive, Awake, RecvOk, RecvError, RecvWait, SignalSender, queueVars
<1>3. ASSUME NEW q \in Queues,
             CloseForSenders(q) \/ CloseForReceivers(q) \/ FlushQueue(q) \/ Wakeup(q)
      PROVE  WaitInv'
  BY <1>3 DEF CloseForSenders, CloseForReceivers, FlushQueue, Wakeup, SetErrSend, SetErrRecv,
              Flush, SpuriousWakeup, WakeSender, WakeReceiver, userVars
<1>4. CASE UNCHANGED vars
  BY <1>4 DEF vars, queueVars, userVars
<1> QED BY <1>1, <1>2, <1>3, <1>4 DEF Next, Finished

(* Errors are set once and for all, and wake whoever sleeps.               *)
LEMMA ErrorStep ==
  TypeOK /\ CloseInv /\ ErrorWakesAll /\ DrainedBeforeError /\ [Next]_vars =>
    CloseInv' /\ ErrorWakesAll' /\ DrainedBeforeError'
<1> SUFFICES ASSUME TypeOK, CloseInv, ErrorWakesAll, DrainedBeforeError, [Next]_vars
             PROVE  CloseInv' /\ ErrorWakesAll' /\ DrainedBeforeError'
  OBVIOUS
<1> USE Numbers DEF TypeOK, QueueType, CloseInv, ErrorWakesAll, DrainedBeforeError, Empty
<1>1. ASSUME NEW q \in Queues, NEW s \in Senders, Send(q, s)
      PROVE  CloseInv' /\ ErrorWakesAll' /\ DrainedBeforeError'
  <2>1. errRecv[q] = 0 /\ Receivers \cap done = {} /\ s \notin done
    BY <1>1 DEF Send, Awake
  <2>2. Receivers \cap done' = {} /\ errRecv' = errRecv /\ errSend' = errSend
    BY <1>1, <2>1 DEF Send, SendOk, SendError, SendWait, queueVars
  <2>3. errSend[q] = 1 => sendWait' = sendWait
    BY <1>1 DEF Send, SendOk, SendError, SendWait, queueVars
  <2> QED BY <2>1, <2>2, <2>3
<1>2. ASSUME NEW q \in Queues, NEW r \in Receivers, Receive(q, r)
      PROVE  CloseInv' /\ ErrorWakesAll' /\ DrainedBeforeError'
  BY <1>2 DEF Receive, Awake, RecvOk, RecvError, RecvWait, SignalSender, queueVars
<1>3. ASSUME NEW q \in Queues,
             CloseForSenders(q) \/ CloseForReceivers(q) \/ FlushQueue(q) \/ Wakeup(q)
      PROVE  CloseInv' /\ ErrorWakesAll' /\ DrainedBeforeError'
  BY <1>3 DEF CloseForSenders, CloseForReceivers, FlushQueue, Wakeup, SetErrSend, SetErrRecv,
              Flush, SpuriousWakeup, WakeSender, WakeReceiver, userVars
<1>4. CASE UNCHANGED vars
  BY <1>4 DEF vars, queueVars, userVars
<1> QED BY <1>1, <1>2, <1>3, <1>4 DEF Next, Finished

-----------------------------------------------------------------------------
(* Counting the threads that are awake.                                    *)

(* One more, or one fewer.                                                 *)
LEMMA Count ==
  ASSUME NEW S, NEW T, NEW x, IsFiniteSet(S)
  PROVE  /\ Cardinality(S) \in Nat
         /\ T = S \cup {x} /\ x \notin S => Cardinality(T) = Cardinality(S) + 1
         /\ T = S \ {x} /\ x \in S => Cardinality(T) = Cardinality(S) - 1
         /\ S \subseteq T /\ IsFiniteSet(T) => Cardinality(S) <= Cardinality(T)
BY FS_CardinalityType, FS_AddElement, FS_RemoveElement, FS_Subset

(* There are finitely many.                                                *)
LEMMA Finite ==
  ASSUME NEW q \in Queues
  PROVE  /\ IsFiniteSet(AwakeSenders(q)) /\ IsFiniteSet(AwakeReceivers(q))
         /\ IsFiniteSet(AwakeSenders(q))' /\ IsFiniteSet(AwakeReceivers(q))'
BY FS_Subset, UsersAssumption DEF AwakeSenders, AwakeReceivers

(* The receivers awake are those not finished and not on cond_recv.        *)
LEMMA AwakeOnes ==
  ASSUME WaitInv, NEW q \in Queues
  PROVE  /\ AwakeReceivers(q) = Receivers \ (done \cup recvWait[q])
         /\ AwakeSenders(q) = Senders \ (done \cup sendWait[q])
BY Numbers DEF WaitInv, AwakeReceivers, AwakeSenders, Awake

(* When a receiver sleeps, those awake are enough for the messages.        *)
ReceiversSuffice(q) ==
  recvWait[q] # {} => Len(fifo[q]) <= Cardinality(AwakeReceivers(q))

SendersSuffice(q) ==
  sendWait[q] # {} => Capacity - Len(fifo[q]) <= Cardinality(AwakeSenders(q))

(* One signal for each message is enough for the receivers.                *)
LEMMA ReceiverStep ==
  ASSUME TypeOK, WaitInv, WaitInv', ErrorWakesAll, [Next]_vars, NEW q \in Queues,
         ReceiversSuffice(q)
  PROVE  ReceiversSuffice(q)'
<1> DEFINE A == AwakeReceivers(q)
<1> SUFFICES ASSUME recvWait'[q] # {} PROVE Len(fifo'[q]) <= Cardinality(A')
  BY DEF ReceiversSuffice
<1>0. /\ A = Receivers \ (done \cup recvWait[q]) /\ A' = Receivers \ (done' \cup recvWait'[q])
      /\ recvWait[q] \subseteq Receivers \ done /\ recvWait'[q] \subseteq Receivers \ done'
      /\ IsFiniteSet(A) /\ IsFiniteSet(A')
      /\ Cardinality(A) \in Nat /\ Cardinality(A') \in Nat
      /\ recvWait[q] # {} => Len(fifo[q]) <= Cardinality(A)
  <2>1. A' = Receivers \ (done' \cup recvWait'[q])
    BY Numbers DEF WaitInv, AwakeReceivers, Awake
  <2> QED BY <2>1, AwakeOnes, Finite, FS_CardinalityType DEF WaitInv, ReceiversSuffice
<1>00. fifo \in [Queues -> Seq(Messages)] /\ Len(fifo[q]) \in Nat
       /\ recvWait \in [Queues -> SUBSET Threads] /\ \A p \in Queues : p = q
  BY Numbers DEF TypeOK, QueueType
<1> HIDE DEF A
<1>1. ASSUME NEW s \in Senders, Send(q, s) PROVE Len(fifo'[q]) <= Cardinality(A')
  <2>1. done' \in {done, done \cup {s}} /\ s \notin Receivers
    BY <1>1, Numbers DEF Send
  <2>2. CASE SendOk(q, <<s, sent[s] + 1>>)
    <3>1. Len(fifo'[q]) = Len(fifo[q]) + 1
      BY <1>00, <2>2 DEF SendOk
    <3>2. recvWait[q] # {}
      BY <1>00, <2>2 DEF SendOk, SignalReceiver
    <3>3. PICK t \in recvWait[q] : recvWait' = [recvWait EXCEPT ![q] = @ \ {t}]
      BY <2>2, <3>2 DEF SendOk, SignalReceiver
    <3>4. A' = A \cup {t} /\ t \notin A
      BY <1>0, <1>00, <2>1, <3>3
    <3>5. Cardinality(A') = Cardinality(A) + 1
      BY <1>0, <3>4, Count
    <3> QED BY <1>0, <1>00, <3>1, <3>2, <3>5
  <2>3. CASE SendError(q) \/ SendWait(q, s)
    <3>1. fifo' = fifo /\ recvWait' = recvWait
      BY <2>3 DEF SendError, SendWait, queueVars
    <3>2. A' = A
      BY <1>0, <2>1, <3>1
    <3> QED BY <1>0, <3>1, <3>2
  <2> QED BY <1>1, <2>2, <2>3 DEF Send
<1>2. ASSUME NEW r \in Receivers, Receive(q, r) PROVE Len(fifo'[q]) <= Cardinality(A')
  <2>1. CASE RecvOk(q) /\ done' = done
    <3>1. recvWait' = recvWait /\ Len(fifo'[q]) <= Len(fifo[q]) /\ Len(fifo'[q]) \in Nat
      BY <1>00, <2>1 DEF RecvOk, Empty
    <3>2. A' = A
      BY <1>0, <2>1, <3>1
    <3>3. Len(fifo[q]) <= Cardinality(A)
      BY <1>0, <3>1
    <3>4. Cardinality(A') = Cardinality(A)
      BY <3>2
    <3> QED BY <1>0, <1>00, <3>1, <3>3, <3>4
  <2>2. CASE RecvError(q)
    BY <2>2, Numbers DEF RecvError, ErrorWakesAll, queueVars
  <2>3. CASE RecvWait(q, r)
    <3>1. Len(fifo'[q]) = 0
      BY <2>3 DEF RecvWait, Empty
    <3> QED BY <1>0, <3>1
  <2> QED BY <1>2, <2>1, <2>2, <2>3 DEF Receive
<1>3. ASSUME CloseForReceivers(q) PROVE Len(fifo'[q]) <= Cardinality(A')
  BY <1>00, <1>3 DEF CloseForReceivers, SetErrRecv
<1>4. ASSUME FlushQueue(q) PROVE Len(fifo'[q]) <= Cardinality(A')
  <2>1. Len(fifo'[q]) = 0
    BY <1>00, <1>4 DEF FlushQueue, Flush
  <2> QED BY <1>0, <2>1
<1>5. ASSUME CloseForSenders(q) \/ Wakeup(q) \/ UNCHANGED vars
      PROVE  Len(fifo'[q]) <= Cardinality(A')
  <2>1. fifo' = fifo /\ recvWait'[q] \subseteq recvWait[q] /\ done' = done
    BY <1>00, <1>5 DEF CloseForSenders, SetErrSend, Wakeup, SpuriousWakeup, WakeSender,
                       WakeReceiver, vars, userVars, queueVars
  <2>2. A \subseteq A' /\ recvWait[q] # {}
    BY <1>0, <2>1
  <2>3. Cardinality(A) <= Cardinality(A')
    BY <1>0, <2>2, Count
  <2> QED BY <1>0, <1>00, <2>1, <2>2, <2>3
<1> QED BY <1>00, <1>1, <1>2, <1>3, <1>4, <1>5 DEF Next, Finished, A

(* One signal for each message taken is enough for the senders.            *)
LEMMA SenderStep ==
  ASSUME TypeOK, WaitInv, WaitInv', ErrorWakesAll, [Next]_vars, NEW q \in Queues,
         SendersSuffice(q)
  PROVE  SendersSuffice(q)'
<1> DEFINE A == AwakeSenders(q)
<1> SUFFICES ASSUME sendWait'[q] # {} PROVE Capacity - Len(fifo'[q]) <= Cardinality(A')
  BY DEF SendersSuffice
<1>0. /\ A = Senders \ (done \cup sendWait[q]) /\ A' = Senders \ (done' \cup sendWait'[q])
      /\ sendWait[q] \subseteq Senders \ done /\ sendWait'[q] \subseteq Senders \ done'
      /\ IsFiniteSet(A) /\ IsFiniteSet(A')
      /\ Cardinality(A) \in Nat /\ Cardinality(A') \in Nat
      /\ sendWait[q] # {} => Capacity - Len(fifo[q]) <= Cardinality(A)
  <2>1. A' = Senders \ (done' \cup sendWait'[q])
    BY Numbers DEF WaitInv, AwakeSenders, Awake
  <2> QED BY <2>1, AwakeOnes, Finite, FS_CardinalityType DEF WaitInv, SendersSuffice
<1>00. fifo \in [Queues -> Seq(Messages)] /\ Len(fifo[q]) \in Nat /\ Capacity \in Nat
       /\ sendWait \in [Queues -> SUBSET Threads] /\ \A p \in Queues : p = q
  BY Numbers DEF TypeOK, QueueType
<1> HIDE DEF A
<1>1. ASSUME NEW s \in Senders, Send(q, s) PROVE Capacity - Len(fifo'[q]) <= Cardinality(A')
  <2>1. done' \in {done, done \cup {s}} /\ s \in A
    BY <1>1 DEF Send, A, AwakeSenders
  <2>2. CASE SendOk(q, <<s, sent[s] + 1>>)
    <3>1. Len(fifo'[q]) = Len(fifo[q]) + 1 /\ sendWait' = sendWait
      BY <1>00, <2>2 DEF SendOk
    <3>2. A' = A \/ A' = A \ {s}
      BY <1>0, <2>1, <3>1
    <3>3. sendWait[q] # {} /\ Capacity - Len(fifo[q]) <= Cardinality(A)
      BY <1>0, <3>1
    <3>4. CASE A' = A
      <4>1. Cardinality(A') = Cardinality(A)
        BY <3>4
      <4> QED BY <1>0, <1>00, <3>1, <3>3, <4>1
    <3>5. CASE A' = A \ {s}
      <4>1. Cardinality(A') = Cardinality(A) - 1
        BY <1>0, <2>1, <3>5, Count
      <4> QED BY <1>0, <1>00, <3>1, <3>3, <4>1
    <3> QED BY <3>2, <3>4, <3>5
  <2>3. CASE SendError(q)
    BY <2>3, Numbers DEF SendError, ErrorWakesAll, queueVars
  <2>4. CASE SendWait(q, s)
    <3>1. Len(fifo'[q]) >= Capacity /\ Len(fifo'[q]) \in Nat
      BY <1>00, <2>4 DEF SendWait, Full
    <3> QED BY <1>0, <1>00, <3>1
  <2> QED BY <1>1, <2>2, <2>3, <2>4 DEF Send
<1>2. ASSUME NEW r \in Receivers, Receive(q, r)
      PROVE  Capacity - Len(fifo'[q]) <= Cardinality(A')
  <2>1. done' \in {done, done \cup {r}} /\ r \notin Senders
    BY <1>2, Numbers DEF Receive
  <2>2. CASE RecvOk(q)
    <3>1. Len(fifo'[q]) = Len(fifo[q]) - 1
      BY <1>00, <2>2 DEF RecvOk, Empty
    <3>2. sendWait[q] # {}
      BY <1>00, <2>2 DEF RecvOk, SignalSender
    <3>3. PICK t \in sendWait[q] : sendWait' = [sendWait EXCEPT ![q] = @ \ {t}]
      BY <2>2, <3>2 DEF RecvOk, SignalSender
    <3>4. A' = A \cup {t} /\ t \notin A
      BY <1>0, <1>00, <2>1, <3>3
    <3>5. Cardinality(A') = Cardinality(A) + 1
      BY <1>0, <3>4, Count
    <3> QED BY <1>0, <1>00, <3>1, <3>2, <3>5
  <2>3. CASE RecvError(q) \/ RecvWait(q, r)
    <3>1. fifo' = fifo /\ sendWait' = sendWait
      BY <2>3 DEF RecvError, RecvWait, queueVars
    <3>2. A' = A
      BY <1>0, <2>1, <3>1
    <3> QED BY <1>0, <3>1, <3>2
  <2> QED BY <1>2, <2>2, <2>3 DEF Receive
<1>3. ASSUME CloseForSenders(q) \/ FlushQueue(q)
      PROVE  Capacity - Len(fifo'[q]) <= Cardinality(A')
  BY <1>00, <1>3 DEF CloseForSenders, SetErrSend, FlushQueue, Flush
<1>4. ASSUME CloseForReceivers(q) \/ Wakeup(q) \/ UNCHANGED vars
      PROVE  Capacity - Len(fifo'[q]) <= Cardinality(A')
  <2>1. fifo' = fifo /\ sendWait'[q] \subseteq sendWait[q] /\ done' = done
    BY <1>00, <1>4 DEF CloseForReceivers, SetErrRecv, Wakeup, SpuriousWakeup, WakeSender,
                       WakeReceiver, vars, userVars, queueVars
  <2>2. A \subseteq A' /\ sendWait[q] # {}
    BY <1>0, <2>1
  <2>3. Cardinality(A) <= Cardinality(A')
    BY <1>0, <2>2, Count
  <2> QED BY <1>0, <1>00, <2>1, <2>2, <2>3
<1> QED BY <1>00, <1>1, <1>2, <1>3, <1>4 DEF Next, Finished, A

(* Signals are enough on both sides.                                       *)
LEMMA WakeupStep ==
  TypeOK /\ WaitInv /\ WaitInv' /\ ErrorWakesAll /\ NoLostWakeup /\ [Next]_vars => NoLostWakeup'
BY ReceiverStep, SenderStep
   DEF NoLostWakeup, ReceiversSuffice, SendersSuffice, AwakeReceivers, AwakeSenders

-----------------------------------------------------------------------------
(* An empty queue that nobody uses yet.                                    *)
LEMMA InitInv == Init => IInv
<1> SUFFICES ASSUME Init PROVE IInv
  OBVIOUS
<1> USE Numbers DEF Init, QueueInit
<1>1. TypeOK
  <2>1. <<>> \in Seq(Messages) /\ Len(<<>>) = 0
    OBVIOUS
  <2> QED BY <2>1 DEF TypeOK, QueueType
<1>2. WaitInv /\ CloseInv /\ ErrorWakesAll /\ DrainedBeforeError /\ NoLostWakeup
  BY DEF WaitInv, CloseInv, ErrorWakesAll, DrainedBeforeError, NoLostWakeup
<1> QED BY <1>1, <1>2 DEF IInv

(* The invariant of the specification.                                     *)
THEOREM Invariance == Spec => []IInv
<1>1. IInv /\ [Next]_vars => IInv'
  BY TypeStep, WaitStep, ErrorStep, WakeupStep DEF IInv
<1> QED BY InitInv, <1>1, PTL DEF Spec

(* Queue and threads keep their types; the queue is never overfull.        *)
THEOREM TypeCorrect == Spec => []TypeOK
<1>1. IInv => TypeOK
  BY DEF IInv
<1> QED BY Invariance, <1>1, PTL

(* One signal for each message sent or taken loses no wakeup, however many *)
(* threads share the queue and however they poll, leave, or are woken.     *)
THEOREM SignalsSuffice == Spec => []NoLostWakeup
<1>1. IInv => NoLostWakeup
  BY DEF IInv
<1> QED BY Invariance, <1>1, PTL

(* No thread sleeps on a side whose error is set.                          *)
THEOREM ErrorsWake == Spec => []ErrorWakesAll
<1>1. IInv => ErrorWakesAll
  BY DEF IInv
<1> QED BY Invariance, <1>1, PTL

(* No receiver is told of the end while a message is left.                 *)
THEOREM DrainsFirst == Spec => []DrainedBeforeError
<1>1. IInv => DrainedBeforeError
  BY DEF IInv
<1> QED BY Invariance, <1>1, PTL
-----------------------------------------------------------------------------
(* The messages of a sender.  What was taken and what is in the queue are  *)
(* one sequence, which a send makes longer, a receive leaves as it is, and *)
(* a flush cuts off.                                                       *)
All(q) == taken \o fifo[q]

(* Of the messages 1..n that a sender s has sent, all contains those that  *)
(* are not in lost, in their order.                                        *)
InOrder(s, all, n, lost) ==
  /\ \A i, j \in 1..Len(all) :
       all[i][1] = s /\ all[j][1] = s /\ i < j => all[i][2] < all[j][2]
  /\ \A i \in 1..Len(all) : all[i] \notin lost
  /\ \A k \in 1..MessageCount :
       k <= n <=> <<s, k>> \in lost \/ \E i \in 1..Len(all) : all[i] = <<s, k>>

OrderInv == \A q \in Queues, s \in Senders : InOrder(s, All(q), sent[s], flushed)

LEMMA AllType ==
  ASSUME TypeOK, NEW q \in Queues
  PROVE  /\ All(q) \in Seq(Messages) /\ Len(All(q)) = Len(taken) + Len(fifo[q])
         /\ taken \in Seq(Messages) /\ fifo[q] \in Seq(Messages)
         /\ \A i \in 1..Len(taken) : All(q)[i] = taken[i]
         /\ \A i \in 1..Len(fifo[q]) : All(q)[Len(taken) + i] = fifo[q][i]
<1>1. taken \in Seq(Messages) /\ fifo[q] \in Seq(Messages)
  BY DEF TypeOK, QueueType
<1> QED BY <1>1 DEF All

(* A message added to the second of two sequences is added to both.        *)
LEMMA AppendToSecond ==
  ASSUME NEW S, NEW a \in Seq(S), NEW b \in Seq(S), NEW e \in S
  PROVE  a \o Append(b, e) = Append(a \o b, e)
OBVIOUS

(* A message moved from the head of the second to the end of the first     *)
(* leaves both together as they were.                                      *)
LEMMA MoveHead ==
  ASSUME NEW S, NEW a \in Seq(S), NEW b \in Seq(S), b # <<>>
  PROVE  Append(a, Head(b)) \o Tail(b) = a \o b
<1> DEFINE x == Append(a, Head(b))
           y == Tail(b)
<1>1. /\ x \in Seq(S) /\ Len(a) \in Nat /\ Len(x) = Len(a) + 1
      /\ \A i \in 1..Len(a) : x[i] = a[i]
      /\ x[Len(a) + 1] = b[1]
  BY HeadTailProperties
<1>2. /\ y \in Seq(S) /\ Len(b) \in Nat \ {0} /\ Len(y) = Len(b) - 1
      /\ \A i \in 1..Len(y) : y[i] = b[i + 1]
  BY HeadTailProperties, EmptySeq
<1> HIDE DEF x, y
<1>3. /\ x \o y \in Seq(S) /\ Len(x \o y) = Len(x) + Len(y)
      /\ \A i \in 1..Len(x) + Len(y) : (x \o y)[i] = IF i <= Len(x) THEN x[i] ELSE y[i - Len(x)]
  BY <1>1, <1>2, ConcatProperties
<1>4. /\ a \o b \in Seq(S) /\ Len(a \o b) = Len(a) + Len(b)
      /\ \A i \in 1..Len(a) + Len(b) : (a \o b)[i] = IF i <= Len(a) THEN a[i] ELSE b[i - Len(a)]
  BY ConcatProperties
<1>5. Len(x \o y) = Len(a \o b)
  BY <1>1, <1>2, <1>3, <1>4
<1>6. ASSUME NEW i \in 1..Len(x \o y) PROVE (x \o y)[i] = (a \o b)[i]
  <2>0. i \in 1..Len(x) + Len(y) /\ i \in 1..Len(a) + Len(b)
    BY <1>3, <1>4, <1>5
  <2>1. CASE i <= Len(a)
    BY <1>1, <1>3, <1>4, <2>0, <2>1
  <2>2. CASE i = Len(a) + 1
    BY <1>1, <1>3, <1>4, <2>0, <2>2
  <2>3. CASE i > Len(a) + 1
    <3>1. (x \o y)[i] = y[i - Len(x)] /\ (a \o b)[i] = b[i - Len(a)]
      BY <1>1, <1>3, <1>4, <2>0, <2>3
    <3>2. i - Len(x) \in 1..Len(y) /\ (i - Len(x)) + 1 = i - Len(a)
      BY <1>1, <1>2, <2>0, <2>3
    <3> QED BY <1>2, <3>1, <3>2
  <2> QED BY <1>1, <2>0, <2>1, <2>2, <2>3
<1>7. x \o y = a \o b
  BY <1>3, <1>4, <1>5, <1>6, SeqEqual
<1> QED BY <1>7 DEF x, y

(* A send appends the next message of its sender.                          *)
LEMMA SendAll ==
  ASSUME TypeOK, NEW q \in Queues, NEW m \in Messages, UNCHANGED taken,
         fifo' = [fifo EXCEPT ![q] = Append(@, m)]
  PROVE  All(q)' = Append(All(q), m)
<1>1. fifo'[q] = Append(fifo[q], m)
  BY DEF TypeOK, QueueType
<1> QED BY <1>1, AllType, AppendToSecond DEF All

(* A receive moves the head of the queue.                                  *)
LEMMA RecvAll ==
  ASSUME TypeOK, NEW q \in Queues, fifo[q] # <<>>,
         fifo' = [fifo EXCEPT ![q] = Tail(@)], taken' = Append(taken, Head(fifo[q]))
  PROVE  All(q)' = All(q)
<1>1. fifo'[q] = Tail(fifo[q])
  BY DEF TypeOK, QueueType
<1>2. taken \in Seq(Messages) /\ fifo[q] \in Seq(Messages)
  BY DEF TypeOK, QueueType
<1>3. Append(taken, Head(fifo[q])) \o Tail(fifo[q]) = taken \o fifo[q]
  BY <1>2, MoveHead
<1> QED BY <1>1, <1>3 DEF All

(* Order and completeness are kept.                                        *)
LEMMA OrderStep == TypeOK /\ OrderInv /\ [Next]_vars => OrderInv'
<1> SUFFICES ASSUME TypeOK, OrderInv, [Next]_vars PROVE OrderInv'
  OBVIOUS
<1> USE Numbers
<1>0. sent \in [Senders -> 0..MessageCount] /\ flushed \subseteq Messages
  BY DEF TypeOK
<1>1. ASSUME UNCHANGED <<sent, flushed>>, \A q \in Queues : All(q)' = All(q)
      PROVE  OrderInv'
  <2> SUFFICES ASSUME NEW q \in Queues, NEW s \in Senders
               PROVE  InOrder(s, All(q)', sent'[s], flushed')
    BY DEF OrderInv
  <2>1. All(q)' = All(q) /\ sent' = sent /\ flushed' = flushed
    BY <1>1
  <2> QED BY <2>1 DEF OrderInv
<1>2. ASSUME NEW q \in Queues, NEW s \in Senders, Send(q, s) PROVE OrderInv'
  <2> DEFINE m == <<s, sent[s] + 1>>
  <2>1. CASE SendOk(q, m) /\ sent' = [sent EXCEPT ![s] = @ + 1]
    <3>1. m \in Messages /\ sent[s] + 1 \in 1..MessageCount /\ m[1] = s /\ m[2] = sent[s] + 1
      BY <1>0, <1>2 DEF Send, Messages
    <3>2. All(q)' = Append(All(q), m)
      BY <1>2, <2>1, <3>1, SendAll DEF Send, SendOk
    <3> HIDE DEF m
    <3> DEFINE n == Len(All(q))
    <3>3. /\ n \in Nat /\ Len(All(q)') = n + 1 /\ All(q)'[n + 1] = m
          /\ \A i \in 1..n : All(q)'[i] = All(q)[i] /\ All(q)[i] \in Messages
      BY <3>1, <3>2, AllType
    <3> HIDE DEF n
    <3>4. flushed' = flushed /\ sent'[s] = sent[s] + 1
          /\ \A t \in Senders \ {s} : sent'[t] = sent[t]
      BY <1>0, <1>2, <2>1 DEF Send
    <3>5. m \notin flushed /\ \A i \in 1..n : All(q)[i] # m
      BY <1>0, <3>1 DEF OrderInv, InOrder, n, m
    <3>6. \A i \in 1..n : All(q)[i][1] = s => All(q)[i][2] <= sent[s]
      <4> SUFFICES ASSUME NEW i \in 1..n, All(q)[i][1] = s PROVE All(q)[i][2] <= sent[s]
        OBVIOUS
      <4>1. All(q)[i][2] \in 1..MessageCount /\ All(q)[i] = <<s, All(q)[i][2]>>
        BY <3>3 DEF Messages
      <4> QED BY <4>1 DEF OrderInv, InOrder, n
    <3>7. ASSUME NEW p \in Queues, NEW t \in Senders
          PROVE  InOrder(t, All(p)', sent'[t], flushed')
      <4>0. p = q
        OBVIOUS
      <4>1. \A i, j \in 1..n + 1 :
              All(q)'[i][1] = t /\ All(q)'[j][1] = t /\ i < j => All(q)'[i][2] < All(q)'[j][2]
        <5> SUFFICES ASSUME NEW i \in 1..n + 1, NEW j \in 1..n + 1,
                            All(q)'[i][1] = t, All(q)'[j][1] = t, i < j
                     PROVE  All(q)'[i][2] < All(q)'[j][2]
          OBVIOUS
        <5>1. i \in 1..n
          BY <3>3
        <5>2. CASE j \in 1..n
          BY <3>3, <5>1, <5>2 DEF OrderInv, InOrder, n
        <5>3. CASE j = n + 1
          <6>1. t = s /\ All(q)'[j][2] = sent[s] + 1
            BY <3>1, <3>3, <5>3
          <6>2. All(q)[i] \in Messages /\ All(q)[i][2] <= sent[s]
            BY <3>3, <3>6, <5>1, <6>1
          <6>3. All(q)[i][2] \in Nat /\ sent[s] \in Nat
            BY <1>0, <6>2 DEF Messages
          <6> QED BY <3>3, <5>1, <6>1, <6>2, <6>3
        <5> QED BY <3>3, <5>2, <5>3
      <4>2. \A i \in 1..n + 1 : All(q)'[i] \notin flushed'
        BY <3>3, <3>4, <3>5 DEF OrderInv, InOrder, n
      <4>3. ASSUME NEW k \in 1..MessageCount
            PROVE  k <= sent'[t] <=> <<t, k>> \in flushed' \/ \E i \in 1..n + 1 : All(q)'[i] = <<t, k>>
        <5>1. k <= sent[t] <=> <<t, k>> \in flushed \/ \E i \in 1..n : All(q)[i] = <<t, k>>
          BY DEF OrderInv, InOrder, n
        <5>2. (\E i \in 1..n + 1 : All(q)'[i] = <<t, k>>)
                <=> (\E i \in 1..n : All(q)[i] = <<t, k>>) \/ m = <<t, k>>
          <6>1. ASSUME NEW i \in 1..n + 1 PROVE i \in 1..n \/ i = n + 1
            BY <3>3
          <6>2. ASSUME NEW i \in 1..n PROVE i \in 1..n + 1 /\ All(q)'[i] = All(q)[i]
            BY <3>3
          <6>3. n + 1 \in 1..n + 1 /\ All(q)'[n + 1] = m
            BY <3>3
          <6> QED BY <6>1, <6>2, <6>3
        <5>3. m = <<t, k>> <=> t = s /\ k = sent[s] + 1
          BY DEF m
        <5>4. k <= sent'[t] <=> k <= sent[t] \/ (t = s /\ k = sent[s] + 1)
          BY <1>0, <3>4
        <5> QED BY <3>4, <5>1, <5>2, <5>3, <5>4
      <4> QED BY <3>3, <4>0, <4>1, <4>2, <4>3 DEF InOrder
    <3> QED BY <3>7 DEF OrderInv
  <2>2. CASE UNCHANGED <<fifo, sent>>
    BY <1>1, <1>2, <2>2 DEF Send, All
  <2> QED BY <1>2, <2>1, <2>2 DEF Send, SendError, SendWait, queueVars
<1>3. ASSUME NEW q \in Queues, NEW r \in Receivers, Receive(q, r) PROVE OrderInv'
  <2>1. CASE RecvOk(q) /\ taken' = Append(taken, Head(fifo[q]))
    <3>1. All(q)' = All(q)
      BY <2>1, RecvAll DEF RecvOk, Empty
    <3>2. \A p \in Queues : All(p)' = All(p)
      BY <3>1
    <3> QED BY <1>1, <1>3, <3>2 DEF Receive
  <2>2. CASE UNCHANGED <<fifo, taken>>
    BY <1>1, <1>3, <2>2 DEF Receive, All
  <2> QED BY <1>3, <2>1, <2>2 DEF Receive, RecvError, RecvWait, queueVars
<1>4. ASSUME NEW q \in Queues, CloseForSenders(q) \/ CloseForReceivers(q) \/ Wakeup(q)
      PROVE  OrderInv'
  BY <1>1, <1>4 DEF CloseForSenders, CloseForReceivers, Wakeup, SetErrSend, SetErrRecv,
     SpuriousWakeup, WakeSender, WakeReceiver, userVars, All
<1>5. ASSUME NEW q \in Queues, FlushQueue(q) PROVE OrderInv'
  <2> DEFINE l == Len(taken)
             n == Len(All(q))
  <2>1. /\ taken \in Seq(Messages) /\ fifo[q] \in Seq(Messages)
        /\ l \in Nat /\ Len(fifo[q]) \in Nat /\ n = l + Len(fifo[q])
        /\ \A i \in 1..l : All(q)[i] = taken[i]
        /\ \A i \in 1..Len(fifo[q]) : All(q)[l + i] = fifo[q][i]
    BY AllType
  <2>2. /\ All(q)' = taken /\ sent' = sent
        /\ flushed' = flushed \cup {fifo[q][i] : i \in 1..Len(fifo[q])}
    <3>1. fifo'[q] = <<>> /\ taken' = taken /\ taken \o <<>> = taken
      BY <1>5, <2>1 DEF FlushQueue, Flush, TypeOK, QueueType
    <3>2. Range(fifo[q]) = {fifo[q][i] : i \in 1..Len(fifo[q])}
      <4>1. DOMAIN fifo[q] = 1..Len(fifo[q])
        BY <2>1, LenProperties
      <4> QED BY <4>1 DEF Range
    <3>3. All(q)' = taken
      BY <3>1 DEF All
    <3>4. sent' = sent /\ flushed' = flushed \cup Range(fifo[q])
      BY <1>5 DEF FlushQueue
    <3> QED BY <3>2, <3>3, <3>4
  <2>3. ASSUME NEW i \in 1..l, NEW j \in 1..Len(fifo[q]) PROVE taken[i] # fifo[q][j]
    <3>1. All(q)[i] = taken[i] /\ All(q)[l + j] = fifo[q][j] /\ i < l + j
          /\ i \in 1..n /\ l + j \in 1..n
      BY <2>1
    <3>2. taken[i] \in Messages /\ taken[i][1] \in Senders /\ taken[i][2] \in Nat
      BY <2>1 DEF Messages
    <3>3. taken[i][1] = fifo[q][j][1] => taken[i][2] < fifo[q][j][2]
      <4>1. InOrder(taken[i][1], All(q), sent[taken[i][1]], flushed)
        BY <3>2 DEF OrderInv
      <4> QED BY <3>1, <4>1 DEF InOrder, n
    <3> QED BY <3>2, <3>3
  <2>4. ASSUME NEW p \in Queues, NEW t \in Senders PROVE InOrder(t, taken, sent[t], flushed')
    <3>1. \A i, j \in 1..l :
            taken[i][1] = t /\ taken[j][1] = t /\ i < j => taken[i][2] < taken[j][2]
      BY <2>1 DEF OrderInv, InOrder, n
    <3>2. \A i \in 1..l : taken[i] \notin flushed'
      BY <2>1, <2>2, <2>3 DEF OrderInv, InOrder, n
    <3>3. ASSUME NEW k \in 1..MessageCount
          PROVE  k <= sent[t] <=> <<t, k>> \in flushed' \/ \E i \in 1..l : taken[i] = <<t, k>>
      <4>1. k <= sent[t] <=> <<t, k>> \in flushed \/ \E i \in 1..n : All(q)[i] = <<t, k>>
        BY DEF OrderInv, InOrder, n
      <4>2. (\E i \in 1..n : All(q)[i] = <<t, k>>)
              <=> (\E i \in 1..l : taken[i] = <<t, k>>) \/ (\E i \in 1..Len(fifo[q]) : fifo[q][i] = <<t, k>>)
        <5>1. ASSUME NEW i \in 1..n
              PROVE  i \in 1..l \/ (i - l \in 1..Len(fifo[q]) /\ All(q)[i] = fifo[q][i - l])
          BY <2>1
        <5>2. \A i \in 1..Len(fifo[q]) : l + i \in 1..n
          BY <2>1
        <5>3. \A i \in 1..l : i \in 1..n
          BY <2>1
        <5> QED BY <2>1, <5>1, <5>2, <5>3
      <4> QED BY <2>2, <4>1, <4>2
    <3> QED BY <3>1, <3>2, <3>3 DEF InOrder
  <2>5. \A p \in Queues : All(p)' = taken
    BY <2>2
  <2> QED BY <2>2, <2>4, <2>5 DEF OrderInv
<1>6. CASE UNCHANGED vars
  BY <1>1, <1>6 DEF vars, queueVars, userVars, All
<1> QED BY <1>2, <1>3, <1>4, <1>5, <1>6 DEF Next, Finished

(* No message is lost, doubled or overtaken by another of its sender.      *)
THEOREM KeepsSenderOrder == Spec => []SenderOrder
<1>1. Init => OrderInv
  <2> SUFFICES ASSUME Init PROVE OrderInv
    OBVIOUS
  <2>1. \A q \in Queues : All(q) = <<>>
    <3>1. <<>> \o <<>> = <<>>
      BY ConcatEmptySeq, EmptySeq
    <3> QED BY <3>1 DEF Init, QueueInit, All
  <2>2. ASSUME NEW s \in Senders PROVE InOrder(s, <<>>, 0, {})
    BY Numbers DEF InOrder
  <2> QED BY <2>1, <2>2 DEF Init, OrderInv
<1>2. TypeOK /\ OrderInv => SenderOrder
  <2> SUFFICES ASSUME TypeOK, OrderInv, NEW q \in Queues, NEW s \in Senders
               PROVE  LET all    == All(q)
                          places == {i \in 1..Len(all) : all[i][1] = s}
                      IN  /\ \A i, j \in places : i < j => all[i][2] < all[j][2]
                          /\ {all[i][2] : i \in places}
                               = (1..sent[s]) \ {m[2] : m \in {n \in flushed : n[1] = s}}
    BY DEF SenderOrder, All
  <2> DEFINE all    == All(q)
             places == {i \in 1..Len(all) : all[i][1] = s}
             lost   == {m[2] : m \in {n \in flushed : n[1] = s}}
  <2>1. \A i, j \in places : i < j => all[i][2] < all[j][2]
    BY DEF OrderInv, InOrder
  <2>2. sent[s] \in 0..MessageCount /\ flushed \subseteq Messages /\ all \in Seq(Messages)
    BY AllType DEF TypeOK
  <2>3. ASSUME NEW i \in places PROVE all[i][2] \in (1..sent[s]) \ lost
    <3>1. all[i] \in Messages /\ all[i] = <<s, all[i][2]>> /\ all[i][2] \in 1..MessageCount
      BY <2>2 DEF Messages
    <3>2. all[i] \notin flushed /\ all[i][2] <= sent[s]
      BY <3>1 DEF OrderInv, InOrder
    <3>3. all[i][2] \notin lost
      <4> SUFFICES ASSUME NEW m \in flushed, m[1] = s, m[2] = all[i][2] PROVE FALSE
        OBVIOUS
      <4>1. m = <<s, all[i][2]>>
        BY <2>2 DEF Messages
      <4> QED BY <3>1, <3>2, <4>1
    <3> QED BY <2>2, <3>1, <3>2, <3>3
  <2>4. ASSUME NEW k \in (1..sent[s]) \ lost PROVE \E i \in places : all[i][2] = k
    <3>1. k \in 1..MessageCount /\ k <= sent[s]
      BY <2>2, Numbers
    <3>2. <<s, k>> \notin flushed
      <4>1. <<s, k>>[1] = s /\ <<s, k>>[2] = k
        OBVIOUS
      <4> QED BY <4>1
    <3>3. PICK i \in 1..Len(all) : all[i] = <<s, k>>
      BY <3>1, <3>2 DEF OrderInv, InOrder
    <3> QED BY <3>3
  <2> HIDE DEF lost, places, all
  <2>5. {all[i][2] : i \in places} = (1..sent[s]) \ lost
    BY <2>3, <2>4
  <2> QED BY <2>1, <2>5 DEF all, places, lost
<1> QED BY InitInv, TypeStep, OrderStep, <1>1, <1>2, TypeCorrect, PTL DEF Spec
=============================================================================
