SPECIFICATION FairSpec
CONSTANTS
  Queues = {q}
  Capacity = 2
  Senders = {s1, s2}
  Receivers = {r1, r2, r3}
  Polling = {r3}
  MessageCount = 2
  Flushes = TRUE
INVARIANTS TypeOK NoLostWakeup SenderOrder
PROPERTIES AllFinish
