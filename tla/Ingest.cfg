SPECIFICATION FairSpec
CONSTANTS
  sender = sender
  big = big
  bad = bad
  good = good
  w1 = w1
  w2 = w2
  Packet = {big, bad, good}
  From <- MCFrom
  Oversized = {big}
  Invalid = {bad}
  Workers = {w1, w2}
  PacketQueueSize = 1
  MaxTxPerAddressPerMinute = 2
  RateLimitWindow = 1
  MaxPackets = 4
  MaxTime = 2
INVARIANTS TypeOK PacketsAccounted NoWorkAfterStop BurstBound
PROPERTY StopReturns
CHECK_DEADLOCK FALSE
