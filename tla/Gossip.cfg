SPECIFICATION FairGossip
CONSTANTS
  n1 = n1
  n2 = n2
  n3 = n3
  ab = ab
  bc = bc
  b1 = b1
  b2 = b2
  NoBlock = NoBlock
  Node = {n1, n2, n3}
  Link = {ab, bc}
  Ends <- MCEnds
  Blocks <- MCBlocks
  Founders = {n1}
  Genesis = n2
  Buffer <- MCBuffer
  TooLong <- MCTooLong
  TooBig = {}
  MaxFaults = 1
INVARIANTS
  HonestUnslashed
PROPERTY
  Delivered
CHECK_DEADLOCK FALSE
